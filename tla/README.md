# ModPack in TLA+

A specification of the control logic of ModPack (modular teleoperation and data
collection): TLA+ modules translated from the code under `src/`, TLC runs on
small instances, and proofs checked by TLAPS. Source references are
`path:line`; `orchestration/` stands for `src/modpack/orchestration/` and
`robologger/` for `src/third_party/robologger/robologger/`.

Contents: [1 the system](#1-the-system-and-its-parts),
[2 the modules](#2-the-modules-and-the-code), [3 the runs](#3-the-runs),
[4 fairness](#4-fairness), [5 the proofs](#5-the-proofs),
[6 disagreements with the documentation](#6-disagreements-with-the-documentation),
[7 what is not modelled](#7-what-is-not-modelled),
[8 what is left](#8-what-is-left).

## 1 The system and its parts

A station is one or two PCs. On the **gello PC** the operator types keys into a
*coordinator*, which starts subsystem processes (GELLO, Vision Pro, neck,
iPhone, loggers) and hosts the message queues (RobotMQ). A *managed* robot
(arx5) has a second coordinator on the **robot PC**, started over SSH, with its
keyboard off and a MainLogger without any loggers; its arms and neck are run by
scripts. An *unmanaged* robot (rby1) has its own control stack and talks to the
same topics through the bridge.

A coordinator is a main thread (the input loop, 30 iterations a second), a
monitor thread (about five polls a second, each peeking the newest message of
every topic), a publishing thread (readiness, twice a second), and one process
per subsystem. The logger process has a thread per stream.

| Part | State | Operations | Talks to |
|---|---|---|---|
| Episode manager (`orchestration/episode_manager.py`) | `episode_state`, `logging_state`, `episode_count` | start, stop, pause, resume, delete_last, request_remote_delete, apply_remote_state, `_logging_handler` | calls MainLogger; publishes EPISODE_STATE; called by both the main thread and the monitor thread |
| MainLogger (`robologger/loggers/main_logger.py`) | `is_recording`, `episode_idx`, `last_episode_idx`, the episode directories | start/stop_recording, delete_last_episode, liveness queries, on_exit | one command topic per logger |
| Loggers (`robologger/loggers/base_logger.py`, `src/modpack/modules/logger/`) | `_is_recording`, `episode_dir`, buffered samples, the zarr stores | obey the last command read, log a sample, dump at stop | command topics, data topics |
| Coordinator input (`orchestration/coordinator.py`) | terminal, stdin buffer, two buttons' pending presses | collect taps, finalize a gesture, dispatch it | episode manager, activation bus |
| Coordinator shutdown (same file) | `running`, registries, remote PC | finalize the episode, broadcast, stop subsystems in reverse | everything |
| Cross-PC episode sync | topic EPISODE_STATE (newest only), two monitor threads | broadcast, peek, apply, acknowledge a deletion | both episode managers |
| Activation bus and monitor | topic ACTIVATION (newest only), readiness of peers | publish_activation_command, poll | runners, bridge, peers |
| Bridge (`src/modpack/bridge.py`) | activation flags of a robot controller | poll, callbacks | ACTIVATION, EPISODE_STATE |
| arx5 runners (`src/modpack/robots/arx5/`) | mode of an arm or the neck, recovery, the controller's last command | activate, deactivate, stop, follow the newest pose, suspend | ACTIVATION, pose topics, NECK_STATUS |
| Base teleoperation (`src/modpack/modules/base/`, `robots/arx5/base/`) | activation flags, a bounded command queue, the vehicle's motion | activation handlers, drive, control loop with a watchdog | ACTIVATION, the Base server |
| Vision Pro, GELLO, process registry, remote PC manager | readiness, process handles, retry counts | launch, retry, watch, shut down | the coordinator |
| RB-Y1 controller (`robots/rby1/control/`) | targets, robot state, twist, the driver's newest command | start, reset, set targets, IK cycle, stop | driver, gripper server |
| RB-Y1 policies (`robots/rby1/scripts/rby1_wbc_policy*.py`) | the schedule of timed actions, one request to the server | observe, infer, queue, sample, approve, leave | policy server, controller, cameras |
| RB-Y1 teleoperation (`robots/rby1/teleop/`) | controller state, grips, locked poses, the release gate | receive, grip, follow, start, stop, reject | controller |
| Video spools (`robologger/loggers/video_logger.py`, `scripts/data_tools/finalize_episode_video_spools.py`) | raw chunks, timestamps, the store, the .mp4 | spool, finalize a chunk, dump, encode, mark, delete | files |

**What is hard here.** The MainLogger and the loggers agree only through
one-way commands of which the loggers obey the last; samples live in memory
until a stop; a failed start, stop, pause or resume leaves several objects out
of step; SIGTERM and `q` end the station at any point, SIGTERM also in the middle
of a handler; a gesture is complete only after half a second of silence, in a
loop that its own handlers may block and may throw out of an iteration;
only the newest EPISODE_STATE and ACTIVATION message is ever seen, and it is
applied again at every poll; the gello PC's monitor thread changes the episode
manager between any two steps of the main thread. On the robots a thread that
commands and a thread that stops share flags without locks, replies and plans
come late or never, and only a watchdog stands behind a stop that was lost. A
video exists in four places written at four times by two programs. `PROJECT.json`
lists the hazards one by one, each at its line.

**What makes each part correct.**

* Episode manager and MainLogger: directories are numbered upwards and never
  shared; the count, the recording and the delete target stay in step through
  every failure.
* Loggers: they end up in the episode and mode the coordinator believes in; a
  store with data is never opened again; no sample taken is dropped.
* Input: gestures are the ones typed; no press counts twice, and none vanishes
  but the one in process when a handler raises; a pending gesture is handled;
  `q` ends the loop.
* Shutdown: the episode it interrupts is written out.
* Sync: the robot PC ends in the operator's state whatever it misses; a delete
  request costs one episode, the newest completed one.
* Arms, neck, base: however commands, failures and signals fall, a robot that
  is deactivated or suspended holds; the wheels come to rest; a stop does not
  count as handled before it has taken effect.
* RB-Y1 controller: no stale command turns the wheels; a reply answers the call
  that reads it; stop() returns.
* Policies: the schedule is in time order and never brings the past; leaving ends
  and leaves the robot alone.
* Teleoperation: an arm does what its hand has done since the last target, and
  stays where it is when a hand is seen to take hold of it.
* Videos: what stands as an .mp4 is the recording, and nothing written is lost.

## 2 The modules and the code

| Module | Models | Role |
|---|---|---|
| `EpisodeManager` | EpisodeManager and MainLogger, one operator per method | used by the next two |
| `EpisodeControl` | a station: gestures, the manager, the loggers, shutdown | EXTENDS `EpisodeManager` |
| `EpisodeLifecycle` | what the operator is promised, without loggers or directories | abstract specification |
| `EpisodeRefinement` | the refinement mapping from a station to `EpisodeLifecycle` | EXTENDS `EpisodeControl` |
| `MCEpisodeControl` | liveness properties | EXTENDS `EpisodeRefinement` |
| `EpisodeControlProofs` | theorems | EXTENDS `EpisodeRefinement`, TLAPS |
| `TapInput`, `TapInputProofs` | keyboard, stdin buffer, both buttons, time | proofs EXTEND the model |
| `EpisodeSync` | two coordinators over EPISODE_STATE | two INSTANCEs of `EpisodeManager` |
| `VideoSpool` | camera loggers, their spools and the encoding tool | stands alone |
| `EpisodeDataProofs` | theorems about which episodes and which frames are kept | EXTENDS `EpisodeSync`, `VideoSpool` |
| `ArxFollower`, `ArxFollowerProofs` | an arm's or the neck's runner, what engages it, the Vision Pro | proofs EXTEND the model |
| `BaseTeleop`, `BaseTeleopProofs` | the base process, its server and control loop | proofs EXTEND the model |
| `GripperLink` | one caller's requests to the gripper server | used by the next |
| `WholeBody`, `WholeBodyProofs` | the RB-Y1's controller and realtime driver | EXTENDS `GripperLink` |
| `PolicyStream`, `MCPolicyStream`, `PolicyStreamProofs` | both policy scripts | stands alone |
| `TeleopVR`, `MCTeleopVR`, `TeleopVRProofs` | Quest teleoperation of the RB-Y1's arms | stands alone |

### EpisodeManager

The variables are the fields of the two objects under their own names, and
`dirs`, the indices of the `episode_NNNNNN` directories. `None` is -1. The
branches of `_logging_handler` are `ActiveRequested` (with the five ways it can
end as its argument: every logger told; a logger does not answer; no directory
could be made; something after that raised; the state does not allow it),
`RecordingPaused`, `RecordingResumed`, `RecordingStopped` and
`RecordingStopRaises`. `Start`, `Stop`, `StopFails`, `Pause`, `Resume` and
`DeleteLast` are the operator's controls, `AppliedStart` ... `AppliedDelete`
the branches of `apply_remote_state`. `StartCut`, `StopCut`, `PauseCut` and
`ResumeCut` are what a control has done when SIGTERM ends the process inside it.
Metadata, prompts and printing are left out.

### EpisodeControl

| Code | Here |
|---|---|
| a complete gesture of `s` | `tap`, set by `Tap`, taken by `HandleTap` |
| a handler that raises: the pending flag stays set and it is tried again | `overdue`, `StartHandlingRaises`, `StopHandled` |
| the event is computed anew at each try: a tap of 0.75 s is a long press, which nothing handles | `RetriedTapAges` |
| `q`, and the iteration in which the overdue gesture raises first | `quit_key`, `ProcessQuit`, `QuitSwallowed` |
| SIGTERM between two handlers | `Interrupt` |
| SIGTERM inside a handler: `_sigterm_handler` runs the shutdown there, and `sys.exit` ends what was interrupted | `InterruptStart`, `InterruptStop`, `InterruptPause`, `InterruptResume` |
| finalize, kill the logger process, closing STOPPED and `on_exit` | `phase`, `ShutdownFinalize`, `KillLoggers`, `Exit` |
| a logger's command topic, emptied by each read, last command obeyed | `command[l]`, at most one command: a put replaces it |
| BaseLogger | `rec`, `episode_dir`, `buffered`, `saved`, `UpdateRecordingState`, `LogSample` |
| a logger process that dies | `LoggerCrash` |

`lost` is a history variable: the episodes whose samples a logger dropped. So is
`torn`: SIGTERM fell between the assignments of MainLogger's `is_recording` and of
the manager's `logging_state` in a start, a stop or a pause. The shutdown's
STOPPED then does nothing, because one of the two says there is nothing to stop,
and loggers that were not told die with the samples they hold. `LoggersFollow`
and `NothingLost` are stated without that case, and the lifecycle names it. Video
loggers keep their timestamps in the same lists and follow the same
lifecycle.

The environment is a parameter. `Flaky` are loggers whose status query may time
out; `Crashes` lets the logger process die; `IoFaults` lets a put, a makedirs or
a metadata write raise. `Prompt` says the loggers have read their commands
before the next gesture is over: a gesture needs half a second of silence, and
loggers poll at their stream's frequency. `Grace` says they have read the last
command before they are gone: the logger process is forked from the coordinator
with its `_sigterm_handler` installed, which waits two seconds, while the
polling threads go on. Both are assumptions about timing, stated once and
dropped in the faulty run.

### EpisodeLifecycle

Idle, recording or paused; each recording gets a number above all earlier ones;
a new one begins only when the ended ones are written out; a shutdown ends the
recording it interrupts; what is ended is eventually written out, unless the
station is torn down halfway through a change (`GiveUp`, after which `given_up`
holds). `EpisodeRefinement!ImplementsLifecycle` says that a station whose loggers answer
and keep up implements it, `ImplementsLifecycleSteps` the part of it without
fairness: `used` is `dirs`, and `closing` is every episode some
logger still holds, will hold, or has dropped samples of, without the current
one. An episode with dropped samples stays in `closing` for ever, so the
fairness of `WriteOut` makes a loss a violation. `given_up` is `torn`, and with
it `closing` is empty: of a torn change nothing is promised.

### TapInput

Time is in ticks of 1/8 s (the windows are 4 and 6 ticks). In each iteration the
loop polls the terminal, reads one character, finalizes expired gestures,
processes the key and finalizes again; the loop does nothing while the handler of
a gesture of `v` sleeps (`blocked`; `_vp_activation` sleeps five seconds, here 8
ticks, more than either window). A handler may raise (`HandlerRaises`): the
iteration ends in `except`, with the key it had read and not yet counted dropped;
a gesture of `v` is forgotten, because its flag is cleared before its handler
runs, while one of `s` stays and is tried again. `select` asks about the
terminal, `read(1)` moves all of it to the buffer of `sys.stdin` and returns one
character; the two sequences are separate variables. `handled`, `typed`,
`typed_age`, `dropped` and `late` are history variables: what was handled, what
the operator typed, the presses an exception dropped, and whether the loop ever
fell behind or went through `except`.

### EpisodeSync

The gello PC's main thread does a gesture and its broadcast in two steps, its
monitor thread and the robot PC's both peek and apply in two steps, and all of
these interleave. The topic holds one message, which stays. The operator's
triple tap publishes a delete request; the robot PC deletes and answers with an
acknowledgement that replaces whatever is newest; the gello PC applies that to
its count again at every poll. The specification's parts are named `SyncInit`,
`SyncNext` and so on because one proof module extends this module and
`VideoSpool`. Loggers and writes do not fail here: that is
`EpisodeControl`'s part. `asked` is a history variable, the episode the operator
meant.

### VideoSpool

One episode. Each camera has a thread of the logger process, a VideoLogger, a
store and a spool directory. `PollCamera(c)` is the thread: obey the newest
command, spool a frame, close a full chunk (write its timestamps, count it), and
at the stop close the last chunk and dump the timestamps; `at[c]` is where it
stands, because a failure or the end of the process may come between any two of
these. `Command` is MainLogger, `Killed` the end of the process. `Tool` is the
encoding tool: it goes through the cameras of the episode in the order of their
names, and for each encodes chunk after chunk, compares frames with timestamps,
marks the store, and deletes the spool file by file; it may be interrupted
anywhere and run again.

`spooled`, `clean` and `cut` are history variables: the frames written whole,
whether nothing has failed, and whether a deletion was interrupted. Abstracted:
frames are numbers, timestamps are only counted, chunk files are a sequence.
Assumed: one camera configuration per logger, stores of cameras only, and an
operator who runs the tool once the recording is over (`Over`); the code checks
none of the three.

### ArxFollower

`role` says whether the runner is an arm's or the neck's. The runner has two
threads: the bridge's (`listener`: poll the newest activation, run a callback)
and the main one (`stage`: start, wait, check the flags, command, halt,
suspend). The check and the command are two steps, and so are a callback's hold
and the clearing of its flag. Around them are the operator's taps with their
waits of five seconds (`pause`), the monitor thread that reads NECK_STATUS, the
Vision Pro process, the watchdog of a dead GELLO process, messages for others
that replace an unread one, failures of the controller, and SIGTERM: from
outside, and the one an arm sends itself when a joint would turn too fast
(`Violation`).

A hold may be refused: the code logs and swallows the controller's error and
goes on to suspend (`Hold`, `refused`). A move of the start that raises ends the
runner (`crashed`). The neck says it is at its start pose as soon as the move
there is commanded: `moving` is what is left of its three seconds, and `Second`
takes one from it and from `pause`. `bypass` is VP_BYPASS_NECK, with which a
thread of the coordinator pretends the readiness of the neck (`Bypass`). Poses
are not modelled; `command` says whether the last command to the controller
belongs to the start, tracks a pose or holds. `late` is a history variable: poses
tracked since the last activation while `_activated` was cleared. Poses that slip
in between a callback's hold and that are not counted; it is the hold of the end
of the loop that `SuspendedHolds` relies on.

### BaseTeleop

A handler is the sequence `todo` of its remaining calls to the Base object, and
any of them may raise (`Fails`) or be interrupted (`Signal`). The teleoperation
thread goes `idle`, `round`, `call`, `checked`: it looks at the flag, calls
`execute_action`, which looks at `armed`, and then puts a target in the
vehicle's queue of one. The control loop takes the queue's command each tick and
goes neutral when none has come for `Timeout`. `quiet` is a history variable:
the time since the teleoperation thread could last drive.

### GripperLink and WholeBody

`GripperLink` is the client's `_request` with its one retry on a new connection,
and the server's thread on the client's connection, which may be slow, drop the
connection or be gone. `WholeBody` is `RBY1WBC`: the owner thread's start
(threads, first state, reset of the base) and stop (join, driver), targets set
by others, the state poller, and the IK thread's cycle in four steps, because
the twist is computed before the gripper is asked and sent after. The driver
keeps the newest command, drops it after `CommandTimeout`, and filters the
speed. The base is a place on a track and a twist is a direction; the arms are
modelled only as having a target or not.

### PolicyStream

`mode` picks the script: poses of the end effectors (`rby1_wbc_policy.py`, with
`debug` for the operator's approval) or joint positions
(`rby1_wbc_policy_joint.py`). They share the module's actions, and where they
differ each has its own (`SampleEE`, `SampleJoint`, `ApplyEE`, `ApplyJoint`,
...). The
inference thread observes (with cameras whose frames may be old or missing),
sends, waits, times out, stamps the reply and queues it, and the end-effector
script's `stop` waits one second for it, wherever it is, before it leaves it
behind; the command thread
samples the schedule, interpolates, and applies; the main thread starts,
approves and leaves. Time is relative: `due = 0` is now and a `Tick` ages
everything, so time has no bound; `Oldest` stops telling the past apart. Left
out: dry runs, video recording, and the joint script's moves to a ready position
before the threads start.

### TeleopVR

The receiver's datagrams (`Receive`) and the trajectory loop's cycle, step by
step: read the robot, read the controllers or stop at the release gate, look at
A, look at B, clear both, follow the grips, and send the target, which the
controller accepts or refuses by its distance from the robot (`Accept`,
`Reject`). The arms approach their target at any pace (`Move`). A pose is one
angle on a ring of `Circle` steps: poses only have differences that add up and a
distance. `pending`, `hold` and `unseen` are history variables: the pose an arm
has been given by the start or a rejection and not yet taken; where the
controller of an arm held at the last target was then, forgotten once the loop
has read that the hand let go; and the same for a hand whose every reading
without a grip came while B had teleoperation stopped, when the loop reads the
controllers but does not look at the grips. The head's target is not sent by the code
(`teleop_vr.py:211`), and the grippers' widths are left out.

Definitions whose comment starts with "Seeded fault" are not used by the
specifications. Each is a plausible bug in the definition after it; with the
bug in its place, TLC finds the property named in `PROJECT.json` ("mutants")
violated, which shows the property depends on that code.

RobotMQ is external: it is modelled from its use in `src/` (pop of all, peek of
the newest, the last message retained).

## 3 The runs

| Run | Module, cfg | Distinct states | Shows |
|---|---|---|---|
| episode_reliable | `MCEpisodeControl`, `EpisodeReliable.cfg` | 47 492 | two loggers that answer and keep up, three episodes, `q` anywhere and SIGTERM anywhere, inside handlers too: `TypeOK`, `LoggersFollow`, `NothingLost`, `ImplementsLifecycle`, `QuitLeadsToShutdown` |
| episode_faulty | `MCEpisodeControl`, `EpisodeFaulty.cfg` | 2 196 517 | every fault at once, two episodes: `NeverReopened`, `RecordingMatchesEpisode`, `DeleteTargetsLastRecording` |
| taps | `TapInput`, `Taps.cfg` | 295 705 | four keys at any spacing, a handler that blocks, handlers that raise: `TypeOK`, `GesturesAreTyped`, `PressesConserved`, `PendingIsHandled` |
| sync | `EpisodeSync`, `EpisodeSync.cfg` | 97 292 | two episodes, two delete requests: `SyncTypeOK`, `RequestDeletesOnce`, `DeletesNewestCompleted`, `RobotFollows` |
| base | `BaseTeleop`, `BaseTeleop.cfg` | 791 902 | every order of commands, failing calls, a signal: `TypeOK`, `DisarmedStops`, `RecordedStopDisarms` |
| follower | `ArxFollower`, `ArxFollower.cfg` | 641 024 | both kinds of runner, with and without the bypass, refused holds, SIGTERM: `TypeOK`, `SuspendedHolds`, `OneLatePose`, `HeadAfterNeck`, `StopEnds` |
| wbc | `WholeBody`, `WholeBody.cfg` | 152 370 | `TypeOK`, `WheelsStop`, `BaseAtRest`, `ReplyIsOwn`, `StopEnds` |
| policy | `MCPolicyStream`, `PolicyStream.cfg` | 366 797 | both scripts: `TypeOK`, `ScheduleInOrder`, `FutureWhenQueued`, `QuietAfterExit`, `LeavingEnds` |
| teleop_vr | `MCTeleopVR`, `TeleopVR.cfg` | 1 595 163 | two arms: `TypeOK`, `ArmFollowsHand` |
| spool | `VideoSpool`, `VideoSpool.cfg` | 1 762 564 | two cameras: `TypeOK`, `VideoIsTheRecording`, `FramesAreKept`, `CleanIsFinalized` |
| quit_after_failed_start, triple_tap | see section 6 | | the code does not do what a document says |

**Bounds.**

* Episodes: `MaxEpisodes` bounds the directory numbers; `HasRoom` keeps the
  operator from starting when they are used up, and the run begins with any set
  of directories earlier sessions may have left, gaps included. Three episodes
  give "one before, one interrupted, one after"; two suffice for the faulty run,
  where a failed start is followed by a good one. Two loggers are the least with
  which one is told and the other is not, and `Flaky` holds one of them, so that
  both `alive = Loggers` and not happen.
* Taps: `MaxKeys` of four is two gestures of two presses, or one gesture around
  another button's. The block of 8 ticks exceeds both thresholds, so a longer one
  reaches no new ages (`Older` caps them at the long-press threshold). Two
  handlers that raise (`MaxRaises`) are two tries of one gesture, or one of each
  button.
* Sync: `MaxRequests` of two lets a request follow an acknowledgement. The robot
  PC's directories start at or below the highest of the gello PC, so that the
  bound never cuts off its starts.
* Base: `Timeout` of 2 ticks leaves room for a command between the last one and
  the watchdog. Nothing else is bounded.
* Follower: `Wait` 2 and `MoveTime` 1 keep the order of the code's 5 and 3
  seconds, which is all that `HeadAfterNeck` depends on; `late` stops counting at
  two, which the property excludes.
* Whole body: two places are enough for a twist in either direction; a speed of 2
  takes the filter two ticks; the gripper call's two timeouts (`SocketTimeout` 2)
  outlast `CommandTimeout` 2 and `JoinTimeout` 3, which is the order of the
  code's defaults. `Requests` of two tells the newest call from the one before.
* Policy: chunks of four actions with `Latency` 1 let a reply come before, within
  and after its plan; two targets with a place between them let the sampling
  interpolate; `PolicyTimeout` 2 lets the observation age while waiting;
  `Oldest` -1 keeps one past moment.
* Teleoperation: on a ring of 4 steps with `Limit` 1 a hand can go too far for
  one target and be refused, and one step is accepted. The right hand goes over
  three places, gripped, half gripped and released; the left one grips or is
  lost. Where a controller is matters only while it is gripped.
* Spools: four frames over both cameras in chunks of two: one camera fills two
  chunks, or each fills one, or stops in the middle of one.

Deadlock is checked in all runs but spool: a station that is off, a loop that
has stopped and a program that has exited have explicit stuttering actions. In
spool the episode is over at some time and the tool need not run again.

## 4 Fairness

* The input loop runs 30 times a second and never blocks on the keyboard: weak
  fairness of `HandleTap`, `ProcessQuit`, `QuitSwallowed` and of the shutdown
  steps; in `TapInput`, of `Iterate` and of the clock. The clock also ages a tap
  that is retried: weak fairness of `RetriedTapAges`.
* Each logger thread polls at its stream's frequency whatever the others do: weak
  fairness of `UpdateRecordingState(l)`.
* The monitor threads poll five times a second on both PCs, and a handled
  gesture is followed by its broadcast in the same call: weak fairness of
  `GelloPeek`, `GelloApply`, `RobotPeek`, `RobotApply`, `Broadcast`.
* `ArxFollower`: the runner's two threads run, weak fairness of `MainThread` and
  of `Listener`. Nothing is assumed of the operator, the monitor or the Vision
  Pro.
* `PolicyStream` and `WholeBody`: weak fairness of the threads' own steps.
  Neither the policy server, the gripper server nor the operator has to answer:
  what ends a wait is time. Time passes only when no thread has a step that takes
  no time, so `Tick` is disabled again and again; that it goes on all the same
  is strong fairness of `Tick`, the only strong fairness used. No program can
  keep a clock from going on.
* `BaseTeleop`, `VideoSpool` and `TeleopVR` have safety properties only and
  assume none. In `BaseTeleop` time is part of the property: `DisarmedStops` is
  about what has happened within the watchdog's time.
* Nothing is assumed of the operator, of readiness, of faults, of signals, or of
  samples arriving.

## 5 The proofs

Each `...Proofs` module holds for every value of its model's constants that the
model's assumptions admit (`MaxEpisodesAssumption`, `LoggersAssumption`,
`SwitchesAssumption`; `TimingAssumption`; `TimesAssumption`; `SyncAssumption`;
`CamerasAssumption`, `FramesAssumption`; `TimeoutAssumption`; `LinkAssumption`,
`BodyAssumption`; `PolicyAssumption`; `CircleAssumption`, `HeldAssumption`,
`NoneAssumption`), and none of them needs fairness.

| Module | Theorem | States | Inductive invariant |
|---|---|---|---|
| `EpisodeControlProofs` | `TypeCorrect` | `Spec => []TypeOK` | `TypeInv` |
| | `StoresAreOpenedOnce` | `Spec => NeverReopened` | `TypeInv /\ FreshInv` |
| | `ReliableLoggersFollow` | `Spec => []LoggersFollow`, assuming `Reliable` | `TypeInv /\ FreshInv /\ ReliableInv` |
| | `ReliableNothingLost` | `Spec => []NothingLost`, assuming `Reliable` | the same |
| | `RecordingIsTheEpisode`, `DeleteRefersToLastRecording` | the two invariants of the faulty run | `TypeInv /\ RecordInv` |
| | `ReliableStationImplementsLifecycle` | `Spec => ImplementsLifecycleSteps`, assuming `Reliable` and a logger | `LifecycleInv` |
| `TapInputProofs` | `TypeCorrect` | `Spec => []TypeOK` | `TypeInv` |
| | `HandlesWhatIsTyped` | `Spec => []GesturesAreTyped` | `TypeInv /\ GestureInv` |
| | `NoPressIsLost` | `Spec => []PressesConserved` | `TypeInv /\ ConservedInv` |
| `EpisodeDataProofs` | `SyncIsTyped` | `SyncSpec => []SyncTypeOK` | `SyncTypeOK` |
| | `RequestsDeleteOnce` | `SyncSpec => []RequestDeletesOnce` | `SyncTypeOK /\ RequestInv` |
| | `DeletesOnlyTheNewest` | `SyncSpec => DeletesNewestCompleted` | `SyncTypeOK /\ NewestInv` |
| | `SpoolIsTyped` | `Spec => []TypeOK` | `TypeOK /\ SpoolInv` |
| | `VideosAreRecordings`, `NoFrameIsLost`, `CleanEpisodesAreFinalized` | `VideoSpool`'s three invariants | the same |
| `BaseTeleopProofs` | `BaseTypeCorrect` | `Spec => []TypeOK` | `TypeOK` |
| | `BaseDisarmedStops` | `Spec => []DisarmedStops` | `TypeOK /\ MovingInv` |
| | `BaseRecordedStopDisarms` | `Spec => []RecordedStopDisarms` | `TypeOK /\ StopInv` |
| `ArxFollowerProofs` | `FollowerTypeCorrect` | `Spec => []TypeOK` | `TypeOK` |
| | `FollowerSuspendedHolds`, `FollowerOneLatePose`, `FollowerHeadAfterNeck` | the three invariants | `TypeOK /\ FollowerInv` |
| `WholeBodyProofs` | `BodyTypeCorrect` | `Spec => []TypeOK` | `TypeOK` |
| | `GripperReplyIsOwn` | `Spec => []ReplyIsOwn` | `TypeOK /\ LinkInv` |
| | `BodyWheelsStop` | `Spec => []WheelsStop` | `TypeOK /\ WheelsInv` |
| | `BodyBaseAtRest` | `Spec => []BaseAtRest` | `TypeOK /\ RestInv` |
| `PolicyStreamProofs` | `PolicyTypeCorrect` | `Spec => []TypeOK` | `PolicyTyped` |
| | `PolicyScheduleInOrder`, `PolicyFutureWhenQueued` | the two invariants | `PolicyInv` |
| | `PolicyQuietAfterExit` | `Spec => QuietAfterExit` | `ExitInv` |
| `TeleopVRProofs` | `VRTypeCorrect` | `Spec => []TypeOK` | `TypeOK /\ StateRead` |
| | `VRArmFollowsHand` | `Spec => ArmFollowsHand` | `VRInv` |

**EpisodeControl.**

* `TypeOK` is not inductive: a dump adds `episode_dir[l]` to `saved[l]`, which
  would be `None` in a logger that has samples of no episode. `TypeInv` adds
  `HoldsEpisode`: a logger that records or holds samples is in an episode.
* `NeverReopened` is about a step in which a logger's episode changes. The
  number it opens comes from a command, so `FreshInv` says where numbers come
  from: what a logger has saved is among the directories; the episode it is in
  is a directory it has saved nothing of; and so is the one an unread start
  names, which is not the episode it is in, so that nothing else is written
  there before the start is read. A start is numbered above all of `dirs`
  (`NextEpisodeIdxIsNew`), which with faults is the only thing that keeps two
  episodes apart.
* `LoggersFollow` compares a logger with the manager, and is preserved only if the
  manager's own fields agree: `CoordinatorAgrees` relates the logging state,
  `is_recording`, the shutdown phase and the directories. `NothingLost` also needs
  that a logger which will read a start holds no samples (`StartsEmpty`). Both say
  nothing of a torn shutdown, and the steps that set `torn` are those in which
  `CoordinatorAgrees` would fail. `ReliableInv` is their conjunction, with the
  logger process alive until it is killed; a gesture is handled with no command
  unread, hence `FollowsWhenDrained`. It is preserved together with `FreshInv`: a
  resume takes effect only if the logger's directory exists.
* Whatever fails, two records of the recording stay in step (`RecordInv`):
  MainLogger's `is_recording`, `episode_idx` and `last_episode_idx`, and the
  manager's state and count. They come apart only in a start that fails, which
  leaves the count at None; every later start raises before it changes anything.
  So `CountInv` says that while there is a count, MainLogger records only if the
  manager's logging is active or paused, and what it records is what is counted.
* The refinement takes one step lemma per action of the station, each naming the
  action of `EpisodeLifecycle` it is or the stutter. Gestures are handled where
  the lifecycle expects them because the manager's state and its logging state
  agree (`ModesAgree`). A start finds `closing` empty because every logger has
  written out what it held when it follows with no command unread
  (`DrainedIsWritten`). A logger's step writes an episode out for the operator
  only if it is the last one that held it: `ClosingShrinks` is that step, and
  `ClosingIs` says what `closing` is when nothing was dropped. The theorem
  assumes a logger, because without one an ended episode is never being written
  out at all, which `EpisodeLifecycle` does not describe. SIGTERM inside a handler is
  `Off` in the lifecycle, or, where it tears the change, `GiveUp`.

**TapInput.** `TypeOK` bounds counts by the keys typed: `TypeInv` adds that each
key is in one place (`KeysInv`) and each typed gesture is made of keys typed
(`GroupsInv`). `ConservedInv` says that each press of a button is handled,
pending, unread or dropped, and that an exception drops one key at most. Its sums
are over sequences that grow at one end and lose elements at the other, and
`Total` is a recursive function: `TotalIs` unfolds it by induction, and
`TotalGrows`, `TotalChanges` and `TotalOfTail` are what the steps need.
`GestureInv` is about a loop that keeps up: at most one key is on its way
(`OneKeyInv`), and what the operator typed is what was handled, followed by what
is pending and the key on its way (`LeftToHandle`). `Timely` says a pending
gesture is as old as its last press, and over before it could look long; it is
what `TimingAssumption` (`Window + 1 < LongPress`) is for.

**EpisodeSync.** `RequestInv`: a request that has not cost an episode yet is still
to be sent, or is what the robot PC has peeked or would peek next; these two count
as one, because an acknowledgement replaces the message and the peeked one is
spent. `NewestInv`: while the robot PC records, its newest directory is the one
being recorded, and when it does not, the one it remembers is the newest.

**VideoSpool.** None of the three invariants is inductive, and they need each
other. `SpoolInv` has for each camera:

* `ThreadInv` and `ChunksInv`, what the logger's thread has in memory and in its
  open file; the tool is off until the recording is over (`OffInv`), which is
  stable, so the thread and the tool never act on the same state;
* `StampsInv`: each frame written has its timestamp, in memory or in the store,
  so there are never fewer timestamps than frames;
* `ShownInv`: the frames the spool still shows (`Shown`) are at most those
  written, and all of them if as many: `LogFrame` appends to both, and deletions
  only shorten the first. With `StampsInv` this is the argument for
  `VideoIsTheRecording`: the tool accepts a video only if it has as many frames as
  timestamps, and so it has all of them, in order;
* `ToolInv`: the tool deletes only the spool of a store whose .mp4 is whole,
  which is the argument for `FramesAreKept`;
* `CleanInv` and `CleanChunksInv`: as long as nothing has failed, every chunk but
  the open one has its timestamps, and the last one is closed before the thread
  goes on; so at the end every chunk can be encoded, and `CleanIsFinalized` holds.

`Shown` joins the chunks with `FlattenSeq`, whose recursion the proofs unfold by
induction (`FlattenIs`, and `FlattenGrows`, `FlattenChanges` and `FlattenLoses` for
a chunk that is added, replaced or deleted). The library's induction theorems take an operator as a
parameter, which the installed provers cannot instantiate; `NatSetInduction`
states induction for a set of numbers instead, from the well-foundedness of < on
Nat, and is used with a set {m \in Nat : P(m)} in each case.

**BaseTeleop.** `DisarmedStops` compares two clocks. `MovingInv` says that while
the teleoperation thread may still drive (`MayDrive`) `quiet` is 0, and that
wheels which move, or a drive command in the queue, were driven recently
(`Driven`: `since` runs with `quiet`, one tick behind at most). `StopInv` follows
a stop through its handler: it is not recorded while it is the newest message
being handled, its remaining steps contain the disarming or the base is disarmed
already, and no step of it arms. `Steps` is a table, and the lemmas
`StepsAreSteps` and `StepTaken` say of it what the invariants need.

**ArxFollower.** `FollowerInv` has four parts: nothing is initialized before the
start (`StartInv`); a runner on its way to be suspended has held, or tried to and
been refused (`HoldInv`); after one late pose the main thread is not past its
check, and cannot pass it without an activation, which resets the count
(`LateInv`); without the bypass, whatever engages the head follows a status the
neck has not taken back, and while the operator waits to tell the neck the wait
outlasts what is left of its move, so that whatever lets it track a pose
(`Following`) finds the move over (`HeadInv`). That is what `MoveTime <= Wait` of
`TimesAssumption` is for.

**WholeBody.** `LinkInv`: the connection holds at most one request or one reply,
and it is the one of the call in progress, because a retry starts an empty
connection. `WheelsInv`: the driver has dropped the command, with the output at
zero, by the time it is too old. `RestInv`: while nobody has set a target the IK
thread has no twist to send, and when the controller is running the wheels' last
command is none or zero.

**PolicyStream.** `PolicyTyped` is `TypeOK` with the number of requests bounded
before each send. `PlanInv`: the schedule and the chunk are in order, and a chunk
about to be queued without approval lies ahead. That a schedule stays in order
when its end is replaced rests on lemmas about where a sequence is cut
(`LeastNat` uses the well-foundedness of < on Nat). `ExitInv`: once the main
thread has exited there is no command thread and nothing sampled.

**TeleopVR.** `ArmFollowsHand` is about the one step that sends a target, and
compares it with where robot, controller and target were some cycles before.
`LockedInv`: while teleoperation is active the locked pose of an arm is the last
target, or what a start or a rejection has put in its place. `GateInv`: behind
the gate no arm is held. `HoldInv`: between cycles the follow state of an arm is
set exactly if its controller was gripped at the last target, or has let go since
only in cycles that B had stopped (`Since`), and that target lies at its offset.
`SendInv` is the property before the step. The lemmas `WrapOnce`, `TakenHold` and
`SameOffset` add poses up on a ring of any size.

Each step lemma has one case per action, grouped by thread.

Every invariant and every action property of a passing run is a theorem.
**Only model-checked** are the liveness properties (`QuitLeadsToShutdown`,
`PendingIsHandled`, `RobotFollows`, `LeavingEnds`, both `StopEnds`) and the
fairness of `ImplementsLifecycle`, the promise that what is ended is eventually
written out: liveness under fairness is out of the prover's reach.

## 6 Disagreements with the documentation

Each is a run in which TLC finds what a document says violated.

* **quit_after_failed_start.** A start refused because a logger does not answer
  leaves `episode_count` at None (`orchestration/episode_manager.py:138`). The
  next start raises at `+= 1`, before the pending press is cleared, so it raises
  again in every iteration until its tap, handled from half a second on, has aged
  to the 0.75 s of a long press, which is ignored. It raises before the key of
  that iteration is looked at: a `q` read meanwhile is dropped, and has to be
  pressed again. `src/README.md:155`: "Pressing *q* at any point ...
  will shutdown ModPack code."
* **triple_tap.** On the gello PC a triple tap only asks the robot PC, which
  deletes a directory of its own; the episode just recorded stays.
  `src/README.md:149`: "Triple tap | Any | Delete last episode".

The runs name the smallest constants that show the behaviour. Other
disagreements are in the models and have no run:

* A tap of `s` pending while a gesture of `v` blocks the loop for five seconds is
  past the long-press threshold when it is finalized, and ignored
  (`coordinator.py:549`; `src/README.md:145-146`: a single tap starts or stops
  the episode). In `TapInput`, `GesturesAreTyped` is stated for a loop that keeps
  up.
* A `q` that reaches the terminal together with another key stays in the buffer
  of `sys.stdin`, where `select` does not see it, until one more key is typed
  (`coordinator.py:1060`; `src/README.md:155`).
* A B pressed on the Quest between the trajectory loop's look at the flags and
  its clearing of them is lost (`teleop_vr.py:276-283`;
  `robots/rby1/teleop/README.md:122`: "Right B Button | Stop teleoperation"). In
  `TeleopVR`, `Receive` between `HandleB` and `ClearEvents`.
* A pressed while a hand is gripped does not reset that hand: it goes on from
  the offset it had (`teleop_vr.py:322-343`; `teleop/README.md:121`: "Reset pose
  and begin teleoperation"). And a rejected pose is sent again as soon as the
  grips are released, so that an arm may move that nobody grips
  (`teleop_vr.py:203,231`). And a hand that lets go and grips again while B has
  teleoperation stopped is not seen to let go, because the loop returns before it
  looks at the grips: on the next A its arm is sent by all the hand has moved
  without it, up to the limit (`teleop_vr.py:197-202`; `teleop/README.md:121`).
  `ArmFollowsHand` names the three.
* The comment at `rby1_wbc_policy_joint.py:1418-1420` says the wait for the
  inference thread is bounded by `--policy-timeout`; its client asks twice. The
  end-effector script's client never asks again after a timeout.
* An encoding tool killed while it deletes a spool, and run again, destroys the
  finished video; a camera without frames, or a store without attributes, stops
  it from encoding the cameras sorted after it. In `VideoSpool`, `cut` and the
  exceptions of `CleanIsFinalized`.

Two more, about which no document is explicit:

* A SIGTERM between two assignments of a start, a stop or a pause leaves the
  shutdown with nothing to stop, and the loggers die with the samples they hold
  (`coordinator.py:485`, `episode_manager.py:249`, `main_logger.py:162`). In
  `EpisodeControl`, `torn`.
* A hold that the controller refuses is logged, and the runner suspends with the
  last pose still commanded (`arx5_joint.py:226-235`,
  `arx5_neck_cartesian.py:237-243`). In `ArxFollower`, `refused`.

## 7 What is not modelled

* Numeric control, kinematics, calibration, the C++ optimiser, device drivers,
  camera capture, image processing, visualisation: real numbers and I/O.
* Parsing of configurations and command lines, (de)serialisation of messages,
  command-line menus: no state that outlives a call.
* The process registry and the remote PC manager run their steps one after
  another in the main thread; what can go wrong in them is decided by the
  operating system and the remote shell.
* The GELLO module and `teleop_gello.py` read a device and write its joints to a
  topic, the newest one replacing the one before; what happens to them then is in
  `ArxFollower` and `WholeBody`. `teleop_iphone.py` aligns each phone with its arm
  at the first pose, under one lock, and has neither grips nor a gate.
* The threads of a grouped logger entry, which share a logger
  (`stream_logger.py:336`): their buffers are arrays grown in place, below the
  level of samples here. The live (not deferred) ffmpeg path of VideoLogger.
* The bridge's streaming of joint and end-effector data; readiness of peers
  beyond what a start requires.
* In the modelled parts: a second SIGTERM, inside the shutdown of the first, in
  `EpisodeControl`; a store that cannot be opened (only in `VideoSpool`); the 10 s
  after which an unread command is dropped; a failed start on the robot PC; a
  broadcast that raises; the interactive success prompt.

The modules cover 15 % of the implementation's lines. Most of the rest is
of the kinds above, in the modelled files too: numeric code, device and file
I/O, image processing, argument parsing, logging, and scripts without state that
two actors share.
`PROJECT.json` gives the status of each part.

## 8 What is left

* That `GripperLink` and `EpisodeManager`, stated on their own, keep their parts
  of the invariants, so that a module that composes them need not prove them
  again.
* A model of the threads that share a grouped logger, refining the logger of
  `EpisodeControl`; of process launch, retry and the order of shutdown.
