---------------------------- MODULE ArxFollower ----------------------------
(***************************************************************************)
(* A runner of the ARX5 robot (robots/arx5/run.py), for an arm or for the  *)
(* neck, and what engages it: the operator's taps at the gello PC          *)
(* (orchestration/coordinator.py, modules/vision_pro/spec.py), its monitor *)
(* thread (activation_monitor.py), and the Vision Pro process, whose head  *)
(* poses the neck follows (vision_pro_process.py).                         *)
(*                                                                         *)
(* In the runner the bridge's thread applies activation commands           *)
(* (bridge.py) while the main thread follows the newest pose               *)
(* (arx5_joint.py, arx5_neck_cartesian.py).  The ACTIVATION topic keeps    *)
(* the newest message only: those of others, an arm's own preview_ready    *)
(* too, replace one the runner has not read.  Poses are not modelled: what *)
(* counts is whether the last command to the controller tracks a pose,     *)
(* holds the present one, or belongs to the runner's own start.            *)
(***************************************************************************)
EXTENDS Naturals

CONSTANTS
  Wait,       \* the seconds _vp_activation sleeps, 5
  MoveTime    \* the seconds of the neck's move to its start pose, 3

ASSUME TimesAssumption == Wait \in Nat /\ MoveTime \in Nat /\ MoveTime <= Wait

VARIABLES
  role,       \* "arm" or "neck"
  bypass,     \* vp_bypass_neck, which an arm's runner never meets
  operator,   \* the coordinator's main thread: "idle", "waiting" five seconds, "gone"
  pause,      \* the seconds it still waits
  engaged,    \* _activated_subsystems["arx"], or vision_pro_activated
  atInit,     \* neck_at_init_flag
  atStart,    \* neck_ready_for_commands
  vpReady,    \* vision_pro_ready, and the message on VP_STATUS
  topic,      \* ACTIVATION: "activate", "deactivate", "stop" for the runner, or "other"
  news,       \* is its signature another than _last_activation_sig?
  listener,   \* the bridge's thread: "poll", in a callback, "ended"
  active,     \* the bridge's is_active
  stage,      \* the runner's main thread
  stop,
  initialized,
  activated,  \* robot._activated
  recovery,   \* _recovery_mode
  preview,    \* of the first command: "unsent", "running", "over"
  command,    \* the controller's last command: "start", "track", "hold"
  refused,    \* did the controller refuse the last attempt, a hold?
  late,       \* poses tracked since the last activation while it was not activated
  neckStatus, \* NECK_STATUS: "none", "init", "start", or "both" of the bypass
  moving,     \* the seconds the neck's move to its start pose still takes
  vpCommand,  \* VP_PUBLISH_ACTIVATION: "none", "activate", "deactivate", "stop"
  head        \* the Vision Pro process: "off", "on", "gone"

setup == <<role, bypass>>
coordinatorVars == <<operator, pause, engaged, atInit, atStart, vpReady, vpCommand>>
topicVars == <<topic, news>>
holdVars == <<command, refused>>
robotVars == <<initialized, activated, recovery, preview, holdVars, late>>
neckVars == <<neckStatus, moving>>
vars == <<setup, coordinatorVars, topicVars, listener, active, stage, stop, robotVars,
          neckVars, head>>

Init ==
  /\ role \in {"arm", "neck"} /\ bypass \in {FALSE, role = "neck"}
  /\ operator = "idle" /\ pause = 0 /\ engaged = FALSE
  /\ atInit = FALSE /\ atStart = FALSE /\ vpReady = FALSE
  /\ topic = "other" /\ news = FALSE /\ listener = "poll" /\ active = FALSE
  /\ stage = "connecting" /\ stop = FALSE
  /\ initialized = FALSE /\ activated = FALSE /\ recovery = FALSE
  /\ preview = "unsent" /\ command = "start" /\ refused = FALSE
  /\ late = 0 /\ neckStatus = "none" /\ moving = 0 /\ vpCommand = "none" /\ head = "off"

-----------------------------------------------------------------------------
(* The coordinator.                                                        *)

Publish(c) == topic' = c /\ news' = TRUE
Toggled == IF engaged THEN "deactivate" ELSE "activate"

\* The taps that toggle the arms.
ToggleArms ==
  /\ role = "arm" /\ operator = "idle"
  /\ engaged' = ~engaged /\ Publish(Toggled)
  /\ UNCHANGED <<setup, operator, pause, atInit, atStart, vpReady, vpCommand, listener, active,
                 stage, stop, robotVars, neckVars, head>>

\* Seeded fault: the neck is told at once.
ToggleHeadAtOnce ==
  /\ role = "neck" /\ operator = "idle" /\ vpReady /\ (atStart \/ bypass)
  /\ engaged' = ~engaged /\ vpCommand' = Toggled /\ operator' = "waiting" /\ pause' = 0
  /\ UNCHANGED <<setup, atInit, atStart, vpReady, topicVars, listener, active, stage, stop,
                 robotVars, neckVars, head>>

\* The Vision Pro's taps signal READY first, when the neck is at its initial pose, and
\* toggle it later, when the neck says it is at its start pose, or whatever the neck says
\* with VP_BYPASS_NECK.  The neck hears of it after five seconds, in which the main thread
\* does nothing else.  What the iPhone's readiness forbids is not done.
SignalReady ==
  /\ role = "neck" /\ operator = "idle" /\ ~vpReady /\ (atInit \/ bypass)
  /\ vpReady' = TRUE
  /\ UNCHANGED <<setup, operator, pause, engaged, atInit, atStart, vpCommand, topicVars, listener,
                 active, stage, stop, robotVars, neckVars, head>>

ToggleHead ==
  /\ role = "neck" /\ operator = "idle" /\ vpReady /\ (atStart \/ bypass)
  /\ engaged' = ~engaged /\ vpCommand' = Toggled /\ operator' = "waiting" /\ pause' = Wait
  /\ UNCHANGED <<setup, atInit, atStart, vpReady, topicVars, listener, active, stage, stop,
                 robotVars, neckVars, head>>

TellNeck ==
  /\ operator = "waiting" /\ pause = 0
  /\ operator' = "idle" /\ Publish(IF engaged THEN "activate" ELSE "deactivate")
  /\ UNCHANGED <<setup, pause, engaged, atInit, atStart, vpReady, vpCommand, listener, active,
                 stage, stop, robotVars, neckVars, head>>

\* emergency_stop, shutdown and manager_shutdown to all, as often as they come; a signal's
\* handler sends one while the main thread waits.
StopAll ==
  /\ operator' = "gone" /\ pause' = 0 /\ Publish("stop") /\ vpCommand' = "stop"
  /\ UNCHANGED <<setup, engaged, atInit, atStart, vpReady, listener, active, stage, stop,
                 robotVars, neckVars, head>>

\* A dead GELLO process shuts down the arms.
Watchdog ==
  /\ role = "arm" /\ operator = "idle" /\ Publish("stop")
  /\ UNCHANGED <<setup, coordinatorVars, listener, active, stage, stop, robotVars,
                 neckVars, head>>

\* Commands to others, and those to all that the bridge filters: they are not applied, and
\* the runner's last signature stays.
OtherCommand ==
  /\ topic' = "other" /\ news' = FALSE
  /\ UNCHANGED <<setup, coordinatorVars, listener, active, stage, stop, robotVars,
                 neckVars, head>>

Monitor ==
  /\ neckStatus # "none"
  /\ atInit' = (neckStatus \in {"init", "both"})
  /\ atStart' = (neckStatus \in {"start", "both"})
  /\ UNCHANGED <<setup, operator, pause, engaged, vpReady, vpCommand, topicVars, listener, active,
                 stage, stop, robotVars, neckVars, head>>

\* VP_BYPASS_NECK: the thread that publishes the readiness pretends the neck's, and also
\* the Vision Pro's once the iPhone is ready or not needed.
Bypass ==
  /\ role = "neck" /\ bypass /\ operator # "gone"
  /\ atStart' = TRUE /\ neckStatus' = "both" /\ vpReady' \in {vpReady, TRUE}
  /\ UNCHANGED <<setup, operator, pause, engaged, atInit, vpCommand, topicVars, listener,
                 active, stage, stop, robotVars, moving, head>>

\* A second passes: of the five of _vp_activation, of the three of the neck's move.
Second ==
  /\ pause > 0 \/ moving > 0
  /\ pause' = (IF pause > 0 THEN pause - 1 ELSE 0)
  /\ moving' = (IF moving > 0 THEN moving - 1 ELSE 0)
  /\ UNCHANGED <<setup, operator, engaged, atInit, atStart, vpReady, vpCommand, topicVars,
                 listener, active, stage, stop, robotVars, neckStatus, head>>

\* Seeded fault: the process takes the command for its state.
VisionProEcho ==
  /\ head # "gone" /\ vpCommand # "none" /\ head' = vpCommand
  /\ UNCHANGED <<setup, coordinatorVars, topicVars, listener, active, stage, stop, robotVars,
                 neckVars>>

\* The Vision Pro process reads its topic every two seconds.
VisionPro ==
  /\ head # "gone" /\ vpCommand # "none"
  /\ head' = CASE vpCommand = "activate" -> "on" [] vpCommand = "deactivate" -> "off"
               [] OTHER -> "gone"
  /\ UNCHANGED <<setup, coordinatorVars, topicVars, listener, active, stage, stop, robotVars,
                 neckVars>>

-----------------------------------------------------------------------------
(* The bridge's thread.                                                    *)

\* Without hardware there is nothing to hold; a failure of the controller is swallowed.
Hold ==
  \/ command' = (IF initialized THEN "hold" ELSE command) /\ refused' = FALSE
  \/ initialized /\ UNCHANGED command /\ refused' = TRUE

\* After a shutdown or manager_shutdown the thread ends, after an emergency_stop it goes on.
After == IF topic = "stop" THEN {"poll", "ended"} ELSE {"poll"}

\* Without a robot the callback does nothing, whatever the command.
Unheard ==
  /\ listener = "poll" /\ news /\ stage = "connecting"
  /\ news' = FALSE /\ active' = (topic = "activate") /\ listener' \in After
  /\ UNCHANGED <<setup, coordinatorVars, topic, stage, stop, robotVars, neckVars, head>>

Hears ==
  /\ listener = "poll" /\ news /\ stage # "connecting"
  /\ news' = FALSE
  /\ \/ /\ topic = "activate" /\ listener' = "activating"
        /\ activated' = TRUE /\ late' = 0 /\ UNCHANGED holdVars
     \/ /\ topic = "deactivate" /\ listener' = "deactivating"
        /\ Hold /\ UNCHANGED <<activated, late>>
     \/ /\ topic = "stop" /\ listener' = "stopping"
        /\ Hold /\ UNCHANGED <<activated, late>>
  /\ UNCHANGED <<setup, coordinatorVars, topic, active, stage, stop, initialized, recovery,
                 preview, neckVars, head>>

Activated ==
  /\ listener = "activating"
  /\ listener' = "poll" /\ recovery' = FALSE /\ active' = TRUE
  /\ UNCHANGED <<setup, coordinatorVars, topicVars, stage, stop, initialized, activated,
                 preview, holdVars, late, neckVars, head>>

Deactivated ==
  /\ \/ listener = "deactivating" /\ listener' = "poll" /\ UNCHANGED stop
     \/ listener = "stopping" /\ listener' \in {"poll", "ended"} /\ stop' = TRUE
  /\ activated' = FALSE /\ active' = FALSE
  /\ UNCHANGED <<setup, coordinatorVars, topicVars, stage, initialized, recovery, preview,
                 holdVars, late, neckVars, head>>

-----------------------------------------------------------------------------
(* The runner's main thread.                                               *)

Ended == {"suspended", "crashed"}

Construct ==
  /\ stage = "connecting" /\ stage' = "starting"
  /\ UNCHANGED <<setup, coordinatorVars, topicVars, listener, active, stop, robotVars,
                 neckVars, head>>

\* The arm runs its loop even when its hardware failed; the neck gives up.  When one of
\* its moves raises, nothing catches it and the runner dies, its robot as it is.
StartArm ==
  /\ role = "arm" /\ stage = "starting"
  /\ stage' = "loop" /\ initialized' \in BOOLEAN
  /\ UNCHANGED <<setup, coordinatorVars, topicVars, listener, active, stop, activated,
                 recovery, preview, holdVars, late, neckVars, head>>

StartNeck ==
  /\ role = "neck" /\ stage = "starting"
  /\ \/ /\ stage' = "waiting" /\ initialized' = TRUE
        /\ neckStatus' = "init"
     \/ stage' = "suspending" /\ UNCHANGED <<initialized, neckStatus>>
     \/ stage' = "crashed" /\ initialized' = TRUE /\ UNCHANGED neckStatus
  /\ UNCHANGED <<setup, coordinatorVars, topicVars, listener, active, stop, activated,
                 recovery, preview, holdVars, late, moving, head>>

\* wait_until_ready, until the Vision Pro is READY; then the neck is sent to its start pose,
\* for three seconds that nothing waits for, and says that it is there.
HeadIsReady ==
  /\ stage = "waiting" /\ ~stop /\ vpReady
  /\ \/ stage' = "moving" /\ command' = "start" /\ moving' = MoveTime
     \/ stage' = "crashed" /\ UNCHANGED <<command, moving>>
  /\ UNCHANGED <<setup, coordinatorVars, topicVars, listener, active, stop, initialized,
                 activated, recovery, preview, refused, late, neckStatus, head>>

NeckReady ==
  /\ stage = "moving"
  /\ stage' = "loop" /\ neckStatus' = "start"
  /\ UNCHANGED <<setup, coordinatorVars, topicVars, listener, active, stop, robotVars,
                 moving, head>>

\* Seeded fault: the end of the loop trusts the hold of the command that stopped it.
LeaveLoopHeld ==
  /\ (stage \in {"waiting", "loop"} /\ stop) \/ stage = "signalled"
  /\ stage' = "suspending"
  /\ UNCHANGED <<setup, coordinatorVars, topicVars, listener, active, stop, robotVars,
                 neckVars, head>>

\* Seeded fault: waiting for the Vision Pro, the neck does not look at the stop flag.
LeaveLoopOnly ==
  /\ (stage = "loop" /\ stop) \/ stage = "signalled"
  /\ stage' = "suspending" /\ Hold
  /\ UNCHANGED <<setup, coordinatorVars, topicVars, listener, active, stop, initialized,
                 activated, recovery, preview, late, neckVars, head>>

\* _safe_shutdown: from the end of the loop, by the SIGTERM an arm sends itself, or from
\* wherever another SIGTERM finds the thread.
LeaveLoop ==
  /\ (stage \in {"waiting", "loop"} /\ stop) \/ stage = "signalled"
  /\ stage' = "suspending" /\ Hold
  /\ UNCHANGED <<setup, coordinatorVars, topicVars, listener, active, stop, initialized,
                 activated, recovery, preview, late, neckVars, head>>

Terminate ==
  /\ stage \notin {"connecting", "suspending"} \cup Ended
  /\ stage' = "suspending" /\ Hold
  /\ UNCHANGED <<setup, coordinatorVars, topicVars, listener, active, stop, initialized,
                 activated, recovery, preview, late, neckVars, head>>

\* The bridge is disconnected: its thread ends, or is waited for no longer; then the
\* process stops itself, with all its threads.
Suspend ==
  /\ stage = "suspending"
  /\ stage' = "suspended" /\ listener' = "ended"
  /\ UNCHANGED <<setup, coordinatorVars, topicVars, active, stop, robotVars, neckVars, head>>

\* Seeded fault: the gate is the bridge's is_active.
CheckBridge ==
  /\ stage = "turn" /\ stage' = (IF active /\ initialized THEN "checked" ELSE "loop")
  /\ UNCHANGED <<setup, coordinatorVars, topicVars, listener, active, stop, robotVars,
                 neckVars, head>>

Turn ==
  /\ stage = "loop" /\ ~stop
  /\ stage' = "turn"
  /\ UNCHANGED <<setup, coordinatorVars, topicVars, listener, active, stop, robotVars,
                 neckVars, head>>

\* The loop's gate, the newest pose, if there is one, and execute_action's own check.
Check ==
  /\ stage = "turn"
  /\ stage' \in IF activated /\ initialized THEN {"checked", "loop"} ELSE {"loop"}
  /\ UNCHANGED <<setup, coordinatorVars, topicVars, listener, active, stop, robotVars,
                 neckVars, head>>

\* The arm sends nothing while its first command moves it slowly; then it says so.
Preview ==
  /\ role = "arm" /\ stage = "checked" /\ preview = "running"
  /\ \/ stage' = "loop" /\ UNCHANGED <<topic, news, preview>>
     \/ stage' = "checked" /\ topic' = "other" /\ news' = FALSE /\ preview' = "over"
  /\ UNCHANGED <<setup, coordinatorVars, listener, active, stop, initialized, activated,
                 recovery, holdVars, late, neckVars, head>>

\* The first command counts as sent before the controller gets it.
FirstSent == IF preview # "unsent" THEN preview ELSE IF role = "arm" THEN "running" ELSE "over"

Send ==
  /\ stage = "checked" /\ preview # "running"
  /\ stage' = "loop" /\ command' = "track" /\ refused' = FALSE
  /\ preview' = FirstSent
  /\ late' = IF activated \/ late = 2 THEN late ELSE late + 1
  /\ UNCHANGED <<setup, coordinatorVars, topicVars, listener, active, stop, initialized,
                 activated, recovery, neckVars, head>>

\* The neck refuses a pose too far from the last one.
Refuse ==
  /\ role = "neck" /\ stage = "checked" /\ preview = "over"
  /\ stage' = "loop" /\ Hold
  /\ UNCHANGED <<setup, coordinatorVars, topicVars, listener, active, stop, initialized,
                 activated, recovery, preview, late, neckVars, head>>

\* The safe mode: after an error of the controller, or, in an arm, before the SIGTERM it
\* sends itself for a joint that would turn too fast.  In recovery an arm holds once more
\* only if its last such hold is a while ago.
HoldInRecovery == Hold \/ (role = "arm" /\ UNCHANGED holdVars)

Fail ==
  /\ stage = "checked" /\ preview # "running" /\ recovery' = TRUE
  /\ IF recovery THEN HoldInRecovery /\ stage' = "loop" ELSE Hold /\ stage' = "failing"
  /\ preview' \in {preview, FirstSent}
  /\ UNCHANGED <<setup, coordinatorVars, topicVars, listener, active, stop, initialized,
                 activated, late, neckVars, head>>

Violation ==
  /\ role = "arm" /\ stage = "checked" /\ recovery' = TRUE
  /\ IF recovery THEN HoldInRecovery /\ stage' = "signalled" ELSE Hold /\ stage' = "halting"
  /\ UNCHANGED <<setup, coordinatorVars, topicVars, listener, active, stop, initialized,
                 activated, preview, late, neckVars, head>>

Safe ==
  /\ \/ stage = "failing" /\ stage' = "loop"
     \/ stage = "halting" /\ stage' = "signalled"
  /\ activated' = FALSE
  /\ UNCHANGED <<setup, coordinatorVars, topicVars, listener, active, stop, initialized,
                 recovery, preview, holdVars, late, neckVars, head>>

Terminated == stage \in Ended /\ UNCHANGED vars

MainThread ==
  \/ Construct \/ StartArm \/ StartNeck \/ HeadIsReady \/ NeckReady \/ LeaveLoop \/ Suspend
  \/ Turn \/ Check \/ Preview \/ Send \/ Refuse \/ Fail \/ Violation \/ Safe
Listener == Unheard \/ Hears \/ Activated \/ Deactivated

Next ==
  \/ ToggleArms \/ SignalReady \/ ToggleHead \/ TellNeck \/ StopAll \/ Watchdog
  \/ OtherCommand \/ Monitor \/ Bypass \/ VisionPro \/ Second
  \/ Listener \/ MainThread \/ Terminate \/ Terminated

Spec == Init /\ [][Next]_vars

\* The runner's two threads run.
FairSpec == Spec /\ WF_vars(MainThread) /\ WF_vars(Listener)

-----------------------------------------------------------------------------
(* Properties.                                                             *)

Flags ==
  {bypass, engaged, atInit, atStart, vpReady, news, active, stop, initialized, activated,
   recovery, refused}

TypeOK ==
  /\ role \in {"arm", "neck"} /\ operator \in {"idle", "waiting", "gone"}
  /\ pause \in 0 .. Wait /\ moving \in 0 .. MoveTime
  /\ Flags \subseteq BOOLEAN
  /\ topic \in {"activate", "deactivate", "stop", "other"}
  /\ listener \in {"poll", "activating", "deactivating", "stopping", "ended"}
  /\ stage \in {"connecting", "starting", "waiting", "moving", "loop", "turn", "checked",
                "failing", "halting", "signalled", "suspending"} \cup Ended
  /\ preview \in {"unsent", "running", "over"}
  /\ command \in {"start", "track", "hold"} /\ late \in 0 .. 2
  /\ neckStatus \in {"none", "init", "start", "both"}
  /\ vpCommand \in {"none", "activate", "deactivate", "stop"}
  /\ head \in {"off", "on", "gone"}

\* A runner that suspends itself leaves the robot holding its pose, even if its main thread
\* sent one more pose after the hold of the command that stopped it (run.py, _safe_shutdown),
\* unless the controller refused the last hold that was tried.
SuspendedHolds == stage = "suspended" /\ initialized => command = "hold" \/ refused

\* Once a deactivation, or the safe mode, has cleared _activated, at most one pose is still
\* tracked: the one whose check came before.  Poses between the hold, which comes first,
\* and that are not counted.
OneLatePose == late < 2

\* Without the bypass, the head is followed only once the neck was sent to its start pose,
\* and no pose reaches the neck within the three seconds of that move, although at_start is
\* published at once: READY, the move and the taps follow each other across three processes.
HeadAfterNeck ==
  role = "neck" /\ ~bypass =>
    /\ head = "on" => neckStatus = "start"
    /\ command = "track" => moving = 0

\* A stop that stays the newest command ends the runner, at whatever point it finds it once
\* there is a robot.
StopEnds ==
  (topic = "stop" /\ news /\ stage # "connecting" /\ listener # "ended")
    ~> (stage \in Ended \/ topic # "stop")

=============================================================================
