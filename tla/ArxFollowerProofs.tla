-------------------------- MODULE ArxFollowerProofs -------------------------
(***************************************************************************)
(* Proofs about ArxFollower: they hold for both kinds of runner, with and  *)
(* without the bypass, for every wait no shorter than the neck's move, and *)
(* need no fairness.                                                       *)
(***************************************************************************)
EXTENDS ArxFollower, TLAPS

\* The operator, the monitor and the Vision Pro process.
Coordinator ==
  \/ ToggleArms \/ SignalReady \/ ToggleHead \/ TellNeck \/ StopAll \/ Watchdog
  \/ OtherCommand \/ Monitor \/ Bypass \/ VisionPro \/ Second

-----------------------------------------------------------------------------
(* Type correctness.                                                       *)

LEMMA InitTyped == Init => TypeOK
<1>1. Init => bypass \in BOOLEAN
  BY DEF Init
<1>2. Init => Flags \subseteq BOOLEAN
  BY <1>1 DEF Init, Flags
<1>3. Init => pause \in 0 .. Wait /\ moving \in 0 .. MoveTime
  BY TimesAssumption DEF Init
<1>4. Init => late \in 0 .. 2
  BY DEF Init
<1>5. QED
  BY <1>2, <1>3, <1>4, Zenon DEF Init, TypeOK, Ended

LEMMA TypedCoordinator ==
  ASSUME TypeOK, Coordinator
  PROVE  TypeOK'
<1> USE TimesAssumption
    DEF TypeOK, Ended, setup, coordinatorVars, topicVars, holdVars, robotVars, neckVars
<1>1. CASE ToggleArms
  BY <1>1 DEF ToggleArms, Toggled, Publish, Flags
<1>2. CASE SignalReady
  BY <1>2 DEF SignalReady, Flags
<1>3. CASE ToggleHead
  BY <1>3 DEF ToggleHead, Toggled, Flags
<1>4. CASE TellNeck
  BY <1>4 DEF TellNeck, Publish, Flags
<1>5. CASE StopAll
  BY <1>5 DEF StopAll, Publish, Flags
<1>6. CASE Watchdog
  BY <1>6 DEF Watchdog, Publish, Flags
<1>7. CASE OtherCommand
  <2>1. Flags' \subseteq BOOLEAN
    BY <1>7 DEF Flags, OtherCommand
  <2>2. QED
    BY <1>7, <2>1 DEF OtherCommand
<1>8. CASE Monitor
  BY <1>8 DEF Monitor, Flags
<1>9. CASE VisionPro
  BY <1>9 DEF VisionPro, Flags
<1>10. CASE Bypass
  <2>1. vpReady' \in BOOLEAN
    BY <1>10 DEF Flags, Bypass
  <2>2. Flags' \subseteq BOOLEAN
    BY <1>10, <2>1 DEF Flags, Bypass
  <2>3. QED
    BY <1>10, <2>2 DEF Bypass
<1>11. CASE Second
  <2>1. pause' \in 0 .. Wait /\ moving' \in 0 .. MoveTime
    BY <1>11, TimesAssumption DEF Second
  <2>2. QED
    BY <1>11, <2>1 DEF Second, Flags
<1>12. QED
  BY <1>1, <1>2, <1>3, <1>4, <1>5, <1>6, <1>7, <1>8, <1>9, <1>10, <1>11 DEF Coordinator

LEMMA TypedListener ==
  ASSUME TypeOK, Listener
  PROVE  TypeOK'
<1> USE TimesAssumption
    DEF TypeOK, Ended, setup, coordinatorVars, topicVars, holdVars, robotVars, neckVars
<1>1. CASE Unheard
  <2>1. Flags' \subseteq BOOLEAN
    BY <1>1 DEF Flags, Unheard, After
  <2>2. QED
    BY <1>1, <2>1 DEF Unheard, After
<1>2. CASE Hears
  <2>1. Flags' \subseteq BOOLEAN
    BY <1>2 DEF Flags, Hears, Hold
  <2>2. QED
    BY <1>2, <2>1 DEF Hears, Hold
<1>3. CASE Activated
  <2>1. Flags' \subseteq BOOLEAN
    BY <1>3 DEF Flags, Activated
  <2>2. QED
    BY <1>3, <2>1 DEF Activated
<1>4. CASE Deactivated
  <2>1. Flags' \subseteq BOOLEAN
    BY <1>4 DEF Flags, Deactivated
  <2>2. QED
    BY <1>4, <2>1 DEF Deactivated
<1>5. QED
  BY <1>1, <1>2, <1>3, <1>4 DEF Listener

LEMMA TypedMainThread ==
  ASSUME TypeOK, MainThread
  PROVE  TypeOK'
<1> USE TimesAssumption
    DEF TypeOK, Ended, setup, coordinatorVars, topicVars, holdVars, robotVars, neckVars
<1>1. CASE Construct
  BY <1>1 DEF Construct, Flags
<1>2. CASE StartArm
  BY <1>2 DEF StartArm, Flags
<1>3. CASE StartNeck
  <2>1. initialized' \in BOOLEAN
    BY <1>3 DEF Flags, StartNeck
  <2>2. Flags' \subseteq BOOLEAN
    BY <1>3, <2>1 DEF Flags, StartNeck
  <2>3. QED
    BY <1>3, <2>2 DEF StartNeck
<1>4. CASE HeadIsReady
  BY <1>4 DEF HeadIsReady, Flags
<1>5. CASE NeckReady
  BY <1>5 DEF NeckReady, Flags
<1>6. CASE LeaveLoop
  <2>1. Flags' \subseteq BOOLEAN
    BY <1>6 DEF Flags, LeaveLoop, Hold
  <2>2. QED
    BY <1>6, <2>1 DEF LeaveLoop, Hold
<1>7. CASE Suspend
  BY <1>7 DEF Suspend, Flags
<1>8. CASE Turn
  BY <1>8 DEF Turn, Flags
<1>9. CASE Check
  BY <1>9 DEF Check, Flags
<1>10. CASE Preview
  <2>1. news' \in BOOLEAN
    BY <1>10 DEF Flags, Preview
  <2>2. Flags' \subseteq BOOLEAN
    BY <1>10, <2>1 DEF Flags, Preview
  <2>3. QED
    BY <1>10, <2>2 DEF Preview
<1>11. CASE Send
  <2>1. Flags' \subseteq BOOLEAN
    BY <1>11 DEF Flags, Send
  <2>2. preview' \in {"unsent", "running", "over"}
    BY <1>11 DEF Send, FirstSent
  <2>3. QED
    BY <1>11, <2>1, <2>2 DEF Send
<1>12. CASE Refuse
  <2>1. Flags' \subseteq BOOLEAN
    BY <1>12 DEF Flags, Refuse, Hold
  <2>2. QED
    BY <1>12, <2>1 DEF Refuse, Hold
<1>13. CASE Fail
  <2>1. Flags' \subseteq BOOLEAN
    BY <1>13 DEF Flags, Fail, Hold, HoldInRecovery
  <2>2. preview' \in {"unsent", "running", "over"}
    BY <1>13 DEF Fail, FirstSent
  <2>3. QED
    BY <1>13, <2>1, <2>2 DEF Fail, Hold, HoldInRecovery
<1>14. CASE Violation
  <2>1. Flags' \subseteq BOOLEAN
    BY <1>14 DEF Flags, Violation, Hold, HoldInRecovery
  <2>2. QED
    BY <1>14, <2>1 DEF Violation, Hold, HoldInRecovery
<1>15. CASE Safe
  <2>1. Flags' \subseteq BOOLEAN
    BY <1>15 DEF Flags, Safe
  <2>2. QED
    BY <1>15, <2>1 DEF Safe
<1>16. QED
  BY <1>1, <1>2, <1>3, <1>4, <1>5, <1>6, <1>7, <1>8, <1>9, <1>10, <1>11, <1>12,
     <1>13, <1>14, <1>15 DEF MainThread

LEMMA NextTyped == TypeOK /\ [Next]_vars => TypeOK'
<1> SUFFICES ASSUME TypeOK, [Next]_vars PROVE TypeOK'
  OBVIOUS
<1>1. CASE Coordinator
  BY <1>1, TypedCoordinator
<1>2. CASE Listener
  BY <1>2, TypedListener
<1>3. CASE MainThread
  BY <1>3, TypedMainThread
<1>4. CASE Terminate
  <2> USE DEF TypeOK, Ended, setup, coordinatorVars, topicVars, holdVars, robotVars, neckVars
  <2>1. Flags' \subseteq BOOLEAN
    BY <1>4 DEF Flags, Terminate, Hold
  <2>2. QED
    BY <1>4, <2>1 DEF Terminate, Hold
<1>5. CASE Terminated \/ UNCHANGED vars
  BY <1>5 DEF Terminated, vars, TypeOK, Flags, Ended, setup, coordinatorVars, topicVars,
     holdVars, robotVars, neckVars
<1>6. QED
  BY <1>1, <1>2, <1>3, <1>4, <1>5 DEF Next, Coordinator

\* Every reachable state of a runner, of what engages it and of the Vision Pro is well typed.
THEOREM FollowerTypeCorrect == Spec => []TypeOK
  BY InitTyped, NextTyped, PTL DEF Spec

-----------------------------------------------------------------------------
(* The three properties.  Before a runner starts it has no robot; whatever *)
(* ends its loop tries to hold the robot first.                            *)

StartInv == stage \in {"connecting", "starting"} => ~initialized

HoldInv ==
  stage \in {"suspending", "suspended"} /\ initialized => command = "hold" \/ refused

\* After a late pose the runner is not past its check, and needs an activation to pass it.
LateInv == late < 2 /\ (late = 1 => ~activated /\ stage # "checked")

\* What the Vision Pro is told follows a status the neck has not taken back.  The neck is
\* told after a wait that outlasts its move, which began before.
Following ==
  topic = "activate" \/ listener = "activating" \/ activated \/ stage = "checked"
    \/ command = "track"

HeadInv ==
  role = "neck" /\ ~bypass =>
    /\ neckStatus # "both"
    /\ stage \in {"connecting", "starting", "waiting", "moving"} => neckStatus # "start"
    /\ atStart \/ vpCommand = "activate" \/ head = "on" \/ operator = "waiting"
         => neckStatus = "start"
    /\ operator = "waiting" => moving <= pause
    /\ Following => neckStatus = "start" /\ moving = 0

FollowerInv == StartInv /\ HoldInv /\ LateInv /\ HeadInv

LEMMA InitFollower == Init => FollowerInv
  BY DEF Init, FollowerInv, StartInv, HoldInv, LateInv, HeadInv, Following

LEMMA FollowerCoordinator ==
  ASSUME TypeOK, FollowerInv, Coordinator
  PROVE  FollowerInv'
<1> USE TimesAssumption DEF TypeOK, FollowerInv, StartInv, HoldInv, LateInv, HeadInv, Following,
            setup, coordinatorVars, topicVars, holdVars, robotVars, neckVars
<1>1. CASE ToggleArms
  BY <1>1 DEF ToggleArms, Toggled, Publish
<1>2. CASE SignalReady
  BY <1>2 DEF SignalReady
<1>3. CASE ToggleHead
  BY <1>3 DEF ToggleHead, Toggled
<1>4. CASE TellNeck
  BY <1>4 DEF TellNeck, Publish
<1>5. CASE StopAll
  BY <1>5 DEF StopAll, Publish
<1>6. CASE Watchdog
  BY <1>6 DEF Watchdog, Publish
<1>7. CASE OtherCommand
  BY <1>7 DEF OtherCommand
<1>8. CASE Monitor
  BY <1>8 DEF Monitor
<1>9. CASE VisionPro
  BY <1>9 DEF VisionPro
<1>10. CASE Bypass
  BY <1>10 DEF Bypass
<1>11. CASE Second
  <2>1. moving <= pause => moving' <= pause'
    BY <1>11, TimesAssumption DEF Second
  <2>2. moving = 0 => moving' = 0
    BY <1>11 DEF Second
  <2>3. QED
    BY <1>11, <2>1, <2>2 DEF Second
<1>12. QED
  BY <1>1, <1>2, <1>3, <1>4, <1>5, <1>6, <1>7, <1>8, <1>9, <1>10, <1>11 DEF Coordinator

LEMMA FollowerListener ==
  ASSUME TypeOK, FollowerInv, Listener
  PROVE  FollowerInv'
<1> USE TimesAssumption DEF TypeOK, FollowerInv, StartInv, HoldInv, LateInv, HeadInv, Following,
            setup, coordinatorVars, topicVars, holdVars, robotVars, neckVars
<1>1. CASE Unheard
  BY <1>1 DEF Unheard, After
<1>2. CASE Hears
  BY <1>2 DEF Hears, Hold
<1>3. CASE Activated
  BY <1>3 DEF Activated
<1>4. CASE Deactivated
  BY <1>4 DEF Deactivated
<1>5. QED
  BY <1>1, <1>2, <1>3, <1>4 DEF Listener

LEMMA FollowerMainThread ==
  ASSUME TypeOK, FollowerInv, MainThread
  PROVE  FollowerInv'
<1> USE TimesAssumption DEF TypeOK, FollowerInv, StartInv, HoldInv, LateInv, HeadInv, Following,
            setup, coordinatorVars, topicVars, holdVars, robotVars, neckVars
<1>1. CASE Construct
  BY <1>1 DEF Construct
<1>2. CASE StartArm
  BY <1>2 DEF StartArm
<1>3. CASE StartNeck
  BY <1>3 DEF StartNeck
<1>4. CASE HeadIsReady
  BY <1>4 DEF HeadIsReady
<1>5. CASE NeckReady
  BY <1>5 DEF NeckReady
<1>6. CASE LeaveLoop
  BY <1>6 DEF LeaveLoop, Hold
<1>7. CASE Suspend
  BY <1>7 DEF Suspend
<1>8. CASE Turn
  BY <1>8 DEF Turn
<1>9. CASE Check
  BY <1>9 DEF Check
<1>10. CASE Preview
  BY <1>10 DEF Preview
<1>11. CASE Send
  BY <1>11 DEF Send
<1>12. CASE Refuse
  BY <1>12 DEF Refuse, Hold
<1>13. CASE Fail
  BY <1>13 DEF Fail, Hold, HoldInRecovery
<1>14. CASE Violation
  BY <1>14 DEF Violation, Hold, HoldInRecovery
<1>15. CASE Safe
  BY <1>15 DEF Safe
<1>16. QED
  BY <1>1, <1>2, <1>3, <1>4, <1>5, <1>6, <1>7, <1>8, <1>9, <1>10, <1>11, <1>12,
     <1>13, <1>14, <1>15 DEF MainThread

LEMMA NextFollower == TypeOK /\ FollowerInv /\ [Next]_vars => FollowerInv'
<1> SUFFICES ASSUME TypeOK, FollowerInv, [Next]_vars PROVE FollowerInv'
  OBVIOUS
<1>1. CASE Coordinator
  BY <1>1, FollowerCoordinator
<1>2. CASE Listener
  BY <1>2, FollowerListener
<1>3. CASE MainThread
  BY <1>3, FollowerMainThread
<1>4. CASE Terminate
  BY <1>4 DEF Terminate, Hold, TypeOK, FollowerInv, StartInv, HoldInv, LateInv, HeadInv, Following,
         setup, coordinatorVars, topicVars, holdVars, robotVars, neckVars
<1>5. CASE Terminated \/ UNCHANGED vars
  BY <1>5 DEF Terminated, vars, TypeOK, FollowerInv, StartInv, HoldInv, LateInv, HeadInv, Following,
         setup, coordinatorVars, topicVars, holdVars, robotVars, neckVars
<1>6. QED
  BY <1>1, <1>2, <1>3, <1>4, <1>5 DEF Next, Coordinator

LEMMA AlwaysFollower == Spec => [](TypeOK /\ FollowerInv)
  BY InitTyped, NextTyped, InitFollower, NextFollower, PTL DEF Spec

\* A runner that suspends itself leaves its robot holding the pose it has, whichever thread
\* sent the last command and whatever made it suspend itself, unless the controller refused
\* the last hold.
THEOREM FollowerSuspendedHolds == Spec => []SuspendedHolds
<1>1. FollowerInv => SuspendedHolds
  BY DEF FollowerInv, HoldInv, SuspendedHolds
<1>2. QED
  BY <1>1, AlwaysFollower, PTL

\* After the step that clears _activated at most one pose is tracked before the next
\* activation.
THEOREM FollowerOneLatePose == Spec => []OneLatePose
<1>1. FollowerInv => OneLatePose
  BY DEF FollowerInv, LateInv, OneLatePose
<1>2. QED
  BY <1>1, AlwaysFollower, PTL

\* Without the bypass the head is followed only once the neck was sent to its start pose, and
\* no pose replaces that move before its time is over, however old the status was that the
\* operator's tap relied on.
THEOREM FollowerHeadAfterNeck == Spec => []HeadAfterNeck
<1>1. FollowerInv => HeadAfterNeck
  BY DEF FollowerInv, HeadInv, Following, HeadAfterNeck
<1>2. QED
  BY <1>1, AlwaysFollower, PTL

=============================================================================
