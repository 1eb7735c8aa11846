----------------------------- MODULE WholeBody -----------------------------
(***************************************************************************)
(* The RB-Y1's whole-body controller (control/rby1_wbc.py, RBY1WBC) on the *)
(* realtime driver (control/realtime_driver.cc).  Main starts and stops    *)
(* it, other threads set targets, one thread polls the driver's state, and *)
(* the IK thread turns targets and state into a gripper request, body      *)
(* targets and a base twist in every cycle.  The driver's control loop     *)
(* filters the newest command and stops the wheels when none arrives.      *)
(*                                                                         *)
(* The base is a place on a track, a twist one of forward, backward and    *)
(* nothing.  The arms follow the same path through the driver and are not  *)
(* modelled beyond whether they have a target: it is the wheels that go on *)
(* moving while nobody commands them.                                      *)
(***************************************************************************)
EXTENDS GripperLink, Integers

CONSTANTS
  None,
  Track,           \* bound: the base's places are 0 .. Track
  CommandTimeout,  \* command_timeout_sec, in ticks
  JoinTimeout,     \* stop()'s join_timeout, in ticks
  FullSpeed        \* a twist's speed; the filter changes speed by one per tick

ASSUME BodyAssumption ==
  /\ None \notin Int /\ Track \in Nat \ {0} /\ CommandTimeout \in Nat \ {0}
  /\ JoinTimeout \in Nat /\ FullSpeed \in Nat \ {0}

VARIABLES
  main,        \* "starting", "resetting", "running", "joining", "stopping", "stopped"
  joined,      \* how long stop() has waited for the IK thread
  ik,          \* the IK thread: "none", "cycle", "gripper", "send", "sleep", "done"
  arms,        \* which of ee_targets and joint_targets the IK loop follows, or "none"
  baseTarget,  \* base_targets, or None
  snapshot,    \* the base's place in the newest polled state, or None
  twist,       \* the twist the IK thread is about to send, or None
  base,        \* where the base is
  wheels,      \* the wheel component's command_, or None
  age,         \* time since last_command_time_
  filtered,    \* previous_command_ of the wheels' low-pass filter
  output,      \* the wheels' target in control_input
  driver       \* the control loop: "control", "finishing", "ended"

mainVars == <<main, joined>>
targetVars == <<arms, baseTarget>>
stateVars == <<snapshot, base>>
driverVars == <<wheels, age, filtered, output, driver>>
vars == <<mainVars, ik, twist, targetVars, stateVars, driverVars, linkVars>>

Places == 0 .. Track
Sign(n) == IF n > 0 THEN 1 ELSE IF n < 0 THEN -1 ELSE 0
Lesser(a, b) == IF a < b THEN a ELSE b
Stopping == main \in {"joining", "stopping", "stopped"}

Init ==
  /\ main = "starting" /\ joined = 0 /\ ik = "none" /\ twist = None
  /\ arms = "none" /\ baseTarget = None
  /\ snapshot = None /\ base \in Places
  /\ wheels = None /\ age = 0 /\ filtered = 0 /\ output = 0 /\ driver = "control"
  /\ LinkInit

-----------------------------------------------------------------------------
(* The driver.                                                             *)

\* SetBaseTwistCommand: the newest command replaces the one before.
Command(t) == wheels' = t * FullSpeed /\ age' = 0

\* Seeded fault: a command that is too old is dropped, and the wheels are left as they are.
ApplyDropped(now) ==
  IF wheels = None THEN UNCHANGED <<wheels, filtered, output>>
  ELSE IF now > CommandTimeout
    THEN wheels' = None /\ UNCHANGED <<filtered, output>>
    ELSE /\ filtered' = filtered + Sign(wheels - filtered)
         /\ output' = filtered' /\ UNCHANGED wheels

\* Seeded fault: the filter goes past what was commanded.
ApplyPast(now) ==
  IF wheels = None THEN UNCHANGED <<wheels, filtered, output>>
  ELSE /\ filtered' = filtered + Sign(2 * wheels - filtered)
       /\ output' = filtered' /\ UNCHANGED wheels

\* The watchdog drops a command that is too old and stops the wheels; without a command
\* the control input stays as it is.
Apply(now) ==
  IF wheels = None THEN UNCHANGED <<wheels, filtered, output>>
  ELSE IF now > CommandTimeout
    THEN wheels' = None /\ output' = 0 /\ UNCHANGED filtered
    ELSE /\ filtered' = filtered + Sign(wheels - filtered)
         /\ output' = filtered' /\ UNCHANGED wheels

\* Seeded fault: a control loop without a command does not see the stop flag.
DriverEndsCommanded ==
  /\ driver = "finishing" /\ wheels # None /\ driver' = "ended"
  /\ UNCHANGED <<mainVars, ik, twist, targetVars, stateVars, wheels, age, filtered, output,
                 linkVars>>

\* The loop returns the control input with finish set, and ends.
DriverEnds ==
  /\ driver = "finishing"
  /\ driver' = "ended"
  /\ UNCHANGED <<mainVars, ik, twist, targetVars, stateVars, wheels, age, filtered, output, linkVars>>

-----------------------------------------------------------------------------
(* The state poll.                                                         *)

\* States may stop arriving: the driver keeps its last one and calls it valid, and then
\* this action does not happen again.
PollState ==
  /\ ik # "none" /\ ~Stopping
  /\ snapshot' = base
  /\ UNCHANGED <<mainVars, ik, twist, targetVars, base, driverVars, linkVars>>

-----------------------------------------------------------------------------
(* Start and stop, in the thread of the program that owns the controller.  *)

\* The threads run while start() still waits for the first state.
StartThreads ==
  /\ main = "starting" /\ ik = "none"
  /\ ik' = "cycle"
  /\ UNCHANGED <<mainVars, twist, targetVars, stateVars, driverVars, linkVars>>

FirstState ==
  /\ main = "starting" /\ ik # "none" /\ snapshot # None
  /\ main' = "resetting"
  /\ UNCHANGED <<joined, ik, twist, targetVars, stateVars, driverVars, linkVars>>

\* _reset_base_pose drives towards the origin, the place 0, and ends with a zero twist.
ResetBase ==
  /\ main = "resetting" /\ snapshot # 0
  /\ Command(Sign(0 - snapshot))
  /\ UNCHANGED <<mainVars, ik, twist, targetVars, stateVars, filtered, output, driver, linkVars>>

\* Seeded fault: the reset ends without a zero twist.
ResetDoneMoving ==
  /\ main = "resetting" /\ snapshot = 0 /\ main' = "running"
  /\ UNCHANGED <<joined, ik, twist, targetVars, stateVars, driverVars, linkVars>>

ResetDone ==
  /\ main = "resetting" /\ snapshot = 0
  /\ Command(0) /\ main' = "running"
  /\ UNCHANGED <<joined, ik, twist, targetVars, stateVars, filtered, output, driver, linkVars>>

\* The program leaves, or start() raised and it cleans up: the first state did not come,
\* the initial position could not be set.
Stop ==
  /\ main \in {"starting", "resetting", "running"} /\ ik # "none"
  /\ main' = "joining"
  /\ UNCHANGED <<joined, ik, twist, targetVars, stateVars, driverVars, linkVars>>

\* The join ends with the IK thread or with its timeout.
JoinThreads ==
  /\ main = "joining"
  /\ ik = "done" \/ joined = JoinTimeout
  /\ main' = "stopping" /\ driver' = "finishing"
  /\ UNCHANGED <<joined, ik, twist, targetVars, stateVars, wheels, age, filtered, output, linkVars>>

Stopped ==
  /\ main = "stopping" /\ driver = "ended"
  /\ main' = "stopped"
  /\ UNCHANGED <<joined, ik, twist, targetVars, stateVars, driverVars, linkVars>>

-----------------------------------------------------------------------------
(* Targets, from the threads of policies and teleoperation.  A target that *)
(* fails the incremental safety check changes nothing; joint targets, once *)
(* there are any, take the place of the end effectors' for good.           *)

SetTargets ==
  /\ main = "running"
  /\ \/ arms # "joint" /\ arms' \in {"ee", "joint"} /\ UNCHANGED baseTarget
     \/ baseTarget' \in Places /\ UNCHANGED arms
  /\ UNCHANGED <<mainVars, ik, twist, stateVars, driverVars, linkVars>>

-----------------------------------------------------------------------------
(* The IK thread.                                                          *)

\* A base target is followed from the polled state, whatever the arms do.  The solution for
\* the end effectors moves the base, too.  The gripper is asked first, when it has a width.
Cycle ==
  /\ ik = "cycle" /\ ~Stopping
  /\ IF baseTarget # None /\ snapshot # None
       THEN Command(Sign(baseTarget - snapshot))
       ELSE UNCHANGED <<wheels, age>>
  /\ IF snapshot # None /\ arms # "none"
       THEN /\ twist' \in IF arms = "joint" THEN {None} ELSE {-1, 0, 1}
            /\ \/ ik' = "gripper" /\ Ask
               \/ ik' = "send" /\ UNCHANGED linkVars
       ELSE ik' = "sleep" /\ UNCHANGED <<twist, linkVars>>
  /\ UNCHANGED <<mainVars, targetVars, stateVars, filtered, output, driver>>

\* The server's answer may be an error, which the client raises.
GripperAnswers ==
  /\ ik = "gripper" /\ Answer
  /\ \/ ik' = "send" /\ UNCHANGED twist
     \/ ik' = "sleep" /\ twist' = None
  /\ UNCHANGED <<mainVars, targetVars, stateVars, driverVars>>

GripperAsksAgain ==
  /\ ik = "gripper" /\ Retry
  /\ UNCHANGED <<mainVars, ik, twist, targetVars, stateVars, driverVars>>

\* An exception skips the body targets and the twist of this cycle.
GripperRaises ==
  /\ ik = "gripper" /\ Raise
  /\ ik' = "sleep" /\ twist' = None
  /\ UNCHANGED <<mainVars, targetVars, stateVars, driverVars>>

\* The twist was computed from the state before the gripper was asked.
Send ==
  /\ ik = "send"
  /\ IF twist # None THEN Command(twist) ELSE UNCHANGED <<wheels, age>>
  /\ ik' = "sleep" /\ twist' = None
  /\ UNCHANGED <<mainVars, targetVars, stateVars, filtered, output, driver, linkVars>>

LeaveLoop ==
  /\ ik = "cycle" /\ Stopping
  /\ ik' = "done"
  /\ UNCHANGED <<mainVars, twist, targetVars, stateVars, driverVars, linkVars>>

\* The gripper server's threads.
Server ==
  /\ Handle
  /\ UNCHANGED <<mainVars, ik, twist, targetVars, stateVars, driverVars>>

-----------------------------------------------------------------------------
(* Time passes: a period of the control loop, a sleep of the IK thread.    *)
(* The threads' other steps take no time, except waiting for the gripper.  *)
Prompt ==
  /\ ik \notin {"cycle", "send"}
  /\ main = "joining" => ik # "done" /\ joined < JoinTimeout

Tick ==
  /\ Prompt /\ ~(main = "stopped" /\ ik = "done")
  /\ age' = Lesser(age + 1, CommandTimeout + 1)
  /\ IF driver = "control"
       THEN /\ Apply(age')
            /\ base' = IF base + Sign(output') \in Places THEN base + Sign(output') ELSE base
       ELSE UNCHANGED <<wheels, filtered, output, base>>
  /\ joined' = IF main = "joining" THEN joined + 1 ELSE joined
  /\ ik' = IF ik = "sleep" THEN "cycle" ELSE ik
  /\ Wait
  /\ UNCHANGED <<main, twist, targetVars, snapshot, driver>>

Terminated == main = "stopped" /\ ik = "done" /\ UNCHANGED vars

IKThread ==
  Cycle \/ GripperAnswers \/ GripperAsksAgain \/ GripperRaises \/ Send \/ LeaveLoop

Next ==
  \/ StartThreads \/ FirstState \/ ResetBase \/ ResetDone
  \/ Stop \/ JoinThreads \/ Stopped \/ DriverEnds
  \/ PollState \/ SetTargets \/ IKThread \/ Server \/ Tick \/ Terminated

Spec == Init /\ [][Next]_vars

\* Threads run and time passes; the gripper server need not answer, nor the robot.
FairSpec ==
  /\ Spec /\ SF_vars(Tick) /\ WF_vars(IKThread)
  /\ WF_vars(JoinThreads \/ Stopped \/ DriverEnds)

-----------------------------------------------------------------------------
(* Properties.                                                             *)

TypeOK ==
  /\ main \in {"starting", "resetting", "running", "joining", "stopping", "stopped"}
  /\ joined \in 0 .. JoinTimeout
  /\ ik \in {"none", "cycle", "gripper", "send", "sleep", "done"}
  /\ arms \in {"none", "ee", "joint"}
  /\ {baseTarget, snapshot} \subseteq Places \cup {None} /\ base \in Places
  /\ twist \in {-1, 0, 1, None} /\ age \in 0 .. CommandTimeout + 1
  /\ wheels \in {-FullSpeed, 0, FullSpeed, None}
  /\ {filtered, output} \subseteq -FullSpeed .. FullSpeed
  /\ driver \in {"control", "finishing", "ended"}
  /\ LinkTypeOK

\* The wheels do not turn on the word of a command that is too old, however long the IK
\* thread waits for the gripper and whichever thread sent it (realtime_driver.cc, Apply).
\* What they do once the control loop has ended is the robot's affair.
WheelsStop == driver = "control" /\ age > CommandTimeout => output = 0

\* With neither a base target nor targets for the arms nobody drives the base: what the
\* reset at the start commanded was taken back before any target could be set.
BaseAtRest ==
  main = "running" /\ baseTarget = None /\ arms = "none" => wheels \in {0, None}

\* stop() returns, whether or not the IK thread is in a call to the gripper.
StopEnds == main = "joining" ~> main = "stopped"

=============================================================================
