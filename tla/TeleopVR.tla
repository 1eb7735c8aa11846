------------------------------ MODULE TeleopVR ------------------------------
(***************************************************************************)
(* Teleoperation of the RB-Y1's arms with a Meta Quest                     *)
(* (robots/rby1/scripts/rby1_wbc_teleop.py, mode vr): the thread that      *)
(* receives the controllers' states (teleop/teleop_vr.py), the trajectory  *)
(* loop (rby1/rby1_wbc_app.py) that makes a target of the newest one, and  *)
(* the check of the target against the robot (control/rby1_wbc.py).        *)
(*                                                                         *)
(* A pose is one coordinate, an angle in Circle steps: what matters of it  *)
(* is how far it is from another and that differences add up.  The arms    *)
(* take the way to their target in steps, at any pace.  The head, whose    *)
(* target is not sent, and the widths of the grippers are left out.  The   *)
(* robot's state is valid from RBY1WBC.start on.                           *)
(***************************************************************************)
EXTENDS Integers

CONSTANTS
  Hands,     \* the arms and their controllers
  Buttons,   \* the hand whose controller has the buttons A and B
  Held,      \* bound: how the operator may hold the controller of a hand
  Circle,    \* steps of a full turn
  Limit,     \* max_incremental_translation, max_incremental_rotation_deg
  None

Place == 0 .. Circle - 1
Maybe(S) == S \cup {None}
Grip == {"released", "between", "pressed"}    \* up to 0.1, and more than 0.8
Controller == [at : Place, grip : Grip]
ControllerState == [Hands -> Maybe(Controller)]

ASSUME CircleAssumption == Circle \in Nat \ {0} /\ Limit \in Nat
ASSUME HeldAssumption == Held \in [Hands -> SUBSET Maybe(Controller)]
ASSUME ButtonsAssumption == Buttons \in Hands
ASSUME NoneAssumption == None \notin Place /\ None \notin Controller
                        /\ None \notin ControllerState

VARIABLES
  robot,     \* where each hand of the robot is
  target,    \* RBY1WBC.ee_targets
  packet,    \* VRControlState.controller_state, None before the first
  event_a, event_b,               \* event_right_a_pressed, event_right_b_pressed
  pc,        \* where the trajectory loop is in its cycle
  seen,      \* right_ee_current_pose, left_ee_current_pose
  state,     \* compute_target's copy of the controller state
  is_initialized, is_stopped,
  has_initial_pose,
  block_until_release,
  following, \* per hand: None, or ee_start_pose less controller_start_pose
  locked,    \* right_hand_locked_pose, left_hand_locked_pose
  pending,   \* history: per hand, the locked pose that start by A has set or a
             \* rejection has left, until it is accepted or the hand is gripped
  hold,      \* history: per hand, where its controller was at the last target
             \* accepted, if every state the loop has read since has it gripped
  unseen     \* history: the same, if all that had it let go were read while B
             \* had teleoperation stopped, which looks no further than the buttons

teleopVars == <<is_initialized, is_stopped, has_initial_pose, block_until_release,
                following, locked, pending, hold, unseen>>
vars == <<robot, target, packet, event_a, event_b, pc, seen, state, teleopVars>>

TypeOK ==
  /\ robot \in [Hands -> Place] /\ target \in [Hands -> Maybe(Place)]
  /\ packet \in Maybe(ControllerState) /\ state \in Maybe(ControllerState)
  /\ event_a \in BOOLEAN /\ event_b \in BOOLEAN
  /\ pc \in {"read", "state", "start", "stop", "clear", "follow", "send"}
  /\ seen \in [Hands -> Place]
  /\ is_initialized \in BOOLEAN /\ is_stopped \in BOOLEAN
  /\ has_initial_pose \in BOOLEAN /\ block_until_release \in BOOLEAN
  /\ following \in [Hands -> Maybe(Place)] /\ locked \in [Hands -> Maybe(Place)]
  /\ pending \in [Hands -> Maybe(Place)] /\ hold \in [Hands -> Maybe(Place)]
  /\ unseen \in [Hands -> Maybe(Place)]

OnHands(v) == [h \in Hands |-> v]

Init ==
  /\ robot \in [Hands -> {0}] /\ target = OnHands(None)
  /\ packet = None /\ event_a = FALSE /\ event_b = FALSE
  /\ pc = "read" /\ seen = OnHands(0) /\ state = None
  /\ is_initialized = FALSE /\ is_stopped = FALSE
  /\ has_initial_pose = FALSE /\ block_until_release = FALSE
  /\ following = OnHands(None) /\ locked = OnHands(None)
  /\ pending = OnHands(None) /\ hold = OnHands(None) /\ unseen = OnHands(None)

-----------------------------------------------------------------------------
(* The receiver and the robot.                                             *)

Datagrams == {p \in [Hands -> UNION {Held[h] : h \in Hands}] : \A h \in Hands : p[h] \in Held[h]}

\* _teleop_loop under its lock: a state with its buttons.  The flags may be
\* cleared while they are stored, since the loop does not take the lock for
\* them: that is a clear before the datagram, or the button in another one.
Receive ==
  /\ packet' \in Datagrams
  /\ \E a, b \in IF packet'[Buttons] = None THEN {FALSE} ELSE BOOLEAN :
       /\ event_a' = (event_a \/ a) /\ event_b' = (event_b \/ b)
  /\ UNCHANGED <<robot, target, pc, seen, state, teleopVars>>

Distance(p, q) == IF (p - q) % Circle <= (q - p) % Circle
                  THEN (p - q) % Circle ELSE (q - p) % Circle

\* The arm goes on towards its target.
Move(h) ==
  /\ target[h] # None /\ robot[h] # target[h]
  /\ \E p \in {(robot[h] + 1) % Circle, (robot[h] - 1) % Circle} :
       /\ Distance(p, target[h]) < Distance(robot[h], target[h])
       /\ robot' = [robot EXCEPT ![h] = p]
  /\ UNCHANGED <<target, packet, event_a, event_b, pc, seen, state, teleopVars>>

-----------------------------------------------------------------------------
(* A cycle of the trajectory loop: compute_target and update_targets.      *)

\* The end of a cycle: the next one reads the robot and the controllers again
\* before it looks at them.
Return == pc' = "read" /\ seen' = OnHands(0) /\ state' = None

ReadRobot ==
  /\ pc = "read" /\ pc' = "state"
  /\ seen' = robot
  /\ has_initial_pose' = TRUE
  /\ locked' = IF has_initial_pose THEN locked ELSE robot
  /\ UNCHANGED <<robot, target, packet, event_a, event_b, state, is_initialized,
                 is_stopped, block_until_release, following, pending, hold, unseen>>

Gripped(s, h) == s[h] # None /\ s[h].grip = "pressed"
Released(s) == \A h \in Hands : s[h] # None => s[h].grip = "released"

NoControllerState ==
  /\ pc = "state" /\ packet = None
  /\ Return
  /\ UNCHANGED <<robot, target, packet, event_a, event_b, teleopVars>>

\* _check_release_gate: the cycle that finds the grips released sends nothing
\* either.
Gate ==
  /\ pc = "state" /\ packet # None /\ block_until_release
  /\ block_until_release' = ~Released(packet)
  /\ hold' = [h \in Hands |-> IF Released(packet) THEN None ELSE hold[h]]
  /\ unseen' = [h \in Hands |-> IF Released(packet) THEN None ELSE unseen[h]]
  /\ Return
  /\ UNCHANGED <<robot, target, packet, event_a, event_b, is_initialized,
                 is_stopped, has_initial_pose, following, locked, pending>>

ReadControllers ==
  /\ pc = "state" /\ packet # None /\ ~block_until_release
  /\ state' = packet
  /\ pc' = "start"
  /\ hold' = [h \in Hands |-> IF Gripped(packet, h) THEN hold[h] ELSE None]
  /\ unseen' = [h \in Hands |-> IF ~Gripped(packet, h) /\ hold[h] # None
                                THEN hold[h] ELSE unseen[h]]
  /\ UNCHANGED <<robot, target, packet, event_a, event_b, seen, is_initialized, is_stopped,
                 has_initial_pose, block_until_release, following, locked, pending>>

\* _handle_button_events looks at A, looks at B and clears the two.  It does
\* not take the lock.
HandleA ==
  /\ pc = "start" /\ pc' = "stop"
  /\ is_initialized' = (is_initialized \/ event_a)
  /\ is_stopped' = (is_stopped /\ ~event_a)
  /\ locked' = IF event_a THEN seen ELSE locked
  /\ pending' = IF event_a THEN seen ELSE pending
  /\ UNCHANGED <<robot, target, packet, event_a, event_b, seen, state,
                 has_initial_pose, block_until_release, following, hold, unseen>>

HandleB ==
  /\ pc = "stop" /\ pc' = "clear"
  /\ is_stopped' = (is_stopped \/ event_b)
  /\ UNCHANGED <<robot, target, packet, event_a, event_b, seen, state,
                 is_initialized, has_initial_pose, block_until_release, following, locked,
                 pending, hold, unseen>>

ClearEvents ==
  /\ pc = "clear"
  /\ event_a' = FALSE /\ event_b' = FALSE
  /\ IF is_initialized /\ ~is_stopped
     THEN pc' = "follow" /\ UNCHANGED <<seen, state>>
     ELSE Return
  /\ UNCHANGED <<robot, target, packet, teleopVars>>

\* Seeded fault: what an arm keeps to its controller is not brought back to a
\* turn.
OffsetUnwrapped(h) ==
  IF ~Gripped(state, h) THEN None
  ELSE IF following[h] # None THEN following[h]
  ELSE seen[h] - state[h].at

\* _update_left_follow_state and _update_right_follow_state: a controller that
\* is missing or not pressed lets go; one newly pressed takes hold of the arm
\* where the robot has it.
Offset(h) ==
  IF ~Gripped(state, h) THEN None
  ELSE IF following[h] # None THEN following[h]
  ELSE (seen[h] - state[h].at) % Circle

Follow ==
  /\ pc = "follow" /\ pc' = "send"
  /\ following' = [h \in Hands |-> Offset(h)]
  /\ locked' = [h \in Hands |-> IF Offset(h) = None THEN locked[h]
                                ELSE (state[h].at + Offset(h)) % Circle]
  /\ pending' = [h \in Hands |-> IF Offset(h) = None THEN pending[h] ELSE None]
  /\ unseen' = [h \in Hands |-> IF Gripped(state, h) THEN unseen[h] ELSE None]
  /\ UNCHANGED <<robot, target, packet, event_a, event_b, seen, state, is_initialized,
                 is_stopped, has_initial_pose, block_until_release, hold>>

\* _passes_incremental_safety looks at the robot again.
Passes == \A h \in Hands : Distance(locked[h], robot[h]) <= Limit

Accept ==
  /\ pc = "send" /\ Return
  /\ Passes
  /\ target' = locked
  /\ pending' = OnHands(None)
  /\ hold' = [h \in Hands |-> IF Gripped(state, h) THEN state[h].at ELSE None]
  /\ unseen' = OnHands(None)
  /\ UNCHANGED <<robot, packet, event_a, event_b, is_initialized,
                 is_stopped, has_initial_pose, block_until_release, following, locked>>

\* Seeded fault: the hands stay taken hold of.
RejectKeepsFollowing ==
  /\ pc = "send" /\ Return
  /\ ~Passes
  /\ block_until_release' = TRUE
  /\ pending' = locked
  /\ UNCHANGED <<robot, target, packet, event_a, event_b, is_initialized,
                 is_stopped, has_initial_pose, following, locked, hold, unseen>>

\* on_target_rejected.  The locked poses stay.
Reject ==
  /\ pc = "send" /\ Return
  /\ ~Passes
  /\ following' = OnHands(None)
  /\ block_until_release' = TRUE
  /\ pending' = locked
  /\ UNCHANGED <<robot, target, packet, event_a, event_b,
                 is_initialized, is_stopped, has_initial_pose, locked, hold, unseen>>

Cycle ==
  \/ ReadRobot \/ NoControllerState \/ Gate \/ ReadControllers
  \/ HandleA \/ HandleB \/ ClearEvents \/ Follow \/ Accept \/ Reject

Next == Receive \/ (\E h \in Hands : Move(h)) \/ Cycle

Spec == Init /\ [][Next]_vars

-----------------------------------------------------------------------------
(* Properties.                                                             *)

\* The place its controller is followed from, by an arm that still follows it.
Since(h) == IF hold[h] # None THEN hold[h] ELSE unseen[h]

Follows(h) ==
  /\ Distance(target'[h], robot[h]) <= Limit
  /\ target'[h] = IF ~Gripped(state, h)
                   THEN IF pending[h] # None THEN pending[h] ELSE target[h]
                   ELSE IF Since(h) = None THEN seen[h]
                   ELSE (target[h] + state[h].at - Since(h)) % Circle

\* A new target moves an arm that was held at the last one by as much as its
\* controller has moved, over stops and whatever the other arm does.  It leaves
\* an arm just taken hold of where the robot has it: after a release, a loss of
\* tracking, a rejection.  An arm nobody holds it leaves alone.  There are three
\* exceptions, in which only the limit keeps the target near the robot: a start
\* by A puts an arm nobody holds to where the robot had it; a pose that was
\* rejected is sent again as soon as the grips are released; and a hand that let
\* go and gripped again only while B had teleoperation stopped takes its arm
\* along, on the start by A, by all that it has moved without it.
ArmFollowsHand == [][target' # target => \A h \in Hands : Follows(h)]_vars

=============================================================================
