--------------------------- MODULE TeleopVRProofs ---------------------------
(***************************************************************************)
(* Proofs about TeleopVR, for any arms, any ring of poses, any limit and   *)
(* any datagrams.                                                          *)
(***************************************************************************)
EXTENDS TeleopVR, TLAPS

-----------------------------------------------------------------------------
(* Adding up poses on the ring.                                            *)

LEMMA Wrapped == \A a \in Int : a % Circle \in Place
  BY CircleAssumption DEF Place

LEMMA WrappedPlace == \A a \in Place : a % Circle = a
  BY CircleAssumption DEF Place

LEMMA WholeTurns ==
  ASSUME NEW a \in Int
  PROVE  \E k \in Int : a = Circle * k + (a % Circle)
<1>1. a \div Circle \in Int
  BY CircleAssumption
<1>2. a = Circle * (a \div Circle) + (a % Circle)
  BY CircleAssumption
<1>3. QED
  BY <1>1, <1>2

LEMMA LeftOver ==
  ASSUME NEW k \in Int, NEW r \in Place
  PROVE  (Circle * k + r) % Circle = r
  BY CircleAssumption DEF Place

LEMMA Rearranged ==
  ASSUME NEW a \in Int, NEW b \in Int, NEW r \in Int, NEW s \in Int,
         NEW x \in Int, NEW y \in Int, a = x + r, a + b = y + s
  PROVE  r + b = (y - x) + s
  OBVIOUS

\* A sum may be brought back to the ring before or after another is added.
LEMMA WrapOnce ==
  ASSUME NEW a \in Int, NEW b \in Int
  PROVE  ((a % Circle) + b) % Circle = (a + b) % Circle
<1>1. a % Circle \in Place /\ (a + b) % Circle \in Place
  BY Wrapped
<1>2. PICK k \in Int : a = Circle * k + (a % Circle)
  BY WholeTurns
<1>3. PICK q \in Int : a + b = Circle * q + ((a + b) % Circle)
  BY WholeTurns
<1>4. (a % Circle) + b = Circle * (q - k) + ((a + b) % Circle)
  <2>1. Circle * (q - k) = Circle * q - Circle * k
    BY CircleAssumption
  <2>2. /\ Circle * k \in Int /\ Circle * q \in Int
        /\ a % Circle \in Int /\ (a + b) % Circle \in Int
    BY <1>1, CircleAssumption DEF Place
  <2>3. (a % Circle) + b = (Circle * q - Circle * k) + ((a + b) % Circle)
    BY <1>2, <1>3, <2>2, Rearranged
  <2>4. QED
    BY <2>1, <2>3
<1>5. QED
  BY <1>1, <1>4, LeftOver, q - k \in Int

\* An arm just taken hold of is left where it is.
LEMMA TakenHold ==
  ASSUME NEW p \in Place, NEW q \in Place
  PROVE  (q + ((p - q) % Circle)) % Circle = p
<1>1. p \in Int /\ q \in Int /\ p - q \in Int /\ (p - q) % Circle \in Int
  BY Wrapped, CircleAssumption DEF Place
<1>2. (((p - q) % Circle) + q) % Circle = ((p - q) + q) % Circle
  BY <1>1, WrapOnce
<1>3. q + ((p - q) % Circle) = ((p - q) % Circle) + q /\ (p - q) + q = p
  BY <1>1
<1>4. QED
  BY <1>2, <1>3, WrappedPlace

\* The same offset from two places of a controller differs by the way between them.
LEMMA SameOffset ==
  ASSUME NEW p \in Place, NEW q \in Place, NEW f \in Place
  PROVE  (q + f) % Circle = (((p + f) % Circle) + q - p) % Circle
<1>1. p \in Int /\ q \in Int /\ f \in Int /\ p + f \in Int /\ q - p \in Int
  BY CircleAssumption DEF Place
<1>2. (p + f) % Circle \in Int
  BY <1>1, Wrapped, CircleAssumption DEF Place
<1>3. (((p + f) % Circle) + (q - p)) % Circle = ((p + f) + (q - p)) % Circle
  BY <1>1, WrapOnce
<1>4. /\ ((p + f) % Circle) + q - p = ((p + f) % Circle) + (q - p)
      /\ (p + f) + (q - p) = q + f
  BY <1>1, <1>2
<1>5. QED
  BY <1>3, <1>4

-----------------------------------------------------------------------------
(* Type correctness.                                                       *)

LEMMA PlaceTyped == Place \subseteq Int /\ 0 \in Place
  BY CircleAssumption DEF Place

LEMMA InitTyped == Init => TypeOK
  BY PlaceTyped DEF Init, TypeOK, OnHands, Maybe

LEMMA DatagramsTyped == Datagrams \subseteq ControllerState
  BY HeldAssumption DEF Datagrams, ControllerState

LEMMA GrippedTyped ==
  ASSUME NEW s \in Maybe(ControllerState), s # None, NEW h \in Hands, Gripped(s, h)
  PROVE  s[h].at \in Place
  BY DEF Maybe, ControllerState, Controller, Gripped

LEMMA OffsetTyped ==
  ASSUME TypeOK, state # None, NEW h \in Hands
  PROVE  /\ Offset(h) \in Maybe(Place)
         /\ Gripped(state, h) => Offset(h) \in Place
         /\ ~Gripped(state, h) => Offset(h) = None
<1>1. CASE Gripped(state, h)
  <2>1. state[h].at \in Place /\ seen[h] \in Place
    BY <1>1, GrippedTyped DEF TypeOK
  <2>2. (seen[h] - state[h].at) % Circle \in Place
    <3>1. seen[h] \in Int /\ state[h].at \in Int
      BY <2>1, PlaceTyped
    <3>2. seen[h] - state[h].at \in Int
      BY <3>1
    <3>3. QED
      BY <3>2, Wrapped
  <2>3. QED
    BY <1>1, <2>2 DEF Offset, TypeOK, Maybe
<1>2. CASE ~Gripped(state, h)
  BY <1>2 DEF Offset, Maybe
<1>3. QED
  BY <1>1, <1>2

\* The cycle beyond the gate has read the controllers.
StateRead == pc \in {"start", "stop", "clear", "follow", "send"} => state # None

LEMMA FollowTyped ==
  ASSUME TypeOK, StateRead, Follow
  PROVE  /\ following' \in [Hands -> Maybe(Place)]
         /\ locked' \in [Hands -> Maybe(Place)]
         /\ pending' \in [Hands -> Maybe(Place)]
         /\ unseen' \in [Hands -> Maybe(Place)]
<1>1. state # None
  BY DEF StateRead, Follow
<1>2. ASSUME NEW h \in Hands
      PROVE  /\ Offset(h) \in Maybe(Place)
             /\ Offset(h) # None => (state[h].at + Offset(h)) % Circle \in Place
  <2>1. Offset(h) # None => Gripped(state, h) /\ Offset(h) \in Place
    BY <1>1, OffsetTyped
  <2>2. Gripped(state, h) => state[h].at \in Place
    BY <1>1, GrippedTyped DEF TypeOK
  <2>3. ASSUME Offset(h) # None
        PROVE  (state[h].at + Offset(h)) % Circle \in Place
    <3>1. state[h].at \in Int /\ Offset(h) \in Int
      BY <2>1, <2>2, <2>3, PlaceTyped
    <3>2. state[h].at + Offset(h) \in Int
      BY <3>1
    <3>3. QED
      BY <3>2, Wrapped
  <2>4. QED
    BY <1>1, <2>3, OffsetTyped
<1>3. QED
  BY <1>2 DEF Follow, TypeOK, Maybe

LEMMA NextTyped == TypeOK /\ StateRead /\ [Next]_vars => TypeOK' /\ StateRead'
<1> SUFFICES ASSUME TypeOK, StateRead, [Next]_vars
             PROVE  TypeOK' /\ StateRead'
  OBVIOUS
<1>1. CASE Receive
  BY <1>1, DatagramsTyped DEF Receive, TypeOK, StateRead, teleopVars, Maybe
<1>2. ASSUME NEW h \in Hands, Move(h)
      PROVE  TypeOK' /\ StateRead'
  <2>1. PICK p \in {(robot[h] + 1) % Circle, (robot[h] - 1) % Circle} :
          robot' = [robot EXCEPT ![h] = p]
    BY <1>2 DEF Move
  <2>2. p \in Place
    <3>1. robot[h] \in Int
      BY PlaceTyped DEF TypeOK
    <3>2. robot[h] + 1 \in Int /\ robot[h] - 1 \in Int
      BY <3>1
    <3>3. QED
      BY <2>1, <3>2, Wrapped
  <2>3. robot' \in [Hands -> Place]
    BY <2>1, <2>2 DEF TypeOK
  <2>4. QED
    BY <1>2, <2>3 DEF Move, TypeOK, StateRead, teleopVars
<1>3. CASE ReadRobot
  BY <1>3 DEF ReadRobot, TypeOK, StateRead, Maybe
<1>4. CASE NoControllerState
  BY <1>4, PlaceTyped DEF NoControllerState, Return, OnHands, TypeOK, StateRead, teleopVars, Maybe
<1>5. CASE Gate
  <2>1. hold' \in [Hands -> Maybe(Place)] /\ unseen' \in [Hands -> Maybe(Place)]
    BY <1>5 DEF Gate, TypeOK, Maybe
  <2>2. QED
    BY <1>5, <2>1, PlaceTyped DEF Gate, Return, OnHands, Released, TypeOK, StateRead, Maybe
<1>6. CASE ReadControllers
  <2>1. hold' \in [Hands -> Maybe(Place)] /\ unseen' \in [Hands -> Maybe(Place)]
    BY <1>6 DEF ReadControllers, TypeOK, Maybe
  <2>2. QED
    BY <1>6, <2>1 DEF ReadControllers, TypeOK, StateRead
<1>7. CASE HandleA
  BY <1>7 DEF HandleA, TypeOK, StateRead, Maybe
<1>8. CASE HandleB
  BY <1>8 DEF HandleB, TypeOK, StateRead
<1>9. CASE ClearEvents
  BY <1>9, PlaceTyped DEF ClearEvents, Return, OnHands, TypeOK, StateRead, teleopVars, Maybe
<1>10. CASE Follow
  BY <1>10, FollowTyped DEF Follow, TypeOK, StateRead
<1>11. CASE Accept
  <2>1. hold' \in [Hands -> Maybe(Place)]
    BY <1>11, GrippedTyped DEF Accept, TypeOK, StateRead, Maybe
  <2>2. QED
    BY <1>11, <2>1, PlaceTyped DEF Accept, Return, OnHands, TypeOK, StateRead, Maybe
<1>12. CASE Reject
  BY <1>12, PlaceTyped DEF Reject, Return, OnHands, TypeOK, StateRead, Maybe
<1>13. CASE UNCHANGED vars
  BY <1>13 DEF vars, teleopVars, TypeOK, StateRead
<1>14. QED
  BY <1>1, <1>2, <1>3, <1>4, <1>5, <1>6, <1>7, <1>8, <1>9, <1>10, <1>11, <1>12, <1>13
     DEF Next, Cycle

\* Every variable of the receiver, the trajectory loop and the robot is well
\* typed in every reachable state: poses stay on the ring.
THEOREM VRTypeCorrect == Spec => []TypeOK
<1>1. Init => TypeOK /\ StateRead
  BY InitTyped DEF Init, StateRead
<1>2. QED
  BY <1>1, NextTyped, PTL DEF Spec

-----------------------------------------------------------------------------
(* An arm follows its hand.                                                *)

Active == is_initialized /\ ~is_stopped

\* Where an arm nobody holds is sent.
Rest(h) == IF pending[h] # None THEN pending[h] ELSE target[h]

\* An arm held at the last target was sent to its offset from its controller.
HeldAt(h) == target[h] = (Since(h) + following[h]) % Circle

LockedInv ==
  /\ pc # "read" \/ is_initialized => has_initial_pose
  /\ has_initial_pose => locked \in [Hands -> Place]
  /\ Active /\ pc # "send" => \A h \in Hands : locked[h] = Rest(h)

GateInv ==
  /\ block_until_release => pc \in {"read", "state"} /\ following = OnHands(None)
  /\ pc \in {"follow", "send"} => Active

\* Outside of Follow and Accept an arm is held if it was at the last target.
HoldInv ==
  pc # "send" /\ ~block_until_release =>
    \A h \in Hands : \/ following[h] = None /\ hold[h] = None /\ unseen[h] = None
                     \/ following[h] # None /\ Since(h) # None /\ HeldAt(h)

\* What is about to be sent is what ArmFollowsHand asks for.
Ready(h) ==
  IF ~Gripped(state, h)
  THEN following[h] = None /\ locked[h] = Rest(h)
  ELSE /\ following[h] # None
       /\ locked[h] = (state[h].at + following[h]) % Circle
       /\ IF Since(h) = None THEN locked[h] = seen[h] ELSE HeldAt(h)

SendInv == pc = "send" => \A h \in Hands : Ready(h)

HandInv == LockedInv /\ GateInv /\ HoldInv /\ SendInv
VRInv == TypeOK /\ StateRead /\ HandInv

LEMMA InitHand == Init => HandInv
  BY DEF Init, HandInv, LockedInv, GateInv, HoldInv, SendInv, Active, OnHands

LEMMA FollowReady ==
  ASSUME VRInv, Follow, NEW h \in Hands
  PROVE  Ready(h)' /\ locked'[h] \in Place
<1>1. /\ TypeOK /\ state # None /\ pc = "follow" /\ ~block_until_release /\ Active
      /\ has_initial_pose /\ locked[h] \in Place /\ locked[h] = Rest(h)
      /\ \/ following[h] = None /\ hold[h] = None /\ unseen[h] = None
         \/ following[h] # None /\ Since(h) # None /\ HeldAt(h)
  BY DEF VRInv, StateRead, Follow, HandInv, LockedInv, GateInv, HoldInv
<1>2. CASE ~Gripped(state, h)
  <2>1. following'[h] = None /\ locked'[h] = locked[h] /\ pending'[h] = pending[h]
        /\ target' = target /\ state' = state
    BY <1>2 DEF Follow, Offset
  <2>2. QED
    BY <1>1, <1>2, <2>1 DEF Ready, Rest, Gripped
<1>3. CASE Gripped(state, h)
  <2>1. state[h].at \in Place /\ seen[h] \in Place /\ Offset(h) \in Place /\ Offset(h) # None
    BY <1>1, <1>3, GrippedTyped, OffsetTyped, NoneAssumption DEF TypeOK
  <2>2. /\ following'[h] = Offset(h) /\ locked'[h] = (state[h].at + Offset(h)) % Circle
        /\ Since(h)' = Since(h) /\ target' = target /\ state' = state /\ seen' = seen
    BY <1>3, <2>1 DEF Follow, Since
  <2>3. locked'[h] \in Place
    <3>1. state[h].at + Offset(h) \in Int
      BY <2>1, CircleAssumption DEF Place
    <3>2. QED
      BY <2>2, <3>1, Wrapped
  <2>4. CASE following[h] = None
    <3>1. Offset(h) = (seen[h] - state[h].at) % Circle
      BY <1>3, <2>4 DEF Offset
    <3>2. locked'[h] = seen[h]
      BY <2>1, <2>2, <3>1, TakenHold
    <3>3. QED
      BY <1>1, <1>3, <2>1, <2>2, <2>3, <2>4, <3>2 DEF Ready, Gripped, Since
  <2>5. CASE following[h] # None
    <3>1. Offset(h) = following[h] /\ HeldAt(h) /\ Since(h) # None
      BY <1>1, <1>3, <2>5 DEF Offset
    <3>2. QED
      BY <1>3, <2>1, <2>2, <2>3, <3>1 DEF Ready, Gripped, HeldAt
  <2>6. QED
    BY <2>4, <2>5
<1>4. QED
  BY <1>2, <1>3

LEMMA AcceptHolds ==
  ASSUME VRInv, Accept
  PROVE  HandInv'
<1>1. /\ TypeOK /\ state # None /\ pc = "send" /\ ~block_until_release /\ Active
      /\ has_initial_pose /\ locked \in [Hands -> Place]
      /\ \A h \in Hands : Ready(h)
  BY DEF VRInv, StateRead, Accept, HandInv, LockedInv, GateInv, SendInv
<1>2. LockedInv' /\ GateInv' /\ SendInv'
  BY <1>1 DEF Accept, Return, LockedInv, GateInv, SendInv, Active, Rest, OnHands
<1>3. ASSUME NEW h \in Hands
      PROVE  \/ following'[h] = None /\ hold'[h] = None /\ unseen'[h] = None
             \/ following'[h] # None /\ Since(h)' # None /\ HeldAt(h)'
  <2>1. Gripped(state, h) => state[h].at \in Place /\ state[h].at # None
    BY <1>1, GrippedTyped, NoneAssumption DEF TypeOK
  <2>2. QED
    BY <1>1, <2>1 DEF Accept, Ready, HeldAt, Since, OnHands
<1>4. QED
  BY <1>2, <1>3 DEF HandInv, HoldInv, Accept

LEMMA NextHand == VRInv /\ [Next]_vars => HandInv'
<1> SUFFICES ASSUME VRInv, [Next]_vars PROVE HandInv'
  OBVIOUS
<1>0. TypeOK /\ StateRead /\ LockedInv /\ GateInv /\ HoldInv /\ SendInv
  BY DEF VRInv, HandInv
<1> USE <1>0 DEF HandInv
<1>1. CASE Receive
  BY <1>1 DEF Receive, teleopVars, LockedInv, GateInv, HoldInv, SendInv, Active, Rest, HeldAt,
              Since, Ready, Gripped
<1>2. ASSUME NEW h \in Hands, Move(h) PROVE HandInv'
  BY <1>2 DEF Move, teleopVars, LockedInv, GateInv, HoldInv, SendInv, Active, Rest, HeldAt,
              Since, Ready, Gripped
<1>3. CASE ReadRobot
  <2>1. LockedInv'
    BY <1>3 DEF ReadRobot, LockedInv, TypeOK, Active, Rest
  <2>2. GateInv' /\ HoldInv' /\ SendInv'
    BY <1>3 DEF ReadRobot, GateInv, HoldInv, SendInv, Active, HeldAt, Since
  <2>3. QED
    BY <2>1, <2>2
<1>4. CASE NoControllerState
  BY <1>4 DEF NoControllerState, Return, teleopVars, LockedInv, GateInv, HoldInv, SendInv,
              Active, Rest, HeldAt, Since
<1>5. CASE Gate
  <2>1. LockedInv' /\ GateInv' /\ SendInv'
    BY <1>5 DEF Gate, Return, LockedInv, GateInv, SendInv, Active, Rest
  <2>2. HoldInv'
    BY <1>5 DEF Gate, HoldInv, GateInv, OnHands, Released
  <2>3. QED
    BY <2>1, <2>2
<1>6. CASE ReadControllers
  <2>1. LockedInv' /\ GateInv' /\ SendInv'
    BY <1>6 DEF ReadControllers, LockedInv, GateInv, SendInv, Active, Rest
  <2>2. ASSUME NEW h \in Hands PROVE Since(h)' = Since(h)
    BY <1>6 DEF ReadControllers, Since
  <2>3. ASSUME NEW h \in Hands, hold[h] = None, unseen[h] = None
        PROVE  hold'[h] = None /\ unseen'[h] = None
    BY <1>6, <2>3 DEF ReadControllers
  <2>4. HoldInv'
    BY <1>6, <2>2, <2>3 DEF ReadControllers, HoldInv, HeldAt
  <2>5. QED
    BY <2>1, <2>4
<1>7. CASE HandleA
  <2>1. LockedInv'
    BY <1>7, NoneAssumption DEF HandleA, LockedInv, TypeOK, Active, Rest
  <2>2. GateInv' /\ HoldInv' /\ SendInv'
    BY <1>7 DEF HandleA, GateInv, HoldInv, SendInv, Active, HeldAt, Since
  <2>3. QED
    BY <2>1, <2>2
<1>8. CASE HandleB
  BY <1>8 DEF HandleB, LockedInv, GateInv, HoldInv, SendInv, Active, Rest, HeldAt, Since, TypeOK
<1>9. CASE ClearEvents
  BY <1>9 DEF ClearEvents, Return, teleopVars, LockedInv, GateInv, HoldInv, SendInv, Active,
              Rest, HeldAt, Since
<1>10. CASE Follow
  <2>1. \A h \in Hands : Ready(h)' /\ locked'[h] \in Place
    BY <1>10, FollowReady
  <2>2. LockedInv' /\ GateInv' /\ HoldInv'
    BY <1>10, <2>1 DEF Follow, LockedInv, GateInv, HoldInv, Active
  <2>3. QED
    BY <2>1, <2>2 DEF SendInv
<1>11. CASE Accept
  BY <1>11, AcceptHolds
<1>12. CASE Reject
  <2>1. LockedInv'
    BY <1>12, NoneAssumption DEF Reject, Return, LockedInv, Active, Rest
  <2>2. GateInv' /\ HoldInv' /\ SendInv'
    BY <1>12 DEF Reject, Return, GateInv, HoldInv, SendInv, Active
  <2>3. QED
    BY <2>1, <2>2
<1>13. CASE UNCHANGED vars
  BY <1>13 DEF vars, teleopVars, LockedInv, GateInv, HoldInv, SendInv, Active, Rest, HeldAt,
               Since, Ready, Gripped
<1>14. QED
  BY <1>1, <1>2, <1>3, <1>4, <1>5, <1>6, <1>7, <1>8, <1>9, <1>10, <1>11, <1>12, <1>13
     DEF Next, Cycle

LEMMA AcceptFollows ==
  ASSUME VRInv, Accept, NEW h \in Hands
  PROVE  Follows(h)
<1>1. TypeOK /\ state # None /\ Ready(h) /\ target' = locked
  BY DEF VRInv, StateRead, Accept, HandInv, SendInv
<1>2. Distance(target'[h], robot[h]) <= Limit
  BY <1>1 DEF Accept, Passes
<1>3. CASE ~Gripped(state, h)
  BY <1>1, <1>2, <1>3 DEF Ready, Follows, Rest
<1>4. CASE Gripped(state, h) /\ Since(h) = None
  BY <1>1, <1>2, <1>4 DEF Ready, Follows
<1>5. CASE Gripped(state, h) /\ Since(h) # None
  <2>1. /\ target'[h] = (state[h].at + following[h]) % Circle
        /\ target[h] = (Since(h) + following[h]) % Circle
    BY <1>1, <1>5 DEF Ready, HeldAt
  <2>2. state[h].at \in Place /\ Since(h) \in Place /\ following[h] \in Place
    BY <1>1, <1>5, GrippedTyped DEF Ready, TypeOK, Maybe, Since
  <2>3. target'[h] = (target[h] + state[h].at - Since(h)) % Circle
    BY <2>1, <2>2, SameOffset
  <2>4. QED
    BY <1>2, <1>5, <2>3 DEF Follows
<1>6. QED
  BY <1>3, <1>4, <1>5

\* Every target is near the robot and moves an arm that its hand holds since the
\* target before by what the hand has moved, leaves one just gripped where it is,
\* and sends one nobody grips where it was sent last, or where a start or a
\* rejected pose has put it.  A hand that let go only while B had teleoperation
\* stopped counts as one that held on.  For any arms, ring, limit and datagrams.
THEOREM VRArmFollowsHand == Spec => ArmFollowsHand
<1>1. Init => VRInv
  BY InitTyped, InitHand DEF Init, StateRead, VRInv
<1>2. VRInv /\ [Next]_vars => VRInv'
  BY NextTyped, NextHand DEF VRInv
<1>3. VRInv /\ [Next]_vars => [target' # target => \A h \in Hands : Follows(h)]_vars
  <2> SUFFICES ASSUME VRInv, [Next]_vars, target' # target
               PROVE  \A h \in Hands : Follows(h)
    OBVIOUS
  <2>1. Accept
    BY DEF Next, Cycle, vars, teleopVars, Receive, Move, ReadRobot, NoControllerState, Gate,
           ReadControllers, HandleA, HandleB, ClearEvents, Follow, Reject
  <2>2. QED
    BY <2>1, AcceptFollows
<1>4. QED
  BY <1>1, <1>2, <1>3, PTL DEF Spec, ArmFollowsHand

=============================================================================
