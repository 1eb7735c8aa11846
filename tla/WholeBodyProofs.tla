--------------------------- MODULE WholeBodyProofs --------------------------
(***************************************************************************)
(* Proofs about WholeBody and its GripperLink, for every track, timeout    *)
(* and speed.  None of them needs fairness.                                *)
(***************************************************************************)
EXTENDS WholeBody, TLAPS

\* The thread of the program that owns the controller.
OwnerThread ==
  \/ StartThreads \/ FirstState \/ ResetBase \/ ResetDone \/ Stop \/ JoinThreads \/ Stopped

-----------------------------------------------------------------------------
(* The gripper's connection.  At most one request or reply is on it, and   *)
(* only while the call it belongs to is in progress: whatever else was     *)
(* sent is on a connection the client has given up.                        *)

LinkInv ==
  /\ ~Calling => inbox = <<>> /\ outbox = <<>>
  /\ \/ inbox = <<>> /\ outbox = <<>>
     \/ inbox = <<asked>> /\ outbox = <<>>
     \/ inbox = <<>> /\ outbox = <<asked>>

LinkStep == Ask \/ Retry \/ Raise \/ Answer \/ Handle \/ Wait \/ UNCHANGED linkVars

LEMMA LinkStarts == LinkInit => LinkTypeOK /\ LinkInv
  BY LinkAssumption DEF LinkInit, LinkTypeOK, LinkInv, Numbers

LEMMA LinkTyped ==
  ASSUME LinkTypeOK, LinkStep
  PROVE  LinkTypeOK'
<1> USE LinkAssumption DEF LinkTypeOK, Numbers
<1>1. CASE Ask
  <2>1. asked' \in Numbers /\ attempt' = 1 /\ connected' = connected /\ outbox' = outbox
    BY <1>1 DEF Ask
  <2>2. inbox' \in Seq(Numbers)
    <3>1. CASE connected
      BY <1>1, <2>1, <3>1 DEF Ask
    <3>2. CASE ~connected
      BY <1>1, <3>2 DEF Ask
    <3>3. QED
      BY <3>1, <3>2
  <2>3. patience' \in 0 .. SocketTimeout
    BY <1>1 DEF Ask
  <2>4. QED
    BY <2>1, <2>2, <2>3
<1>2. CASE Retry
  BY <1>2 DEF Retry
<1>3. CASE Raise
  <2>1. connected' \in BOOLEAN
    BY <1>3 DEF Raise
  <2>2. QED
    BY <1>3, <2>1 DEF Raise
<1>4. CASE Answer
  BY <1>4 DEF Answer
<1>5. CASE Handle
  BY <1>5 DEF Handle
<1>6. CASE Wait
  BY <1>6 DEF Wait, Calling
<1>7. CASE UNCHANGED linkVars
  BY <1>7 DEF linkVars
<1>8. QED
  BY <1>1, <1>2, <1>3, <1>4, <1>5, <1>6, <1>7 DEF LinkStep

LEMMA LinkKept ==
  ASSUME LinkTypeOK, LinkInv, LinkStep
  PROVE  LinkInv'
<1> USE DEF LinkTypeOK, LinkInv, Calling
<1>1. CASE Ask
  BY <1>1 DEF Ask
<1>2. CASE Retry
  BY <1>2 DEF Retry
<1>3. CASE Raise
  BY <1>3 DEF Raise
<1>4. CASE Answer
  BY <1>4 DEF Answer
<1>5. CASE Handle
  <2>1. inbox = <<asked>> /\ outbox = <<>>
    BY <1>5 DEF Handle
  <2>2. inbox' = <<>> /\ outbox' = <<asked>>
    BY <1>5, <2>1 DEF Handle
  <2>3. QED
    BY <1>5, <2>1, <2>2 DEF Handle
<1>6. CASE Wait
  BY <1>6 DEF Wait
<1>7. CASE UNCHANGED linkVars
  BY <1>7 DEF linkVars
<1>8. QED
  BY <1>1, <1>2, <1>3, <1>4, <1>5, <1>6, <1>7 DEF LinkStep

-----------------------------------------------------------------------------
(* Twists and the speeds they command.                                     *)

LEMMA SignIsTwist == \A n \in Int : Sign(n) \in {-1, 0, 1}
  BY DEF Sign

LEMMA TwistCommands ==
  ASSUME NEW t \in {-1, 0, 1}, Command(t)
  PROVE  wheels' \in {-FullSpeed, 0, FullSpeed} /\ wheels' # None /\ age' = 0
         /\ (t = 0 => wheels' = 0)
<1>1. FullSpeed \in Nat /\ None \notin Int
  BY BodyAssumption
<1>2. t * FullSpeed \in {-FullSpeed, 0, FullSpeed} /\ (t = 0 => t * FullSpeed = 0)
  BY <1>1
<1>3. {-FullSpeed, 0, FullSpeed} \subseteq Int
  BY <1>1
<1>4. QED
  BY <1>1, <1>2, <1>3 DEF Command

\* What the watchdog and the filter make of a command.
LEMMA FilterTyped ==
  ASSUME NEW f \in -FullSpeed .. FullSpeed, NEW w \in {-FullSpeed, 0, FullSpeed}
  PROVE  f + Sign(w - f) \in -FullSpeed .. FullSpeed
  BY BodyAssumption DEF Sign

LEMMA ApplyTyped ==
  ASSUME TypeOK, NEW now \in Nat, Apply(now)
  PROVE  /\ wheels' \in {-FullSpeed, 0, FullSpeed, None}
         /\ filtered' \in -FullSpeed .. FullSpeed /\ output' \in -FullSpeed .. FullSpeed
<1>1. filtered \in -FullSpeed .. FullSpeed /\ output \in -FullSpeed .. FullSpeed
      /\ wheels \in {-FullSpeed, 0, FullSpeed, None}
  BY DEF TypeOK
<1>2. 0 \in -FullSpeed .. FullSpeed
  BY BodyAssumption
<1>3. CASE wheels = None
  BY <1>1, <1>3 DEF Apply
<1>4. CASE wheels # None
  BY <1>1, <1>2, <1>4, FilterTyped DEF Apply
<1>5. QED
  BY <1>3, <1>4

-----------------------------------------------------------------------------
(* Type correctness.                                                       *)

LEMMA InitTyped == Init => TypeOK
  BY BodyAssumption, LinkStarts DEF Init, TypeOK, Places


\* A step of the module is a step of the link.
LEMMA StepsOfLink == [Next]_vars => LinkStep
<1> USE DEF LinkStep
<1>1. CASE OwnerThread
  BY <1>1 DEF OwnerThread, StartThreads, FirstState, ResetBase, ResetDone, Stop, JoinThreads,
              Stopped
<1>2. CASE IKThread
  BY <1>2 DEF IKThread, Cycle, GripperAnswers, GripperAsksAgain, GripperRaises, Send, LeaveLoop
<1>3. CASE PollState \/ SetTargets \/ DriverEnds \/ Server \/ Tick
  BY <1>3 DEF PollState, SetTargets, DriverEnds, Server, Tick
<1>4. CASE Terminated \/ UNCHANGED vars
  BY <1>4 DEF Terminated, vars
<1>5. QED
  BY <1>1, <1>2, <1>3, <1>4 DEF Next, OwnerThread

\* TypeOK without the link's part.
BodyTypeOK ==
  /\ main \in {"starting", "resetting", "running", "joining", "stopping", "stopped"}
  /\ joined \in 0 .. JoinTimeout
  /\ ik \in {"none", "cycle", "gripper", "send", "sleep", "done"}
  /\ arms \in {"none", "ee", "joint"}
  /\ baseTarget \in Places \cup {None} /\ snapshot \in Places \cup {None} /\ base \in Places
  /\ twist \in {-1, 0, 1, None} /\ age \in 0 .. CommandTimeout + 1
  /\ wheels \in {-FullSpeed, 0, FullSpeed, None}
  /\ filtered \in -FullSpeed .. FullSpeed /\ output \in -FullSpeed .. FullSpeed
  /\ driver \in {"control", "finishing", "ended"}

LEMMA TypeOKParts == TypeOK <=> BodyTypeOK /\ LinkTypeOK
  BY DEF TypeOK, BodyTypeOK

LEMMA OwnerThreadTyped ==
  ASSUME BodyTypeOK, OwnerThread
  PROVE  BodyTypeOK'
<1> USE BodyAssumption DEF BodyTypeOK, Places, mainVars, targetVars, stateVars, driverVars
<1>1. CASE StartThreads
  BY <1>1 DEF StartThreads
<1>2. CASE FirstState
  BY <1>2 DEF FirstState
<1>3. CASE ResetBase
  BY <1>3, SignIsTwist, TwistCommands DEF ResetBase
<1>4. CASE ResetDone
  BY <1>4, TwistCommands DEF ResetDone
<1>5. CASE Stop
  BY <1>5 DEF Stop
<1>6. CASE JoinThreads
  BY <1>6 DEF JoinThreads
<1>7. CASE Stopped
  BY <1>7 DEF Stopped
<1>8. QED
  BY <1>1, <1>2, <1>3, <1>4, <1>5, <1>6, <1>7 DEF OwnerThread

LEMMA IKThreadTyped ==
  ASSUME BodyTypeOK, IKThread
  PROVE  BodyTypeOK'
<1> USE BodyAssumption DEF BodyTypeOK, Places, mainVars, targetVars, stateVars, driverVars
<1>1. CASE Cycle
  BY <1>1, SignIsTwist, TwistCommands DEF Cycle
<1>2. CASE GripperAnswers
  BY <1>2 DEF GripperAnswers
<1>3. CASE GripperAsksAgain
  BY <1>3 DEF GripperAsksAgain
<1>4. CASE GripperRaises
  BY <1>4 DEF GripperRaises
<1>5. CASE Send
  BY <1>5, TwistCommands DEF Send
<1>6. CASE LeaveLoop
  BY <1>6 DEF LeaveLoop
<1>7. QED
  BY <1>1, <1>2, <1>3, <1>4, <1>5, <1>6 DEF IKThread

LEMMA TickTyped ==
  ASSUME BodyTypeOK, TypeOK, Tick
  PROVE  BodyTypeOK'
<1> USE BodyAssumption DEF BodyTypeOK, Places, mainVars, targetVars, stateVars, driverVars
<1>1. age' \in 0 .. CommandTimeout + 1
  BY DEF Tick, Lesser
<1>2. /\ wheels' \in {-FullSpeed, 0, FullSpeed, None}
      /\ filtered' \in -FullSpeed .. FullSpeed /\ output' \in -FullSpeed .. FullSpeed
  <2>1. age' \in Nat
    BY <1>1
  <2>2. CASE driver = "control"
    BY <2>1, <2>2, ApplyTyped DEF Tick
  <2>3. CASE driver # "control"
    BY <2>3 DEF Tick
  <2>4. QED
    BY <2>2, <2>3
<1>3. base' \in Places /\ joined' \in 0 .. JoinTimeout
  BY DEF Tick, Prompt
<1>4. QED
  BY <1>1, <1>2, <1>3 DEF Tick

LEMMA NextTyped == TypeOK /\ [Next]_vars => TypeOK'
<1> SUFFICES ASSUME TypeOK, [Next]_vars PROVE BodyTypeOK' /\ LinkTypeOK'
  BY TypeOKParts DEF TypeOK, BodyTypeOK
<1> USE TypeOKParts DEF BodyTypeOK, mainVars, targetVars, stateVars, driverVars
<1>1. LinkTypeOK'
  BY StepsOfLink, LinkTyped
<1>2. CASE OwnerThread
  BY <1>1, <1>2, OwnerThreadTyped
<1>3. CASE IKThread
  BY <1>1, <1>3, IKThreadTyped
<1>4. CASE PollState \/ DriverEnds \/ Server
  BY <1>1, <1>4 DEF PollState, DriverEnds, Server
<1>5. CASE SetTargets
  BY <1>1, <1>5 DEF SetTargets
<1>6. CASE Tick
  BY <1>1, <1>6, TickTyped
<1>7. CASE Terminated \/ UNCHANGED vars
  BY <1>1, <1>7 DEF Terminated, vars
<1>8. QED
  BY <1>2, <1>3, <1>4, <1>5, <1>6, <1>7 DEF Next, OwnerThread

\* Every reachable state is well typed: the filter never leaves the speeds that can be
\* commanded, and no wait outlasts its timeout.
THEOREM BodyTypeCorrect == Spec => []TypeOK
  BY InitTyped, NextTyped, PTL DEF Spec

\* Whatever the server and the network do, and however often a request is asked again, the
\* reply a call reads answers that call.
THEOREM GripperReplyIsOwn == Spec => []ReplyIsOwn
<1>1. Init => LinkTypeOK /\ LinkInv
  BY LinkStarts DEF Init
<1>2. LinkTypeOK /\ LinkInv /\ [Next]_vars => LinkTypeOK' /\ LinkInv'
  BY StepsOfLink, LinkTyped, LinkKept
<1>3. LinkInv => ReplyIsOwn
  BY DEF LinkInv, ReplyIsOwn
<1>4. QED
  BY <1>1, <1>2, <1>3, PTL DEF Spec

-----------------------------------------------------------------------------
(* The wheels.  While the control loop runs, no command is left that is    *)
(* too old, and without a command they do not turn.                        *)

WheelsInv ==
  driver = "control" =>
    (wheels = None => output = 0) /\ (age > CommandTimeout => wheels = None)

LEMMA InitWheels == Init => WheelsInv
  BY BodyAssumption DEF Init, WheelsInv

LEMMA OwnerThreadWheels ==
  ASSUME TypeOK, WheelsInv, OwnerThread
  PROVE  WheelsInv'
<1> USE BodyAssumption DEF BodyTypeOK, WheelsInv, Places, driverVars
<1> BodyTypeOK
  BY TypeOKParts
<1>1. CASE StartThreads
  BY <1>1 DEF StartThreads
<1>2. CASE FirstState
  BY <1>2 DEF FirstState
<1>3. CASE ResetBase
  BY <1>3, SignIsTwist, TwistCommands DEF ResetBase
<1>4. CASE ResetDone
  BY <1>4, TwistCommands DEF ResetDone
<1>5. CASE Stop
  BY <1>5 DEF Stop
<1>6. CASE JoinThreads
  BY <1>6 DEF JoinThreads
<1>7. CASE Stopped
  BY <1>7 DEF Stopped
<1>8. QED
  BY <1>1, <1>2, <1>3, <1>4, <1>5, <1>6, <1>7 DEF OwnerThread

LEMMA IKThreadWheels ==
  ASSUME TypeOK, WheelsInv, IKThread
  PROVE  WheelsInv'
<1> USE BodyAssumption DEF BodyTypeOK, WheelsInv, Places, driverVars
<1> BodyTypeOK
  BY TypeOKParts
<1>1. CASE Cycle
  BY <1>1, SignIsTwist, TwistCommands DEF Cycle
<1>2. CASE GripperAnswers
  BY <1>2 DEF GripperAnswers
<1>3. CASE GripperAsksAgain
  BY <1>3 DEF GripperAsksAgain
<1>4. CASE GripperRaises
  BY <1>4 DEF GripperRaises
<1>5. CASE Send
  BY <1>5, TwistCommands DEF Send
<1>6. CASE LeaveLoop
  BY <1>6 DEF LeaveLoop
<1>7. QED
  BY <1>1, <1>2, <1>3, <1>4, <1>5, <1>6 DEF IKThread

LEMMA TickWheels ==
  ASSUME TypeOK, WheelsInv, Tick
  PROVE  WheelsInv'
<1> SUFFICES ASSUME driver = "control"
             PROVE  (wheels' = None => output' = 0) /\ (age' > CommandTimeout => wheels' = None)
  BY DEF Tick, WheelsInv
<1>1. Apply(age')
  BY DEF Tick
<1>2. CASE wheels = None
  BY <1>1, <1>2 DEF Apply, WheelsInv
<1>3. CASE wheels # None
  BY <1>1, <1>3 DEF Apply
<1>4. QED
  BY <1>2, <1>3

LEMMA NextWheels == TypeOK /\ WheelsInv /\ [Next]_vars => WheelsInv'
<1> SUFFICES ASSUME TypeOK, WheelsInv, [Next]_vars PROVE WheelsInv'
  OBVIOUS
<1> USE DEF WheelsInv, driverVars
<1>1. CASE OwnerThread
  BY <1>1, OwnerThreadWheels
<1>2. CASE IKThread
  BY <1>2, IKThreadWheels
<1>3. CASE PollState \/ SetTargets \/ DriverEnds \/ Server
  BY <1>3 DEF PollState, SetTargets, DriverEnds, Server
<1>4. CASE Tick
  BY <1>4, TickWheels
<1>5. CASE Terminated \/ UNCHANGED vars
  BY <1>5 DEF Terminated, vars
<1>6. QED
  BY <1>1, <1>2, <1>3, <1>4, <1>5 DEF Next, OwnerThread

\* No command older than the timeout turns the wheels, whichever thread sent it and whatever
\* that thread is waiting for.
THEOREM BodyWheelsStop == Spec => []WheelsStop
<1>1. WheelsInv => WheelsStop
  BY DEF WheelsInv, WheelsStop
<1>2. QED
  BY <1>1, InitTyped, NextTyped, InitWheels, NextWheels, PTL DEF Spec

-----------------------------------------------------------------------------
(* The base at rest.  Without a target the IK thread has no twist to send, *)
(* and what the reset commanded was taken back before main was running.    *)

Unasked == baseTarget = None /\ arms = "none"

RestInv ==
  /\ Unasked => twist = None
  /\ Unasked /\ main = "running" => wheels \in {0, None}

LEMMA InitRest == Init => RestInv
  BY DEF Init, RestInv

LEMMA OwnerThreadRest ==
  ASSUME TypeOK, RestInv, OwnerThread
  PROVE  RestInv'
<1> USE DEF RestInv, Unasked, targetVars, driverVars, mainVars
<1>1. CASE StartThreads
  BY <1>1 DEF StartThreads
<1>2. CASE FirstState
  BY <1>2 DEF FirstState
<1>3. CASE ResetBase
  BY <1>3 DEF ResetBase
<1>4. CASE ResetDone
  BY <1>4, TwistCommands DEF ResetDone
<1>5. CASE Stop
  BY <1>5 DEF Stop
<1>6. CASE JoinThreads
  BY <1>6 DEF JoinThreads
<1>7. CASE Stopped
  BY <1>7 DEF Stopped
<1>8. QED
  BY <1>1, <1>2, <1>3, <1>4, <1>5, <1>6, <1>7 DEF OwnerThread

LEMMA IKThreadRest ==
  ASSUME TypeOK, RestInv, IKThread
  PROVE  RestInv'
<1> USE DEF RestInv, Unasked, targetVars, driverVars, mainVars
<1>1. CASE Cycle
  BY <1>1 DEF Cycle
<1>2. CASE GripperAnswers
  BY <1>2 DEF GripperAnswers
<1>3. CASE GripperAsksAgain
  BY <1>3 DEF GripperAsksAgain
<1>4. CASE GripperRaises
  BY <1>4 DEF GripperRaises
<1>5. CASE Send
  BY <1>5 DEF Send
<1>6. CASE LeaveLoop
  BY <1>6 DEF LeaveLoop
<1>7. QED
  BY <1>1, <1>2, <1>3, <1>4, <1>5, <1>6 DEF IKThread

LEMMA NextRest == TypeOK /\ RestInv /\ [Next]_vars => RestInv'
<1> SUFFICES ASSUME TypeOK, RestInv, [Next]_vars PROVE RestInv'
  OBVIOUS
<1> USE DEF RestInv, Unasked, targetVars, driverVars, mainVars
<1>1. CASE OwnerThread
  BY <1>1, OwnerThreadRest
<1>2. CASE IKThread
  BY <1>2, IKThreadRest
<1>3. CASE SetTargets
  BY <1>3, BodyAssumption DEF SetTargets, Places, TypeOK
<1>4. CASE PollState \/ DriverEnds \/ Server
  BY <1>4 DEF PollState, DriverEnds, Server
<1>5. CASE Tick
  BY <1>5 DEF Tick, Apply
<1>6. CASE Terminated \/ UNCHANGED vars
  BY <1>6 DEF Terminated, vars
<1>7. QED
  BY <1>1, <1>2, <1>3, <1>4, <1>5, <1>6 DEF Next, OwnerThread

\* Until somebody sets a target the base stays where the reset has left it.
THEOREM BodyBaseAtRest == Spec => []BaseAtRest
<1>1. RestInv => BaseAtRest
  BY DEF RestInv, Unasked, BaseAtRest
<1>2. QED
  BY <1>1, InitTyped, NextTyped, InitRest, NextRest, PTL DEF Spec

=============================================================================
