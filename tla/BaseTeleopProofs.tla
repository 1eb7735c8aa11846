-------------------------- MODULE BaseTeleopProofs --------------------------
(***************************************************************************)
(* Proofs about BaseTeleop, for every Timeout of the watchdog.             *)
(***************************************************************************)
EXTENDS BaseTeleop, TLAPS

-----------------------------------------------------------------------------
(* Sequences of steps.                                                     *)

Spares(steps) == \A i \in 1 .. Len(steps) : steps[i] \notin {"arm", "check"}
Disarms(steps) == \E i \in 1 .. Len(steps) : steps[i] = "disarm"

LEMMA StepsAreSteps ==
  /\ \A c \in Commands : Steps(c) \in Seq(StepNames)
  /\ Halt \in Seq(StepNames)
  /\ Renew \o <<"arm", "return">> \in Seq(StepNames)
  /\ <<"hold", "disarm", "cleared">> \in Seq(StepNames)
  BY DEF Steps, Halt, Renew, Commands, StepNames

\* A handler that stops the base disarms it, and does not arm it again.
LEMMA HaltDisarms == Spares(Halt) /\ Disarms(Halt)
<1>1. Halt = <<"hold", "disarm", "return">> /\ Len(Halt) = 3
  BY DEF Halt
<1>2. Halt[1] = "hold" /\ Halt[2] = "disarm" /\ Halt[3] = "return"
  BY DEF Halt
<1>3. \A i \in 1 .. 3 : i = 1 \/ i = 2 \/ i = 3
  OBVIOUS
<1>4. QED
  BY <1>1, <1>2, <1>3 DEF Spares, Disarms

\* One step is taken.
LEMMA StepTaken ==
  ASSUME NEW t \in Seq(StepNames), t # <<>>
  PROVE  /\ Head(t) \in StepNames /\ Tail(t) \in Seq(StepNames)
         /\ Spares(t) => Head(t) \notin {"arm", "check"} /\ Spares(Tail(t))
         /\ Disarms(t) /\ Head(t) # "disarm" => Disarms(Tail(t))
<1>1. Len(t) \in Nat \ {0} /\ Len(Tail(t)) = Len(t) - 1 /\ Head(t) = t[1]
  OBVIOUS
<1>2. \A i \in 1 .. Len(Tail(t)) : Tail(t)[i] = t[i + 1] /\ i + 1 \in 1 .. Len(t)
  BY <1>1
<1>3. Head(t) \in StepNames /\ Tail(t) \in Seq(StepNames)
  BY <1>1
<1>4. Spares(t) => Head(t) \notin {"arm", "check"} /\ Spares(Tail(t))
  BY <1>1, <1>2 DEF Spares
<1>5. ASSUME Disarms(t), Head(t) # "disarm"
      PROVE  Disarms(Tail(t))
  <2>1. PICK i \in 1 .. Len(t) : t[i] = "disarm"
    BY <1>5 DEF Disarms
  <2>2. i # 1
    BY <1>1, <1>5, <2>1
  <2>3. i - 1 \in 1 .. Len(Tail(t)) /\ Tail(t)[i - 1] = t[i]
    BY <1>1, <1>2, <2>2
  <2>4. QED
    BY <2>1, <2>3 DEF Disarms
<1>6. QED
  BY <1>3, <1>4, <1>5

\* Some steps come before others.
LEMMA StepsBefore ==
  ASSUME NEW h \in Seq(StepNames), NEW t \in Seq(StepNames)
  PROVE  /\ h \o t \in Seq(StepNames)
         /\ Disarms(h) => Disarms(h \o t)
         /\ Spares(h) /\ Spares(t) => Spares(h \o t)
<1>1. h \o t \in Seq(StepNames) /\ Len(h \o t) = Len(h) + Len(t)
      /\ Len(h) \in Nat /\ Len(t) \in Nat
  OBVIOUS
<1>2. \A i \in 1 .. Len(h) : (h \o t)[i] = h[i]
  OBVIOUS
<1>3. \A i \in Len(h) + 1 .. Len(h) + Len(t) :
        (h \o t)[i] = t[i - Len(h)] /\ i - Len(h) \in 1 .. Len(t)
  BY <1>1
<1>4. Disarms(h) => Disarms(h \o t)
  BY <1>1, <1>2 DEF Disarms
<1>5. ASSUME Spares(h), Spares(t), NEW i \in 1 .. Len(h \o t)
      PROVE  (h \o t)[i] \notin {"arm", "check"}
  <2>1. CASE i \in 1 .. Len(h)
    BY <1>2, <1>5, <2>1 DEF Spares
  <2>2. CASE i \in Len(h) + 1 .. Len(h) + Len(t)
    BY <1>3, <1>5, <2>2 DEF Spares
  <2>3. QED
    BY <1>1, <2>1, <2>2
<1>6. QED
  BY <1>1, <1>4, <1>5 DEF Spares

\* The steps of the signal handler come before the others.
LEMMA SignalFirst ==
  ASSUME NEW t \in Seq(StepNames)
  PROVE  LET s == <<"hold", "disarm", "cleared">> \o t
         IN s \in Seq(StepNames) /\ Disarms(s) /\ (Spares(t) => Spares(s))
<1> DEFINE h == <<"hold", "disarm", "cleared">>
<1>1. h \in Seq(StepNames)
  BY StepsAreSteps
<1>2. Len(h) = 3 /\ h[1] = "hold" /\ h[2] = "disarm" /\ h[3] = "cleared"
  OBVIOUS
<1>3. \A i \in 1 .. 3 : i = 1 \/ i = 2 \/ i = 3
  OBVIOUS
<1>4. Spares(h) /\ Disarms(h)
  BY <1>2, <1>3 DEF Spares, Disarms
<1>5. QED
  BY <1>1, <1>4, StepsBefore

-----------------------------------------------------------------------------
(* Type correctness.                                                       *)

LEMMA InitTyped == Init => TypeOK
<1> SUFFICES ASSUME Init PROVE TypeOK
  OBVIOUS
<1>1. since \in 0 .. Timeout + 1 /\ quiet \in 0 .. Timeout + 2
  BY TimeoutAssumption DEF Init
<1>2. todo \in Seq(StepNames)
  BY DEF Init
<1>3. {running, activated, enabled, armed, loop} \subseteq BOOLEAN /\ news \in BOOLEAN
  BY DEF Init
<1>4. QED
  BY <1>1, <1>2, <1>3 DEF Init, TypeOK, Commands, Motions

\* A handler's step leaves a sequence of steps behind.
LEMMA StepTyped ==
  ASSUME TypeOK, NEW s, Step(s)
  PROVE  todo' \in Seq(StepNames)
  BY StepTaken DEF TypeOK, Step

LEMMA MainThreadTyped ==
  ASSUME TypeOK, MainThread
  PROVE  TypeOK'
<1> USE TimeoutAssumption DEF TypeOK, messageVars, processVars, vehicleVars, mainVars
<1>1. CASE Poll
  BY <1>1, StepsAreSteps DEF Poll
<1>2. CASE Recorded
  BY <1>2 DEF Recorded
<1>3. CASE Check
  BY <1>3, StepsAreSteps, StepTaken DEF Check
<1>4. CASE Hold
  BY <1>4, StepTyped DEF Hold, Enqueue
<1>5. CASE Arming
  BY <1>5, StepTyped DEF Arming
<1>6. CASE StopLoop
  BY <1>6, StepTyped DEF StopLoop
<1>7. CASE NewVehicle
  BY <1>7, StepTyped DEF NewVehicle, Motions
<1>8. CASE Return
  BY <1>8, StepTyped DEF Return
<1>9. CASE LeaveLoop
  BY <1>9 DEF LeaveLoop
<1>10. CASE Close
  BY <1>10 DEF Close
<1>11. QED
  BY <1>1, <1>2, <1>3, <1>4, <1>5, <1>6, <1>7, <1>8, <1>9, <1>10 DEF MainThread

LEMMA NextTyped == TypeOK /\ [Next]_vars => TypeOK'
<1> SUFFICES ASSUME TypeOK, [Next]_vars PROVE TypeOK'
  OBVIOUS
<1> USE TimeoutAssumption DEF TypeOK, messageVars, processVars, vehicleVars, mainVars
<1>1. CASE Publish
  BY <1>1 DEF Publish
<1>2. CASE MainThread
  BY <1>2, MainThreadTyped
<1>3. CASE Fails
  <2>1. <<>> \in Seq(StepNames)
    OBVIOUS
  <2>2. QED
    BY <1>3, <2>1, StepsAreSteps DEF Fails
<1>4. CASE Signal
  BY <1>4, SignalFirst DEF Signal
<1>5. CASE Round
  BY <1>5 DEF Round
<1>6. CASE Drive
  BY <1>6 DEF Drive
<1>7. CASE Admit
  BY <1>7 DEF Admit
<1>8. CASE Target
  BY <1>8 DEF Target, Enqueue
<1>9. CASE Tick
  BY <1>9 DEF Tick, Cycle, Lesser, Motions
<1>10. CASE UNCHANGED vars
  BY <1>10 DEF vars
<1>11. QED
  BY <1>1, <1>2, <1>3, <1>4, <1>5, <1>6, <1>7, <1>8, <1>9, <1>10 DEF Next

\* Every reachable state is well typed, however long the watchdog waits: the timers stay
\* within their caps and a handler's steps are steps of the handlers.
THEOREM BaseTypeCorrect == Spec => []TypeOK
  BY InitTyped, NextTyped, PTL DEF Spec

-----------------------------------------------------------------------------
(* The wheels.  A moving base has had a command within Timeout, and that   *)
(* command was queued when the teleoperation thread could last drive: at   *)
(* most one tick more lies between that moment and the present.            *)

MayDrive ==
  /\ running /\ activated => quiet = 0
  /\ teleop = "round" /\ activated => quiet = 0
  /\ teleop \in {"call", "checked"} => quiet = 0

Driven ==
  /\ queue = "drive" /\ loop => quiet = 0
  /\ motion = "moving" => since <= Timeout /\ quiet <= since + 1

MovingInv == MayDrive /\ Driven

LEMMA InitMoving == Init => MovingInv
  BY DEF Init, MovingInv, MayDrive, Driven

LEMMA MainThreadMoving ==
  ASSUME TypeOK, MovingInv, MainThread
  PROVE  MovingInv'
<1> USE TimeoutAssumption
    DEF TypeOK, MovingInv, MayDrive, Driven, messageVars, processVars, vehicleVars, mainVars
<1>1. CASE Poll
  BY <1>1 DEF Poll, Halting
<1>2. CASE Recorded
  BY <1>2 DEF Recorded
<1>3. CASE Check
  BY <1>3 DEF Check
<1>4. CASE Hold
  BY <1>4 DEF Hold, Enqueue
<1>5. CASE Arming
  BY <1>5 DEF Arming
<1>6. CASE StopLoop
  BY <1>6 DEF StopLoop
<1>7. CASE NewVehicle
  BY <1>7 DEF NewVehicle
<1>8. CASE Return
  BY <1>8 DEF Return
<1>9. CASE LeaveLoop
  BY <1>9 DEF LeaveLoop
<1>10. CASE Close
  <2>1. loop' => loop
    BY <1>10 DEF Close
  <2>2. QED
    BY <1>10, <2>1 DEF Close
<1>11. QED
  BY <1>1, <1>2, <1>3, <1>4, <1>5, <1>6, <1>7, <1>8, <1>9, <1>10 DEF MainThread

LEMMA TickMoving ==
  ASSUME TypeOK, MovingInv, Tick
  PROVE  MovingInv'
<1> USE TimeoutAssumption
    DEF TypeOK, MovingInv, MayDrive, Driven, messageVars, processVars, mainVars, Tick, Lesser
<1>1. MayDrive'
  OBVIOUS
<1>2. CASE ~loop
  BY <1>1, <1>2
<1>3. CASE loop /\ queue = "none"
  BY <1>1, <1>3 DEF Cycle
<1>4. CASE loop /\ queue # "none"
  BY <1>1, <1>4 DEF Cycle
<1>5. QED
  BY <1>2, <1>3, <1>4

LEMMA NextMoving == TypeOK /\ MovingInv /\ [Next]_vars => MovingInv'
<1> SUFFICES ASSUME TypeOK, MovingInv, [Next]_vars PROVE MovingInv'
  OBVIOUS
<1> USE DEF TypeOK, MovingInv, MayDrive, Driven, messageVars, processVars, vehicleVars,
            mainVars
<1>1. CASE Publish
  BY <1>1 DEF Publish
<1>2. CASE MainThread
  BY <1>2, MainThreadMoving
<1>3. CASE Fails
  BY <1>3 DEF Fails
<1>4. CASE Signal
  BY <1>4 DEF Signal
<1>5. CASE Round
  BY <1>5 DEF Round
<1>6. CASE Drive
  BY <1>6 DEF Drive
<1>7. CASE Admit
  BY <1>7 DEF Admit
<1>8. CASE Target
  BY <1>8 DEF Target, Enqueue
<1>9. CASE Tick
  BY <1>9, TickMoving
<1>10. CASE UNCHANGED vars
  BY <1>10 DEF vars
<1>11. QED
  BY <1>1, <1>2, <1>3, <1>4, <1>5, <1>6, <1>7, <1>8, <1>9, <1>10 DEF Next

\* The wheels come to rest within a tick of the watchdog's time of the last moment the
\* teleoperation thread could drive, whatever stopped it and whatever it had under way.
THEOREM BaseDisarmedStops == Spec => []DisarmedStops
<1>1. TypeOK /\ MovingInv => DisarmedStops
  BY TimeoutAssumption DEF TypeOK, MovingInv, Driven, DisarmedStops
<1>2. QED
  BY <1>1, InitTyped, NextTyped, InitMoving, NextMoving, PTL DEF Spec

-----------------------------------------------------------------------------
(* The stop.  While its handler is at work the base is disarmed or the     *)
(* step that disarms it is still to come; a step that would arm the base   *)
(* is not.  A handler that fails leaves the message to the next poll.      *)

StopInv ==
  /\ handling = "newest" => news
  /\ handling = "newest" /\ topic \in Stops => Spares(todo) /\ (Disarms(todo) \/ ~armed)
  /\ topic \in Stops /\ ~news => Spares(todo) /\ ~armed

LEMMA InitStop == Init => StopInv
  BY DEF Init, StopInv, Stops

LEMMA MainThreadStop ==
  ASSUME TypeOK, StopInv, MainThread
  PROVE  StopInv'
<1> USE DEF TypeOK, StopInv, messageVars, processVars, vehicleVars, mainVars
<1>1. CASE Poll
  <2>1. topic \in Stops => Steps(topic) = Halt
    BY DEF Stops, Steps
  <2>2. QED
    BY <1>1, <2>1, HaltDisarms DEF Poll
<1>2. CASE Recorded
  BY <1>2 DEF Recorded, Disarms, Spares
<1>3. CASE Check
  BY <1>3, StepTaken DEF Check
<1>4. CASE Hold
  BY <1>4, StepTaken DEF Hold, Step
<1>5. CASE Arming
  BY <1>5, StepTaken DEF Arming, Step
<1>6. CASE StopLoop
  BY <1>6, StepTaken DEF StopLoop, Step
<1>7. CASE NewVehicle
  BY <1>7, StepTaken DEF NewVehicle, Step
<1>8. CASE Return
  BY <1>8, StepTaken DEF Return, Step
<1>9. CASE LeaveLoop
  BY <1>9 DEF LeaveLoop
<1>10. CASE Close
  BY <1>10 DEF Close
<1>11. QED
  BY <1>1, <1>2, <1>3, <1>4, <1>5, <1>6, <1>7, <1>8, <1>9, <1>10 DEF MainThread

LEMMA NextStop == TypeOK /\ StopInv /\ [Next]_vars => StopInv'
<1> SUFFICES ASSUME TypeOK, StopInv, [Next]_vars PROVE StopInv'
  OBVIOUS
<1> USE DEF TypeOK, StopInv, messageVars, processVars, vehicleVars, mainVars
<1>1. CASE Publish
  BY <1>1 DEF Publish
<1>2. CASE MainThread
  BY <1>2, MainThreadStop
<1>3. CASE Fails
  <2>1. Spares(<<>>)
    BY DEF Spares
  <2>2. QED
    BY <1>3, <2>1, HaltDisarms DEF Fails
<1>4. CASE Signal
  BY <1>4, SignalFirst DEF Signal
<1>5. CASE Round \/ Drive \/ Admit \/ Target
  BY <1>5 DEF Round, Drive, Admit, Target
<1>6. CASE Tick
  BY <1>6 DEF Tick
<1>7. CASE UNCHANGED vars
  BY <1>7 DEF vars
<1>8. QED
  BY <1>1, <1>2, <1>3, <1>4, <1>5, <1>6, <1>7 DEF Next

\* A stop counts as handled only once the base is disarmed, whichever of its calls raise
\* and whatever interrupts its handler, and the base stays disarmed while it is the newest.
THEOREM BaseRecordedStopDisarms == Spec => []RecordedStopDisarms
<1>1. StopInv => RecordedStopDisarms
  BY DEF StopInv, RecordedStopDisarms
<1>2. QED
  BY <1>1, InitTyped, NextTyped, InitStop, NextStop, PTL DEF Spec

=============================================================================
