---------------------------- MODULE PolicyStream ----------------------------
(***************************************************************************)
(* A policy server driving the RB-Y1: scripts/rby1_wbc_policy.py (poses of *)
(* the end effectors, mode "ee") and scripts/rby1_wbc_policy_joint.py      *)
(* (joint positions, mode "joint") on top of control/rby1_policy.py.       *)
(*                                                                         *)
(* Three threads share the schedule of timestamped actions: the inference  *)
(* thread replaces its future with the newest chunk the server returned,   *)
(* the command thread samples it at the controller's rate and hands the    *)
(* sample to the whole-body controller (WholeBody), and the main thread    *)
(* lets the operator approve chunks and takes everything down.             *)
(*                                                                         *)
(* Poses are places on a line.  Timestamps are kept relative to the        *)
(* present: due = 0 is now, and a Tick ages everything by one.  An entry   *)
(* of the schedule stands for what its script schedules for one moment,    *)
(* poses and gripper widths; the server's plans are in order and evenly    *)
(* spaced.  Where the scripts differ each has an action of its own.        *)
(***************************************************************************)
EXTENDS Integers, Sequences

CONSTANTS
  NoTarget,       \* None
  Targets,        \* places a plan may lead to
  Latency,        \* --arm-execution-latency
  PolicyTimeout,  \* --policy-timeout
  ChunkLength,    \* actions in a chunk
  Oldest          \* bound: timestamps further back are not told apart

ASSUME PolicyAssumption ==
  /\ NoTarget \notin Int /\ Targets \subseteq Int /\ Targets # {}
  /\ Latency \in Nat /\ PolicyTimeout \in Nat \ {0} /\ ChunkLength \in Nat \ {0}
  /\ Oldest \in Int /\ Oldest < 0

VARIABLES
  mode,       \* which of the two scripts runs: "ee" or "joint"
  debug,      \* --debug-actions (rby1_wbc_policy.py only)
  main,       \* the main thread: "starting", "running", "joining", "stopping", "exited"
  worker,     \* the inference thread
  socket,     \* the REQ socket of PolicyClient: "ready", "asked", "broken"
  waited,     \* how long the inference thread has waited for the reply
  retries,    \* requests sent for this inference (joint mode asks twice)
  anchor,     \* age of the observation the inference is about, or NoObservation
  chunk,      \* the actions between their arrival and their scheduling
  buffer,     \* the schedule: _action_buffer
  last,       \* _last_executed_action / _last_action
  sampled,    \* the command thread's payload between sampling and applying
  command     \* is the command thread alive

threads == <<main, worker, command>>
clientVars == <<socket, waited, retries, anchor>>
planVars == <<chunk, buffer>>
robotVars == <<last, sampled>>
vars == <<mode, debug, threads, clientVars, planVars, robotVars>>

NoObservation == -1

Lesser(a, b) == IF a < b THEN a ELSE b
Between(a, b) == Lesser(a, b) .. a + b - Lesser(a, b)
Aged(a) == [a EXCEPT !.due = IF @ > Oldest THEN @ - 1 ELSE @]
AgedAll(s) == [i \in 1 .. Len(s) |-> Aged(s[i])]

Stopping == main \notin {"starting", "running"}
Finished == main = "exited" /\ worker \in {"none", "done", "dead"}

Init ==
  /\ mode \in {"ee", "joint"}
  /\ debug \in {b \in BOOLEAN : b => mode = "ee"}
  /\ main = "starting" /\ worker = "none" /\ command = (mode = "ee")
  /\ socket = "ready" /\ waited = 0 /\ retries = 0 /\ anchor = NoObservation
  /\ chunk = <<>> /\ buffer = <<>>
  /\ last = NoTarget /\ sampled = NoTarget

-----------------------------------------------------------------------------
(* The main thread's start: observations, the server's keys, the threads.  *)

\* The end-effector script's command thread has run since the robot was started; the joint
\* script starts its own last, after the operator has let it move to the first pose.
ReadyEE ==
  /\ mode = "ee" /\ main = "starting"
  /\ main' = "running" /\ worker' = "observe"
  /\ UNCHANGED <<mode, debug, command, clientVars, planVars, robotVars>>

ReadyJoint ==
  /\ mode = "joint" /\ main = "starting"
  /\ main' = "running" /\ worker' = "observe" /\ command' = TRUE
  /\ UNCHANGED <<mode, debug, clientVars, planVars, robotVars>>

\* No observation in time, or no answer about the observation keys: the end-effector
\* script's second send on the same socket raises.
StartFailsEE ==
  /\ mode = "ee" /\ main = "starting"
  /\ main' = "joining"
  /\ UNCHANGED <<mode, debug, worker, command, clientVars, planVars, robotVars>>

\* The joint script reconnects, and gives up after three attempts.
StartFailsJoint ==
  /\ mode = "joint" /\ main = "starting"
  /\ main' = "joining"
  /\ UNCHANGED <<mode, debug, worker, command, clientVars, planVars, robotVars>>

-----------------------------------------------------------------------------
(* The inference thread.                                                   *)

\* The observation is as old as the newest frame of any camera.  A camera that stops
\* delivering keeps its last frames in its window, so it may have any age; a plan made from
\* one older than the plan is long lies in the past altogether.
FrameAges == 0 .. ChunkLength

\* One cycle starts.  When there are no frames, the end-effector script goes on with the
\* robot observation of an earlier cycle; in a first cycle there is none, and the thread
\* dies of an unbound variable.  A pose that cannot be aligned ends the cycle.
ObserveEE ==
  /\ mode = "ee" /\ worker = "observe"
  /\ \/ anchor' \in FrameAges /\ worker' = "send"
     \/ anchor' = anchor /\ worker' = "wait"
     \/ anchor' = anchor /\ worker' = IF anchor = NoObservation THEN "dead" ELSE "send"
  /\ retries' = 0
  /\ UNCHANGED <<mode, debug, main, command, socket, waited, planVars, robotVars>>

\* Without frames the joint script observes the joints at the present.  Joints, torques or
\* a controller that is missing end the cycle.
ObserveJoint ==
  /\ mode = "joint" /\ worker = "observe"
  /\ \/ anchor' \in FrameAges /\ worker' = "send"
     \/ anchor' = anchor /\ worker' = "wait"
  /\ retries' = 0
  /\ UNCHANGED <<mode, debug, main, command, socket, waited, planVars, robotVars>>

\* A REQ socket that got no reply refuses the next send.  The end-effector script's client
\* keeps that socket for ever and returns None.
SendEE ==
  /\ mode = "ee" /\ worker = "send"
  /\ IF socket = "broken"
       THEN worker' = "wait" /\ UNCHANGED <<socket, retries>>
       ELSE worker' = "infer" /\ socket' = "asked" /\ retries' = retries + 1
  /\ waited' = 0
  /\ UNCHANGED <<mode, debug, main, command, anchor, planVars, robotVars>>

SendJoint ==
  /\ mode = "joint" /\ worker = "send"
  /\ worker' = "infer" /\ socket' = "asked" /\ retries' = retries + 1
  /\ waited' = 0
  /\ UNCHANGED <<mode, debug, main, command, anchor, planVars, robotVars>>

TimedOutEE ==
  /\ mode = "ee" /\ worker = "infer" /\ waited = PolicyTimeout
  /\ socket' = "broken" /\ worker' = "wait"
  /\ waited' = 0
  /\ UNCHANGED <<mode, debug, main, command, retries, anchor, planVars, robotVars>>

\* Seeded fault: one attempt too many.
TimedOutAgain ==
  /\ mode = "joint" /\ worker = "infer" /\ waited = PolicyTimeout
  /\ socket' = "ready" /\ worker' = IF retries < 3 THEN "send" ELSE "wait"
  /\ waited' = 0
  /\ UNCHANGED <<mode, debug, main, command, retries, anchor, planVars, robotVars>>

\* The joint script's client opens another socket and asks once more.
TimedOutJoint ==
  /\ mode = "joint" /\ worker = "infer" /\ waited = PolicyTimeout
  /\ socket' = "ready" /\ worker' = IF retries < 2 THEN "send" ELSE "wait"
  /\ waited' = 0
  /\ UNCHANGED <<mode, debug, main, command, retries, anchor, planVars, robotVars>>

\* The leading entries of s that are due before d, and what is left of s when the
\* trailing entries due at d or later are popped.
Leading(s, d) ==
  CHOOSE k \in 0 .. Len(s) :
    (\A i \in 1 .. k : s[i].due < d) /\ (k < Len(s) => s[k + 1].due >= d)

UpTo(s, d) ==
  SubSeq(s, 1, CHOOSE k \in 0 .. Len(s) :
                 (\A i \in k + 1 .. Len(s) : s[i].due >= d) /\ (k > 0 => s[k].due < d))

\* The server's plan: actions one tick apart from the observation on, all to one place.
Planned(place) ==
  [i \in 1 .. ChunkLength |->
    [due |-> i - anchor, target |-> place]]

\* Actions the robot can no longer execute on time.
Stale(plan) == Leading(plan, Latency + 1)

\* Seeded fault: an action exactly at the latency's end is kept, and then moved to now.
ExecutableJust(plan) ==
  LET skipped == Leading(plan, Latency)
      kept == SubSeq(plan, skipped + 1, Len(plan))
  IN IF skipped > 0
       THEN [i \in 1 .. Len(kept) |-> [kept[i] EXCEPT !.due = @ - Latency]]
       ELSE kept

\* When there are stale actions, the end-effector script drops them and moves the others
\* ahead by the latency.
ExecutableEE(plan) ==
  LET skipped == Stale(plan)
      kept == SubSeq(plan, skipped + 1, Len(plan))
  IN IF skipped > 0
       THEN [i \in 1 .. Len(kept) |-> [kept[i] EXCEPT !.due = @ - Latency]]
       ELSE kept

\* The joint script drops them.
ExecutableJoint(plan) == SubSeq(plan, Stale(plan) + 1, Len(plan))

\* A reply without actions, and one whose actions are all stale, end the cycle.
ReplyEE ==
  /\ mode = "ee" /\ worker = "infer"
  /\ chunk' \in {<<>>} \cup {ExecutableEE(Planned(place)) : place \in Targets}
  /\ socket' = "ready" /\ waited' = 0 /\ retries' = 0
  /\ worker' = IF chunk' = <<>> THEN "wait" ELSE IF debug THEN "approval" ELSE "queue"
  /\ UNCHANGED <<mode, debug, main, command, anchor, buffer, robotVars>>

ReplyJoint ==
  /\ mode = "joint" /\ worker = "infer"
  /\ chunk' \in {<<>>} \cup {ExecutableJoint(Planned(place)) : place \in Targets}
  /\ socket' = "ready" /\ waited' = 0 /\ retries' = 0 /\ anchor' = NoObservation
  /\ worker' = IF chunk' = <<>> THEN "wait" ELSE "queue"
  /\ UNCHANGED <<mode, debug, main, command, buffer, robotVars>>

\* The operator looks at the chunk; the thread waits for the answer, or until the program
\* stops, which rejects what is pending.
Approve ==
  /\ main = "running" /\ worker = "approval"
  /\ worker' = "queue"
  /\ UNCHANGED <<mode, debug, main, command, clientVars, planVars, robotVars>>

\* Seeded fault: the wait for the operator does not look at the stop event.
RejectAsked ==
  /\ main = "running" /\ worker = "approval"
  /\ worker' = "wait" /\ chunk' = <<>>
  /\ UNCHANGED <<mode, debug, main, command, clientVars, buffer, robotVars>>

Reject ==
  /\ worker = "approval"
  /\ worker' = "wait" /\ chunk' = <<>>
  /\ UNCHANGED <<mode, debug, main, command, clientVars, buffer, robotVars>>

\* The newest plan replaces the schedule s from its first action on, and entries of the
\* past go, all but the newest k of them.
ReplacedKeeping(s, plan, k) ==
  LET before == UpTo(s, Head(plan).due)
      past == Leading(before, 0)
      dropped == IF past > k THEN past - k ELSE 0
  IN SubSeq(before, dropped + 1, Len(before)) \o plan

\* Seeded fault: the new plan is appended to the old one.
ReplacedNothing ==
  /\ mode = "ee" /\ worker = "queue"
  /\ buffer' = SubSeq(buffer, Leading(buffer, 0) + 1, Len(buffer)) \o chunk
  /\ chunk' = <<>> /\ worker' = "wait"
  /\ UNCHANGED <<mode, debug, main, command, clientVars, robotVars>>

QueueActionsEE ==
  /\ mode = "ee" /\ worker = "queue"
  /\ buffer' = ReplacedKeeping(buffer, chunk, 0)
  /\ chunk' = <<>> /\ worker' = "wait"
  /\ UNCHANGED <<mode, debug, main, command, clientVars, robotVars>>

\* The joint script keeps the newest entry of the past, to have something to dispatch.
QueueActionsJoint ==
  /\ mode = "joint" /\ worker = "queue"
  /\ buffer' = ReplacedKeeping(buffer, chunk, 1)
  /\ chunk' = <<>> /\ worker' = "wait"
  /\ UNCHANGED <<mode, debug, main, command, clientVars, robotVars>>

\* The pause between two cycles, which the stop event ends.
NextCycle ==
  /\ worker = "wait"
  /\ worker' = IF Stopping THEN "done" ELSE "observe"
  /\ UNCHANGED <<mode, debug, main, command, clientVars, planVars, robotVars>>

-----------------------------------------------------------------------------
(* The command thread.                                                     *)

\* The newest action that is due, and the first that is not.
Due(s) == Leading(s, 1)
Previous(s) == IF Due(s) > 0 THEN s[Due(s)].target ELSE NoTarget
Future(s) == IF Due(s) < Len(s) THEN s[Due(s) + 1].target ELSE NoTarget

\* The end-effector script goes from what it last executed towards the next action, and
\* straight to that action when it has executed nothing.
PayloadsEE ==
  LET prev == IF last # NoTarget THEN last ELSE Previous(buffer)
  IN IF prev = NoTarget THEN {Future(buffer)}
     ELSE IF Future(buffer) = NoTarget THEN {prev}
     ELSE Between(prev, Future(buffer))

\* The joint script repeats the newest action that is due.
PayloadsJoint == {IF Previous(buffer) # NoTarget THEN Previous(buffer) ELSE last}

SampleEE ==
  /\ mode = "ee" /\ command /\ main # "stopping" /\ sampled = NoTarget
  /\ sampled' \in PayloadsEE \ {NoTarget}
  /\ UNCHANGED <<mode, debug, threads, clientVars, planVars, last>>

SampleJoint ==
  /\ mode = "joint" /\ command /\ main # "stopping" /\ sampled = NoTarget
  /\ sampled' \in PayloadsJoint \ {NoTarget}
  /\ UNCHANGED <<mode, debug, threads, clientVars, planVars, last>>

\* The command thread records the payload as executed, whatever becomes of it.
ApplyEE ==
  /\ mode = "ee" /\ sampled # NoTarget
  /\ last' = sampled /\ sampled' = NoTarget
  /\ UNCHANGED <<mode, debug, threads, clientVars, planVars>>

ApplyJoint ==
  /\ mode = "joint" /\ sampled # NoTarget
  /\ last' = sampled /\ sampled' = NoTarget
  /\ UNCHANGED <<mode, debug, threads, clientVars, planVars>>

-----------------------------------------------------------------------------
(* The main thread's end.                                                  *)

\* Interrupted, or the inference thread has died.
LeaveEE ==
  /\ mode = "ee" /\ main = "running"
  /\ main' = "joining"
  /\ UNCHANGED <<mode, debug, worker, command, clientVars, planVars, robotVars>>

LeaveJoint ==
  /\ mode = "joint" /\ main = "running"
  /\ main' = "joining"
  /\ UNCHANGED <<mode, debug, worker, command, clientVars, planVars, robotVars>>

\* The join ends with the inference thread, or gives up on it after a second, whatever it
\* is doing.
JoinEE ==
  /\ mode = "ee" /\ main = "joining"
  /\ main' = "stopping"
  /\ UNCHANGED <<mode, debug, worker, command, clientVars, planVars, robotVars>>

\* The joint script waits for longer than one policy timeout and less than two; its client
\* asks twice.
JoinJoint ==
  /\ mode = "joint" /\ main = "joining"
  /\ worker \in {"none", "done", "dead"} \/ (worker = "infer" /\ retries = 2)
  /\ main' = "stopping"
  /\ UNCHANGED <<mode, debug, worker, command, clientVars, planVars, robotVars>>

\* Seeded fault: the command thread is not joined.
StopRobotOnly ==
  /\ mode = "ee" /\ main = "stopping" /\ main' = "exited"
  /\ UNCHANGED <<mode, debug, worker, command, clientVars, planVars, robotVars>>

\* The command thread's join lasts longer than what is left of its last period.  The
\* end-effector schedule belongs to the robot object, which flushes it.
StopRobot ==
  /\ mode = "ee" /\ main = "stopping" /\ sampled = NoTarget
  /\ main' = "exited" /\ command' = FALSE
  /\ buffer' = <<>> /\ last' = NoTarget
  /\ UNCHANGED <<mode, debug, worker, clientVars, chunk, sampled>>

\* The joint schedule belongs to the command thread, and stays.
StopJoint ==
  /\ mode = "joint" /\ main = "stopping" /\ sampled = NoTarget
  /\ main' = "exited" /\ command' = FALSE
  /\ UNCHANGED <<mode, debug, worker, clientVars, planVars, robotVars>>

-----------------------------------------------------------------------------
(* Time passes.  A reply is waited for no longer than its timeout, the     *)
(* operator takes any time, and the other steps of a thread take none.     *)
Patient ==
  /\ worker \notin {"observe", "send", "queue"} /\ sampled = NoTarget
  /\ worker = "infer" => waited < PolicyTimeout

Tick ==
  /\ Patient /\ ~Finished
  /\ buffer' = AgedAll(buffer) /\ chunk' = AgedAll(chunk)
  /\ anchor' = IF anchor = NoObservation THEN anchor ELSE Lesser(anchor + 1, ChunkLength)
  /\ waited' = IF worker = "infer" THEN waited + 1 ELSE waited
  /\ UNCHANGED <<mode, debug, threads, socket, retries, robotVars>>

Terminated == Finished /\ UNCHANGED vars

Observe == ObserveEE \/ ObserveJoint
Send == SendEE \/ SendJoint
TimedOut == TimedOutEE \/ TimedOutJoint
Reply == ReplyEE \/ ReplyJoint
QueueActions == QueueActionsEE \/ QueueActionsJoint
Start == ReadyEE \/ ReadyJoint \/ StartFailsEE \/ StartFailsJoint
Leave == LeaveEE \/ LeaveJoint
Finish == JoinEE \/ JoinJoint \/ StopRobot \/ StopJoint

InferenceThread ==
  Observe \/ Send \/ TimedOut \/ Reply \/ QueueActions \/ NextCycle
CommandThread == SampleEE \/ SampleJoint \/ ApplyEE \/ ApplyJoint

Next ==
  \/ InferenceThread \/ CommandThread
  \/ Start \/ Leave \/ Finish \/ Approve \/ Reject \/ Tick \/ Terminated

Spec == Init /\ [][Next]_vars

\* Threads run and time passes; neither the server nor the operator has to answer.
FairSpec ==
  /\ Spec /\ SF_vars(Tick) /\ WF_vars(ApplyEE \/ ApplyJoint)
  /\ WF_vars(Observe \/ Send \/ TimedOut \/ QueueActions \/ NextCycle \/ (Stopping /\ Reject))
  /\ WF_vars(Finish)

-----------------------------------------------------------------------------
(* Properties.                                                             *)

Action == [due : Int, target : Targets]

\* Every variable holds what the code's fields can hold.
TypeOK ==
  /\ mode \in {"ee", "joint"} /\ debug \in BOOLEAN /\ command \in BOOLEAN
  /\ main \in {"starting", "running", "joining", "stopping", "exited"}
  /\ worker \in {"none", "observe", "send", "infer", "approval", "queue", "wait", "done", "dead"}
  /\ socket \in {"ready", "asked", "broken"}
  /\ waited \in 0 .. PolicyTimeout /\ retries \in 0 .. 2
  /\ anchor \in {NoObservation} \cup 0 .. ChunkLength
  /\ chunk \in Seq(Action) /\ buffer \in Seq(Action)
  /\ {last, sampled} \subseteq Int \cup {NoTarget}

\* The command thread stops at the first action that is not due, and a new plan removes the
\* old one by popping from the end: both need the schedule sorted by time, or an action of
\* a replaced plan is executed after the new plan has begun
\* (rby1_policy.py, _select_actions and queue_actions).
ScheduleInOrder ==
  \A i, j \in 1 .. Len(buffer) :
    i < j => buffer[i].due < buffer[j].due \/ buffer[i].due = Oldest

\* No action reaches the schedule after the moment it is for, whatever the age of the
\* observation the plan was made from and the time the server took - unless an operator
\* had to approve it first.
FutureWhenQueued ==
  worker = "queue" /\ ~debug => \A i \in 1 .. Len(chunk) : chunk[i].due > 0

\* Once the main thread has stopped the robot nothing is executed any more, though the
\* inference thread may still be waiting for the server and then queue its reply.
QuietAfterExit == [][main = "exited" => UNCHANGED last]_vars

\* Leaving ends, for the main thread and for the inference thread, which its join may have
\* given up on: neither the server nor an approval that nobody will give any more keeps it.
LeavingEnds == main = "joining" ~> Finished

=============================================================================
