----------------------------- MODULE BaseTeleop -----------------------------
(***************************************************************************)
(* The mobile base on the robot PC.  The base process                      *)
(* (modules/base/base_process.py) polls the activation topic in its main   *)
(* thread and drives in its teleoperation thread; both call the Base       *)
(* object of a second process (robots/arx5/base/base_server.py), where the *)
(* Vehicle's control loop runs (robots/arx5/base/base_controller.py).      *)
(*                                                                         *)
(* The topic keeps the newest message only, so a message is the command    *)
(* and whether its signature is the recorded one.  A handler is the        *)
(* sequence of its remaining steps: a call may raise between any two.  The *)
(* poses are not modelled: a command drives, or holds the present pose.    *)
(* Time passes in ticks of the control loop; Timeout of them are           *)
(* 2.5 POLICY_CONTROL_PERIOD.                                              *)
(***************************************************************************)
EXTENDS Naturals, Sequences

CONSTANT Timeout

ASSUME TimeoutAssumption == Timeout \in Nat \ {0}

VARIABLES
  topic,      \* the newest command on ACTIVATION
  news,       \* is its signature another than _last_activation_signature?
  handling,   \* the message in the handler: "no", the "newest", or an "older" one
  todo,       \* the steps the main thread has left in it and in the signal handler
  main,       \* the main thread: "loop", "closing", "exiting"
  running,
  activated,
  enabled,    \* teleop_enabled
  teleop,     \* the teleoperation thread: "idle", a "round" of its loop, "call" of
              \* execute_action, "checked" there
  armed,      \* Base.activated
  queue,      \* the vehicle's command queue of one: "none", "drive", "hold"
  loop,       \* control_loop_running
  motion,     \* "neutral", "holding", "moving"
  since,      \* time since last_command_time
  quiet       \* time since the teleoperation thread could last drive, for DisarmedStops

messageVars == <<topic, news>>
processVars == <<running, activated, enabled>>
vehicleVars == <<queue, loop, motion, since>>
mainVars == <<handling, todo, main>>
vars == <<messageVars, mainVars, processVars, teleop, armed, vehicleVars, quiet>>

Commands ==
  {"activate", "deactivate", "emergency_stop", "start_episode", "end_episode",
   "pause_episode", "resume_episode", "reset", "shutdown"}
Motions == {"neutral", "holding", "moving"}
Lesser(a, b) == IF a < b THEN a ELSE b

Init ==
  /\ topic = "shutdown" /\ news = FALSE /\ handling = "no" /\ todo = <<>>
  /\ main = "loop" /\ running = TRUE /\ activated = FALSE /\ enabled = FALSE
  /\ teleop = "idle" /\ armed = FALSE
  /\ queue = "none" /\ loop = TRUE /\ motion = "neutral" /\ since = 0 /\ quiet = 0

-----------------------------------------------------------------------------
(* The activation topic.                                                   *)

Publish ==
  /\ topic' \in Commands /\ news' = TRUE
  /\ handling' = IF handling = "newest" THEN "older" ELSE handling
  /\ UNCHANGED <<todo, main, processVars, teleop, armed, vehicleVars, quiet>>

\* The handlers: the flags they set before they call the base, and their steps.
Halting == {"deactivate", "emergency_stop", "reset"}
Enabling == {"start_episode", "end_episode", "resume_episode"}
Disabling == {"deactivate", "pause_episode", "reset"}

Halt == <<"hold", "disarm", "return">>
Renew == <<"stop", "renew">>
Steps(command) ==
  CASE command = "activate" -> <<"arm", "return">>
    [] command \in {"deactivate", "emergency_stop"} -> Halt
    [] command = "start_episode" -> <<"check">>
    [] command = "reset" -> Append(Renew, "reset")
    [] OTHER -> <<>>

Poll ==
  /\ main = "loop" /\ running /\ handling = "no" /\ todo = <<>> /\ news
  /\ handling' = "newest" /\ todo' = Steps(topic)
  /\ activated' = ((activated \/ topic = "activate") /\ topic \notin Halting)
  /\ enabled' = ((enabled \/ topic \in Enabling) /\ topic \notin Disabling)
  /\ running' = (topic # "shutdown")
  /\ quiet' = IF running' /\ activated' THEN 0 ELSE quiet
  /\ UNCHANGED <<messageVars, main, teleop, armed, vehicleVars>>

\* The handler returned: the signature is recorded, unless a newer message has another.
Recorded ==
  /\ main = "loop" /\ handling # "no" /\ todo = <<>>
  /\ news' = (handling = "older") /\ handling' = "no"
  /\ UNCHANGED <<topic, todo, main, processVars, teleop, armed, vehicleVars, quiet>>

-----------------------------------------------------------------------------
(* The steps of the main thread's handlers, most of them in the server.    *)

Step(s) == main = "loop" /\ todo # <<>> /\ Head(todo) = s /\ todo' = Tail(todo)

\* start_episode arms a base that is not activated, after a reset.
Check ==
  /\ main = "loop" /\ todo # <<>> /\ Head(todo) = "check"
  /\ activated' = TRUE
  /\ todo' = IF activated THEN Tail(todo) ELSE Renew \o <<"arm", "return">>
  /\ quiet' = 0
  /\ UNCHANGED <<messageVars, handling, main, running, enabled, teleop, armed, vehicleVars>>

\* A command for a full queue is dropped.
Enqueue(c) == queue' = IF queue = "none" THEN c ELSE queue

Hold ==
  /\ Step("hold") /\ Enqueue("hold")
  /\ UNCHANGED <<messageVars, handling, main, processVars, teleop, armed, loop, motion, since, quiet>>

Arming ==
  /\ \/ Step("disarm") /\ armed' = FALSE
     \/ Step("arm") /\ armed' = TRUE
  /\ UNCHANGED <<messageVars, handling, main, processVars, teleop, vehicleVars, quiet>>

StopLoop ==
  /\ Step("stop") /\ loop' = FALSE
  /\ UNCHANGED <<messageVars, handling, main, processVars, teleop, armed, queue, motion, since, quiet>>

\* A new Vehicle, whose loop starts with its motors disabled.
NewVehicle ==
  /\ Step("renew")
  /\ queue' = "none" /\ loop' = TRUE /\ motion' = "neutral" /\ since' = 0
  /\ UNCHANGED <<messageVars, handling, main, processVars, teleop, armed, quiet>>

\* The caller has its answer; at "cleared" the signal handler sets the flag after its call.
Return ==
  /\ \/ (Step("return") \/ Step("reset")) /\ UNCHANGED activated
     \/ Step("cleared") /\ activated' = FALSE
  /\ UNCHANGED <<messageVars, handling, main, running, enabled, teleop, armed, vehicleVars, quiet>>

\* Seeded fault: the signature is recorded before the handler runs.
FailsRecorded ==
  /\ main = "loop" /\ todo # <<>> /\ Head(todo) # "check"
  /\ news' = (handling = "older") /\ todo' = <<>> /\ handling' = "no"
  /\ UNCHANGED <<topic, main, processVars, teleop, armed, vehicleVars, quiet>>

\* A call raises.  The reset command then deactivates the base; from any other handler the
\* exception reaches activation_loop, which records nothing and polls again.
Fails ==
  /\ main = "loop" /\ todo # <<>> /\ Head(todo) # "check"
  /\ IF todo[Len(todo)] = "reset"
       THEN todo' = Halt /\ UNCHANGED handling
       ELSE todo' = <<>> /\ handling' = "no"
  /\ UNCHANGED <<messageVars, main, processVars, teleop, armed, vehicleVars, quiet>>

\* Ctrl+Z or SIGTERM, once: the handler runs in the main thread, wherever that is.
Signal ==
  /\ main = "loop" /\ running
  /\ running' = FALSE /\ todo' = <<"hold", "disarm", "cleared">> \o todo
  /\ UNCHANGED <<messageVars, handling, main, activated, enabled, teleop, armed, vehicleVars, quiet>>

LeaveLoop ==
  /\ main = "loop" /\ ~running /\ handling = "no" /\ todo = <<>>
  /\ main' = "closing"
  /\ UNCHANGED <<messageVars, handling, todo, processVars, teleop, armed, vehicleVars, quiet>>

\* The call may raise.  The server process has inherited the process's signal handlers:
\* terminate() does not end it.
Close ==
  /\ main = "closing"
  /\ main' = "exiting" /\ loop' \in {FALSE, loop}
  /\ UNCHANGED <<messageVars, handling, todo, processVars, teleop, armed, queue, motion, since, quiet>>

-----------------------------------------------------------------------------
(* The teleoperation thread.                                               *)

Round ==
  /\ teleop = "idle" /\ running
  /\ teleop' = "round"
  /\ UNCHANGED <<messageVars, mainVars, processVars, armed, vehicleVars, quiet>>

\* It does not look again whether the process is running.  There may be no target.
Drive ==
  /\ teleop = "round"
  /\ teleop' \in IF activated /\ enabled THEN {"call", "idle"} ELSE {"idle"}
  /\ UNCHANGED <<messageVars, mainVars, processVars, armed, vehicleVars, quiet>>

\* In the server: the flag is read first, then the target is queued.  The call may raise.
Admit ==
  /\ teleop = "call"
  /\ teleop' \in IF armed THEN {"checked", "idle"} ELSE {"idle"}
  /\ UNCHANGED <<messageVars, mainVars, processVars, armed, vehicleVars, quiet>>

Target ==
  /\ teleop = "checked"
  /\ teleop' = "idle" /\ Enqueue("drive")
  /\ UNCHANGED <<messageVars, mainVars, processVars, armed, loop, motion, since, quiet>>

-----------------------------------------------------------------------------
(* The control loop.  A loop that has ended feeds the devices no longer:   *)
(* they go neutral by themselves.                                          *)

\* Seeded fault: a command does not refresh last_command_time.
CycleForgetful ==
  /\ queue' = "none" /\ since' = since + 1
  /\ motion' = IF since' > Timeout THEN "neutral" ELSE motion

\* Seeded fault: no watchdog.
CycleTrusting ==
  /\ queue' = "none" /\ since' = IF queue = "none" THEN Lesser(since + 1, Timeout + 1) ELSE 0
  /\ motion' = CASE queue = "drive" -> "moving" [] queue = "hold" -> "holding"
                 [] OTHER -> motion

Cycle ==
  /\ queue' = "none"
  /\ since' = IF queue = "none" THEN Lesser(since + 1, Timeout + 1) ELSE 0
  /\ motion' = IF since' > Timeout THEN "neutral"
               ELSE CASE queue = "drive" -> "moving" [] queue = "hold" -> "holding"
                      [] OTHER -> motion

\* A round of the teleoperation thread takes less than a tick.
Tick ==
  /\ teleop = "idle"
  /\ IF loop THEN Cycle ELSE motion' = "neutral" /\ UNCHANGED <<queue, since>>
  /\ quiet' = IF running /\ activated THEN 0 ELSE Lesser(quiet + 1, Timeout + 2)
  /\ UNCHANGED <<messageVars, mainVars, processVars, teleop, armed, loop>>

MainThread ==
  \/ Poll \/ Recorded \/ Check \/ Hold \/ Arming \/ StopLoop \/ NewVehicle \/ Return
  \/ LeaveLoop \/ Close

Next ==
  \/ Publish \/ MainThread \/ Fails \/ Signal
  \/ Round \/ Drive \/ Admit \/ Target \/ Tick

Spec == Init /\ [][Next]_vars

-----------------------------------------------------------------------------
(* Properties.                                                             *)

StepNames ==
  {"check", "hold", "disarm", "arm", "stop", "renew", "reset", "return", "cleared"}

TypeOK ==
  /\ topic \in Commands /\ news \in BOOLEAN /\ handling \in {"no", "newest", "older"}
  /\ todo \in Seq(StepNames)
  /\ main \in {"loop", "closing", "exiting"}
  /\ {running, activated, enabled, armed, loop} \subseteq BOOLEAN
  /\ teleop \in {"idle", "round", "call", "checked"}
  /\ queue \in {"none", "drive", "hold"} /\ motion \in Motions
  /\ since \in 0 .. Timeout + 1 /\ quiet \in 0 .. Timeout + 2

\* The wheels come to rest when the process stops being activated or running, whichever
\* way it does and whatever the teleoperation thread had under way: a target that slips
\* in behind the stop, or a stop that found the queue full, is outlived by the watchdog.
DisarmedStops == quiet = Timeout + 2 => motion # "moving"

\* A stop is not recorded as handled before the base is disarmed, whatever call of it raised
\* and whatever signal interrupted it: the poll comes back to it (activation_loop).
Stops == {"deactivate", "emergency_stop"}
RecordedStopDisarms == topic \in Stops /\ ~news => ~armed

=============================================================================
