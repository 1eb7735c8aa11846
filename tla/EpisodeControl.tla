--------------------------- MODULE EpisodeControl ---------------------------
(***************************************************************************)
(* One station recording episodes: the coordinator's input loop and        *)
(* shutdown (modpack/orchestration/coordinator.py), the EpisodeManager and *)
(* MainLogger it owns (module EpisodeManager), and the logger process with *)
(* one robologger BaseLogger per stream (loggers/base_logger.py).          *)
(*                                                                         *)
(* A logger reads its command topic with pop_data(n=0), which empties it,  *)
(* and obeys the last command only: command[l] is that last command, and   *)
(* a put replaces it.  A command never waits the 10 s after which the      *)
(* topic drops it, and a store can always be opened and written.           *)
(***************************************************************************)
EXTENDS EpisodeManager

CONSTANTS
  Loggers,     \* MainLogger.logger_endpoints
  Flaky,       \* the loggers whose status query may time out
  Crashes,     \* may the logger process die on its own?
  IoFaults,    \* may a put, a makedirs or a metadata write raise?
  Prompt,      \* have all commands been read before the next gesture is over?
  Grace        \* have they been read before the logger process is killed?

ASSUME LoggersAssumption == Flaky \subseteq Loggers
ASSUME SwitchesAssumption ==
  /\ Crashes \in BOOLEAN /\ IoFaults \in BOOLEAN
  /\ Prompt \in BOOLEAN /\ Grace \in BOOLEAN

VARIABLES
  tap,           \* the gesture on the `s` key being collected, or NoTap
  overdue,       \* its window is over and handling it raised
  quit_key,      \* a `q` waits on standard input
  local_ready,   \* what _episode_start_ready finds
  phase,         \* where the coordinator is: its loop, then its shutdown
  torn,          \* did SIGTERM fall between the assignments of is_recording
                 \* and of logging_state in a start, stop or pause (history)?
  logger_up,     \* is the logger process alive?
  command,       \* per logger: the newest command it has not read
  rec,           \* per logger: BaseLogger._is_recording
  episode_dir,   \* per logger: BaseLogger.episode_dir
  buffered,      \* per logger: does data_lists hold samples?
  saved,         \* per logger: the episodes it has written samples of
  lost           \* per logger: the episodes it has dropped samples of (history)

inputVars == <<tap, overdue, quit_key>>
storeVars == <<rec, episode_dir, buffered, saved, lost>>
loggerVars == <<logger_up, command, storeVars>>
vars == <<managerVars, mainLoggerVars, inputVars, local_ready, phase, torn, loggerVars>>

NoTap == "none"
EpisodeEvent == {"SINGLE_TAP", "DOUBLE_TAP", "TRIPLE_TAP", "LONG_PRESS"}
Phase == {"loop", "finalize", "kill", "exit", "down"}

NoCommand == [type |-> "none", dir |-> None]
StartCommand(e) == [type |-> "start", dir |-> e]
StopCommand == [type |-> "stop", dir |-> None]
PauseCommand == [type |-> "pause", dir |-> None]
ResumeCommand == [type |-> "resume", dir |-> None]
Command == {NoCommand, StopCommand, PauseCommand, ResumeCommand}
             \cup {StartCommand(e) : e \in Episode}

TypeOK ==
  /\ ManagerTypeOK
  /\ tap \in EpisodeEvent \cup {NoTap}
  /\ overdue \in BOOLEAN
  /\ quit_key \in BOOLEAN
  /\ local_ready \in BOOLEAN
  /\ phase \in Phase
  /\ torn \in BOOLEAN
  /\ logger_up \in BOOLEAN
  /\ command \in [Loggers -> Command]
  /\ rec \in [Loggers -> BOOLEAN]
  /\ episode_dir \in [Loggers -> Episode \cup {None}]
  /\ buffered \in [Loggers -> BOOLEAN]
  /\ saved \in [Loggers -> SUBSET Episode]
  /\ lost \in [Loggers -> SUBSET Episode]

\* Episodes of earlier sessions hold data.
Init ==
  /\ ManagerInit
  /\ tap = NoTap /\ overdue = FALSE /\ quit_key = FALSE
  /\ local_ready = FALSE
  /\ phase = "loop"
  /\ torn = FALSE
  /\ logger_up = TRUE
  /\ command = [l \in Loggers |-> NoCommand]
  /\ rec = [l \in Loggers |-> FALSE]
  /\ episode_dir = [l \in Loggers |-> None]
  /\ buffered = [l \in Loggers |-> FALSE]
  /\ saved = [l \in Loggers |-> dirs]
  /\ lost = [l \in Loggers |-> {}]

-----------------------------------------------------------------------------
(* The operator and the station's readiness.                              *)

Drained == \A l \in Loggers : command[l] = NoCommand

\* Bound: no recording is begun when every number is used up.
HasRoom == \E n \in Episode : IsNextEpisodeIdx(n)

\* A gesture: the presses a release window of silence will end.  Keys are read
\* in the order they are typed.
Tap(e) ==
  /\ phase = "loop" /\ tap = NoTap /\ ~quit_key
  /\ e = "SINGLE_TAP" /\ episode_state = "IDLE" => HasRoom
  /\ tap' = e
  /\ UNCHANGED <<managerVars, mainLoggerVars, overdue, quit_key, local_ready,
                 phase, torn, loggerVars>>

PressQuit ==
  /\ phase = "loop" /\ ~quit_key
  /\ quit_key' = TRUE
  /\ UNCHANGED <<managerVars, mainLoggerVars, tap, overdue, local_ready, phase,
                 torn, loggerVars>>

ReadinessChange ==
  /\ phase = "loop"
  /\ local_ready' = ~local_ready
  /\ UNCHANGED <<managerVars, mainLoggerVars, inputVars, phase, torn, loggerVars>>

-----------------------------------------------------------------------------
(* EpisodeController.handle, called when a gesture is over.                *)

\* The possible results of get_alive_loggers and validate_logger_endpoints.
Answering ==
  IF logger_up THEN {S \in SUBSET Loggers : Loggers \ Flaky \subseteq S} ELSE {{}}

Tell(told, c) ==
  command' = [l \in Loggers |-> IF l \in told THEN c ELSE command[l]]

Handling(events) ==
  /\ phase = "loop" /\ tap \in events
  /\ Prompt => Drained
  /\ UNCHANGED <<quit_key, local_ready, phase, torn, logger_up, storeVars>>

\* The pending flag is cleared only after handle has returned; until then every
\* iteration handles the gesture again.
Handled == tap' = NoTap /\ overdue' = FALSE
Raised == tap' = tap /\ overdue' = TRUE

\* start_recording tells the loggers of a recording it finds still running to
\* stop before it tells any of them to start.
TellStart(alive, told) ==
  command' = [l \in Loggers |->
                IF l \in told THEN StartCommand(episode_idx')
                ELSE IF is_recording /\ l \in alive THEN StopCommand
                ELSE command[l]]

StartHandled ==
  /\ Handling({"SINGLE_TAP"}) /\ episode_state = "IDLE" /\ local_ready
  /\ Handled
  /\ \E alive \in Answering :
       \/ alive = Loggers /\ Start("started") /\ TellStart(alive, Loggers)
       \/ alive # Loggers /\ Start("refused") /\ TellStart(alive, {})
       \/ /\ IoFaults /\ alive = Loggers
          /\ Start("no_dir") /\ TellStart(alive, {})
       \/ /\ IoFaults /\ alive = Loggers
          /\ Start("broken")
          /\ \E told \in SUBSET Loggers \ {Loggers} : TellStart(alive, told)
       \/ Start("not_allowed") /\ UNCHANGED command

StartHandlingRaises ==
  /\ Handling({"SINGLE_TAP"}) /\ episode_state = "IDLE" /\ local_ready
  /\ ~overdue
  /\ StartRaises
  /\ Raised
  /\ UNCHANGED <<managerVars, mainLoggerVars, command>>

StartBlocked ==
  /\ Handling({"SINGLE_TAP"}) /\ episode_state = "IDLE" /\ ~local_ready
  /\ Handled
  /\ UNCHANGED <<managerVars, mainLoggerVars, command>>

StopHandled ==
  /\ Handling({"SINGLE_TAP"}) /\ episode_state = "ACTIVE"
  /\ \E alive \in Answering :
       \/ Stop /\ Handled /\ Tell(IF StopsRecording THEN alive ELSE {}, StopCommand)
       \/ /\ IoFaults /\ StopFails /\ Raised
          /\ \E told \in SUBSET alive : Tell(told, StopCommand)

PauseHandled ==
  /\ Handling({"DOUBLE_TAP"}) /\ episode_state = "ACTIVE"
  /\ Handled
  /\ \E alive \in Answering : \E told \in SUBSET alive :
       /\ IoFaults \/ told = alive
       /\ Pause(told = alive /\ alive # {})
       /\ Tell(IF logging_state = "ACTIVE" THEN told ELSE {}, PauseCommand)

ResumeHandled ==
  /\ Handling({"DOUBLE_TAP"}) /\ episode_state = "PAUSED"
  /\ Handled
  /\ \E alive \in Answering : \E told \in SUBSET alive :
       /\ IoFaults \/ told = alive
       /\ Resume(told = alive /\ alive # {})
       /\ Tell(IF logging_state = "PAUSE" THEN told ELSE {}, ResumeCommand)

\* The events this state has no use for.  A triple tap only asks a robot PC.
NothingToDo ==
  \/ tap \in {"TRIPLE_TAP", "LONG_PRESS"}
  \/ tap = "DOUBLE_TAP" /\ episode_state = "IDLE"
  \/ tap = "SINGLE_TAP" /\ episode_state = "PAUSED"

GestureIgnored ==
  /\ Handling(EpisodeEvent) /\ NothingToDo
  /\ Handled
  /\ UNCHANGED <<managerVars, mainLoggerVars, command>>

\* A single tap is handled as a long press once 0.75 s have passed since it was
\* typed: what raised as a tap is ignored from then on.
RetriedTapAges ==
  /\ phase = "loop" /\ overdue /\ tap = "SINGLE_TAP"
  /\ tap' = "LONG_PRESS"
  /\ UNCHANGED <<managerVars, mainLoggerVars, overdue, quit_key, local_ready,
                 phase, torn, loggerVars>>

HandleTap ==
  \/ StartHandled \/ StartHandlingRaises \/ StartBlocked
  \/ StopHandled \/ PauseHandled \/ ResumeHandled \/ GestureIgnored

-----------------------------------------------------------------------------
(* Leaving the loop and shutting down.                                     *)

LeaveLoop ==
  /\ phase' = "finalize"
  /\ tap' = NoTap /\ overdue' = FALSE /\ quit_key' = FALSE
  /\ UNCHANGED <<managerVars, mainLoggerVars, local_ready, torn, loggerVars>>

\* `q` is acted on at once, and the gesture being collected is dropped.
ProcessQuit == phase = "loop" /\ quit_key /\ ~overdue /\ LeaveLoop

\* _process_input first tries the overdue gesture again; when that raises,
\* the key it has already read is gone.
QuitSwallowed ==
  /\ phase = "loop" /\ quit_key /\ overdue
  /\ tap = "SINGLE_TAP" /\ episode_state = "IDLE" /\ local_ready /\ StartRaises
  /\ quit_key' = FALSE
  /\ UNCHANGED <<managerVars, mainLoggerVars, tap, overdue, local_ready, phase,
                 torn, loggerVars>>

\* SIGTERM: _sigterm_handler runs the shutdown inside whatever the main thread
\* is doing, and sys.exit then ends that.  Between two gestures' handlers:
Interrupt == phase = "loop" /\ LeaveLoop

\* ... or inside one, which goes no further.
Cut(events) ==
  /\ phase = "loop" /\ tap \in events
  /\ Prompt => Drained
  /\ phase' = "finalize"
  /\ tap' = NoTap /\ overdue' = FALSE /\ quit_key' = FALSE
  /\ UNCHANGED <<local_ready, logger_up, storeVars>>

InterruptStart ==
  /\ Cut({"SINGLE_TAP"}) /\ episode_state = "IDLE" /\ local_ready
  /\ \/ StartCut("unbegun") /\ UNCHANGED <<command, torn>>
     \/ /\ Loggers \in Answering
        /\ StartCut("no_dir") /\ TellStart(Loggers, {}) /\ torn' = TRUE
     \/ /\ Loggers \in Answering
        /\ StartCut("broken") /\ torn' = TRUE
        /\ \E told \in SUBSET Loggers : TellStart(Loggers, told)

InterruptStop ==
  /\ Cut({"SINGLE_TAP"}) /\ episode_state = "ACTIVE"
  /\ \/ /\ episode_state' = "IDLE"
        /\ UNCHANGED <<episode_count, loggingVars, command, torn>>
     \/ /\ StopCut /\ torn' = TRUE
        /\ \E alive \in Answering : \E told \in SUBSET alive : Tell(told, StopCommand)

\* Some of the loggers are told; is_recording is cleared when all of them are.
InterruptPause ==
  /\ Cut({"DOUBLE_TAP"}) /\ episode_state = "ACTIVE"
  /\ \E alive \in Answering : \E told \in SUBSET alive :
       /\ Tell(IF logging_state = "ACTIVE" THEN told ELSE {}, PauseCommand)
       /\ \/ /\ episode_state' = "PAUSED"
             /\ UNCHANGED <<episode_count, loggingVars, torn>>
          \/ told = alive /\ alive # {} /\ PauseCut /\ torn' = TRUE

\* A paused episode is finalized whatever is_recording says.
InterruptResume ==
  /\ Cut({"DOUBLE_TAP"}) /\ episode_state = "PAUSED"
  /\ \E alive \in Answering : \E told \in SUBSET alive :
       /\ Tell(IF logging_state = "PAUSE" THEN told ELSE {}, ResumeCommand)
       /\ UNCHANGED torn
       /\ \/ /\ episode_state' = "ACTIVE"
             /\ UNCHANGED <<episode_count, loggingVars>>
          \/ told = alive /\ alive # {} /\ ResumeCut

InterruptHandling == InterruptStart \/ InterruptStop \/ InterruptPause \/ InterruptResume

\* Seeded fault: the shutdown as it was before it finalized the episode.
ShutdownWithoutFinalize ==
  /\ phase = "finalize"
  /\ phase' = "kill"
  /\ UNCHANGED <<managerVars, mainLoggerVars, inputVars, local_ready, torn, loggerVars>>

\* The first thing shutdown does; what it raises is caught.
ShutdownFinalize ==
  /\ phase = "finalize"
  /\ phase' = "kill"
  /\ \E alive \in Answering :
       \/ RecordingStopped /\ Tell(IF StopsRecording THEN alive ELSE {}, StopCommand)
       \/ /\ IoFaults /\ RecordingStopRaises
          /\ \E told \in SUBSET alive : Tell(told, StopCommand)
  /\ UNCHANGED <<episode_state, episode_count, inputVars, local_ready, torn,
                 logger_up, storeVars>>

\* The samples a logger process holds die with it.
LoggersGone ==
  /\ logger_up' = FALSE
  /\ rec' = [l \in Loggers |-> FALSE]
  /\ episode_dir' = [l \in Loggers |-> None]
  /\ buffered' = [l \in Loggers |-> FALSE]
  /\ lost' = [l \in Loggers |->
                IF buffered[l] THEN lost[l] \cup {episode_dir[l]} ELSE lost[l]]
  /\ command' = [l \in Loggers |-> NoCommand]
  /\ UNCHANGED saved

\* _logger_shutdown: SIGTERM, and SIGKILL when that has not helped in 5 s.
KillLoggers ==
  /\ phase = "kill"
  /\ Grace => Drained
  /\ phase' = "exit"
  /\ LoggersGone
  /\ UNCHANGED <<managerVars, mainLoggerVars, inputVars, local_ready, torn>>

\* start_system's closing _logging_handler(STOPPED), then MainLogger.on_exit.
\* Nobody is left to tell.
Exit ==
  /\ phase = "exit"
  /\ phase' = "down"
  /\ is_recording' = FALSE
  /\ \/ IoFaults /\ UNCHANGED <<logging_state, last_episode_idx>>
     \/ /\ logging_state' = IF StopsRecording THEN "STOPPED" ELSE logging_state
        /\ last_episode_idx' =
             IF StopsRecording \/ is_recording THEN episode_idx ELSE last_episode_idx
  /\ UNCHANGED <<episode_state, episode_count, episode_idx, dirs, inputVars,
                 local_ready, torn, loggerVars>>

-----------------------------------------------------------------------------
(* The logger process: BaseLogger.update_recording_state and the sampling  *)
(* that follows it in every poll.                                          *)

LoggerCrash ==
  /\ Crashes /\ logger_up /\ phase = "loop"
  /\ LoggersGone
  /\ UNCHANGED <<managerVars, mainLoggerVars, inputVars, local_ready, phase, torn>>

\* Seeded fault: a store is written whether or not there are samples.
DumpedAlways(l) == saved' = [saved EXCEPT ![l] = @ \cup {episode_dir[l]}]

\* stop_recording -> _dump_data_to_zarr, then the buffer is empty.
Dumped(l) ==
  saved' = [saved EXCEPT ![l] = IF buffered[l] THEN @ \cup {episode_dir[l]} ELSE @]

\* start_recording empties the buffer; one that is recording dumps it first.
ObeyStart(l) ==
  /\ rec' = [rec EXCEPT ![l] = TRUE]
  /\ episode_dir' = [episode_dir EXCEPT ![l] = command[l].dir]
  /\ buffered' = [buffered EXCEPT ![l] = FALSE]
  /\ \/ rec[l] /\ Dumped(l) /\ UNCHANGED lost
     \/ /\ ~rec[l]
        /\ lost' = [lost EXCEPT ![l] = IF buffered[l] THEN @ \cup {episode_dir[l]} ELSE @]
        /\ UNCHANGED saved

\* Seeded fault: a stop is ignored by a logger that is not recording.
ObeyStopIfRecording(l) ==
  IF rec[l]
  THEN /\ rec' = [rec EXCEPT ![l] = FALSE]
       /\ episode_dir' = [episode_dir EXCEPT ![l] = None]
       /\ buffered' = [buffered EXCEPT ![l] = FALSE]
       /\ Dumped(l)
       /\ UNCHANGED lost
  ELSE UNCHANGED storeVars

\* A stop finalizes the episode even when the logger is paused.
ObeyStop(l) ==
  /\ rec' = [rec EXCEPT ![l] = FALSE]
  /\ episode_dir' = [episode_dir EXCEPT ![l] = None]
  /\ buffered' = [buffered EXCEPT ![l] = FALSE]
  /\ Dumped(l)
  /\ UNCHANGED lost

ObeyPause(l) ==
  /\ rec' = [rec EXCEPT ![l] = FALSE]
  /\ UNCHANGED <<episode_dir, buffered, saved, lost>>

ObeyResume(l) ==
  /\ rec' = [rec EXCEPT ![l] = rec[l] \/ episode_dir[l] \in dirs]
  /\ UNCHANGED <<episode_dir, buffered, saved, lost>>

UpdateRecordingState(l) ==
  /\ logger_up /\ command[l] # NoCommand
  /\ command' = [command EXCEPT ![l] = NoCommand]
  /\ \/ command[l].type = "start" /\ ObeyStart(l)
     \/ command[l].type = "stop" /\ ObeyStop(l)
     \/ command[l].type = "pause" /\ ObeyPause(l)
     \/ command[l].type = "resume" /\ ObeyResume(l)
  /\ UNCHANGED <<managerVars, mainLoggerVars, inputVars, local_ready, phase, torn,
                 logger_up>>

LogSample(l) ==
  /\ logger_up /\ rec[l] /\ ~buffered[l]
  /\ buffered' = [buffered EXCEPT ![l] = TRUE]
  /\ UNCHANGED <<managerVars, mainLoggerVars, inputVars, local_ready, phase, torn,
                 logger_up, command, rec, episode_dir, saved, lost>>

-----------------------------------------------------------------------------
Off == phase = "down" /\ UNCHANGED vars

Next ==
  \/ \E e \in EpisodeEvent : Tap(e)
  \/ PressQuit \/ ReadinessChange
  \/ HandleTap \/ RetriedTapAges
  \/ ProcessQuit \/ QuitSwallowed \/ Interrupt \/ InterruptHandling
  \/ ShutdownFinalize \/ KillLoggers \/ Exit
  \/ LoggerCrash
  \/ \E l \in Loggers : UpdateRecordingState(l) \/ LogSample(l)
  \/ Off

\* The input loop runs 30 times a second and every logger polls at its own
\* frequency.  Nothing makes the operator, the environment or a sample come.
Fairness ==
  /\ WF_vars(HandleTap)
  /\ WF_vars(RetriedTapAges)
  /\ WF_vars(ProcessQuit)
  /\ WF_vars(QuitSwallowed)
  /\ WF_vars(ShutdownFinalize)
  /\ WF_vars(KillLoggers)
  /\ WF_vars(Exit)
  /\ \A l \in Loggers : WF_vars(UpdateRecordingState(l))

Spec == Init /\ [][Next]_vars
FairSpec == Spec /\ Fairness

-----------------------------------------------------------------------------
(* Properties of every environment, faults included.                       *)

\* start_recording of a logger opens the store of its directory with mode "w",
\* which erases what is there.  Whatever is lost, late or overtaken, no logger
\* ever opens a store it has already written samples to.
NeverReopened ==
  [][\A l \in Loggers : episode_dir'[l] # episode_dir[l] => episode_dir'[l] \notin saved[l]]_vars

\* MainLogger records the episode the manager is in.  The number the operator
\* reads ("EPISODE n ENDED"), and the one broadcast to a peer, is the directory
\* being recorded, unless a failed start left None.  And MainLogger never finds
\* itself recording when an episode can be started, whatever a stop before it
\* raised: the "Already recording" branch of start_recording is dead code here.
RecordingMatchesEpisode ==
  /\ is_recording /\ logging_state \in {"ACTIVE", "PAUSE"} => episode_count \in {episode_idx, None}
  /\ phase = "loop" /\ episode_state = "IDLE" /\ ~StartRaises => ~is_recording

\* Once a recording is stopped, "delete last" refers to that very recording,
\* however the starts and stops before it failed.
DeleteTargetsLastRecording ==
  phase = "loop" /\ logging_state = "STOPPED" /\ ~is_recording => last_episode_idx = episode_idx

-----------------------------------------------------------------------------
(* Properties of a station whose loggers answer and keep up.               *)

Reliable == Flaky = {} /\ ~Crashes /\ ~IoFaults /\ Prompt /\ Grace

\* Where a logger will be once it has read its newest command.
WillRecord(l) ==
  \/ command[l].type \in {"start", "resume"}
  \/ command[l].type = "none" /\ rec[l]

WillHold(l) ==
  IF command[l].type = "start" THEN command[l].dir
  ELSE IF command[l].type = "stop" THEN None
  ELSE episode_dir[l]

Recording == IF logging_state \in {"ACTIVE", "PAUSE"} THEN episode_idx ELSE None

\* Every logger is on its way to where the coordinator believes it is: in the
\* right episode, and recording exactly when the episode is not paused.  When
\* SIGTERM has ended a pause or a resume halfway, the loggers may differ in the
\* second until the shutdown has told them all to stop; when it has torn a start,
\* a stop or a pause, nothing is said of them any more.
LoggersFollow ==
  logger_up /\ ~torn => \A l \in Loggers :
    /\ phase # "finalize" => (WillRecord(l) <=> logging_state = "ACTIVE")
    /\ WillHold(l) = Recording

\* No sample a logger has taken is ever dropped, wherever `q` or the first
\* SIGTERM ends the station: in an episode, in a paused one, with a start still
\* unread, or inside a handler.  There is one exception, and the flag marks it:
\* SIGTERM between the two assignments that say an episode is recorded.  The
\* shutdown then asks for STOPPED in vain (the logging state says nothing is
\* recorded, or MainLogger does), and loggers that were not told to stop die
\* with what they hold.
NothingLost == ~torn => \A l \in Loggers : lost[l] = {}

=============================================================================
