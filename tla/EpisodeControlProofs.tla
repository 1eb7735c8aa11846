------------------------ MODULE EpisodeControlProofs ------------------------
(***************************************************************************)
(* Proofs about EpisodeControl, for every set of loggers, every number of  *)
(* episodes and every setting of the fault switches.                       *)
(***************************************************************************)
EXTENDS EpisodeRefinement, TLAPS

-----------------------------------------------------------------------------
(* Type correctness.  A logger with samples, or recording, is in an        *)
(* episode: without that, a dump could save samples of no episode.         *)

HoldsEpisode == \A l \in Loggers : rec[l] \/ buffered[l] => episode_dir[l] # None

TypeInv == TypeOK /\ HoldsEpisode

LEMMA EpisodeIsNat == Episode \subseteq Nat /\ None \notin Episode
  BY MaxEpisodesAssumption DEF Episode, None

LEMMA StateValues ==
  /\ "IDLE" \in SystemState /\ "ACTIVE" \in SystemState /\ "PAUSED" \in SystemState
  /\ "IDLE" \in LoggingState /\ "ACTIVE" \in LoggingState
  /\ "PAUSE" \in LoggingState /\ "STOPPED" \in LoggingState
  BY DEF SystemState, LoggingState

LEMMA CommandValues ==
  /\ NoCommand \in Command /\ StopCommand \in Command
  /\ PauseCommand \in Command /\ ResumeCommand \in Command
  /\ \A e \in Episode : StartCommand(e) \in Command
  BY DEF Command

\* A command is for a directory exactly when it is a start.
LEMMA CommandDir ==
  ASSUME NEW c \in Command
  PROVE  /\ c.type = "start" => c.dir \in Episode
         /\ c.type # "start" => c.dir = None
         /\ c.type = "none" <=> c = NoCommand
  BY DEF Command, NoCommand, StopCommand, PauseCommand, ResumeCommand, StartCommand

\* What a method of EpisodeManager leaves behind is well typed.
LEMMA ManagerStarts ==
  ASSUME ManagerTypeOK, NEW outcome, Start(outcome)
  PROVE  /\ ManagerTypeOK'
         /\ outcome \in {"started", "no_dir", "broken"} => episode_idx' \in Episode
  BY EpisodeIsNat, StateValues
  DEF ManagerTypeOK, Start, ActiveRequested, RecordingStarted, RecordingRefused, RecordingBroken,
      RecordingNotAllowed, LastAfterImplicitStop, loggingVars, None

LEMMA ManagerStops ==
  ASSUME ManagerTypeOK,
         RecordingStopped \/ RecordingStopRaises,
         episode_state' \in SystemState, UNCHANGED episode_count
  PROVE  ManagerTypeOK'
  BY StateValues DEF ManagerTypeOK, RecordingStopped, RecordingStopRaises, loggingVars

LEMMA ManagerPauses ==
  ASSUME ManagerTypeOK, NEW told \in BOOLEAN, Pause(told) \/ Resume(told)
  PROVE  ManagerTypeOK'
  BY StateValues DEF ManagerTypeOK, Pause, Resume, RecordingPaused, RecordingResumed,
                     mainLoggerVars, loggingVars

LEMMA ManagerStartsCut ==
  ASSUME ManagerTypeOK, NEW outcome, StartCut(outcome)
  PROVE  /\ ManagerTypeOK'
         /\ outcome \in {"started", "no_dir", "broken"} => episode_idx' \in Episode
<1>1. episode_state' \in SystemState /\ episode_count' \in Nat \cup {None}
  BY StateValues DEF ManagerTypeOK, StartCut, StartRaises
<1>2. /\ logging_state' \in LoggingState /\ is_recording' \in BOOLEAN
      /\ episode_idx' \in Episode \cup {None} /\ last_episode_idx' \in Episode \cup {None}
      /\ dirs' \in SUBSET Episode
      /\ outcome \in {"started", "no_dir", "broken"} => episode_idx' \in Episode
  <2>1. CASE outcome = "unbegun" /\ UNCHANGED loggingVars
    BY <2>1 DEF ManagerTypeOK, loggingVars
  <2>2. CASE ActiveRequested(outcome)
    BY <2>2, StateValues
    DEF ManagerTypeOK, ActiveRequested, RecordingStarted, RecordingRefused, RecordingBroken,
        RecordingNotAllowed, LastAfterImplicitStop, loggingVars
  <2> QED BY <2>1, <2>2 DEF StartCut
<1> QED BY <1>1, <1>2 DEF ManagerTypeOK

LEMMA ManagerCut ==
  ASSUME ManagerTypeOK,
         \/ StopCut \/ PauseCut \/ ResumeCut
         \/ episode_state' \in SystemState /\ UNCHANGED <<episode_count, loggingVars>>
  PROVE  ManagerTypeOK'
  BY StateValues
  DEF ManagerTypeOK, StopCut, RecordingStopCut, PauseCut, ResumeCut, loggingVars

\* Commands put to some of the loggers.
LEMMA TellTyped ==
  ASSUME command \in [Loggers -> Command], NEW c \in Command, NEW told, Tell(told, c)
  PROVE  command' \in [Loggers -> Command]
  BY DEF Tell

LEMMA TellStartTyped ==
  ASSUME command \in [Loggers -> Command], NEW alive, NEW told,
         told = {} \/ episode_idx' \in Episode, TellStart(alive, told)
  PROVE  command' \in [Loggers -> Command]
  BY CommandValues DEF TellStart

LEMMA TypeInit == Init => TypeInv
<1> SUFFICES ASSUME Init PROVE TypeInv
  OBVIOUS
<1>1. ManagerTypeOK
  BY StateValues DEF Init, ManagerInit, ManagerTypeOK
<1>2. saved \in [Loggers -> SUBSET Episode]
  BY DEF Init, ManagerInit
<1>3. HoldsEpisode
  BY DEF Init, HoldsEpisode
<1> QED
  BY <1>1, <1>2, <1>3, CommandValues DEF Init, TypeInv, TypeOK, Phase

LEMMA TypeHandling ==
  ASSUME TypeInv, HandleTap
  PROVE  TypeInv'
<1> USE DEF TypeInv, TypeOK, HoldsEpisode, Handling, Handled, Raised, storeVars
<1>1. CASE StartHandled
  <2>1. PICK alive, outcome, told :
          /\ Start(outcome)
          /\ \/ UNCHANGED command
             \/ TellStart(alive, told)
          /\ told = {} \/ outcome \in {"started", "no_dir", "broken"}
    BY <1>1 DEF StartHandled
  <2>2. ManagerTypeOK' /\ command' \in [Loggers -> Command]
    BY <2>1, ManagerStarts, TellStartTyped
  <2> QED BY <1>1, <2>2 DEF StartHandled
<1>2. CASE StartHandlingRaises
  BY <1>2 DEF StartHandlingRaises, managerVars, mainLoggerVars, ManagerTypeOK
<1>3. CASE StartBlocked
  BY <1>3 DEF StartBlocked, managerVars, mainLoggerVars, ManagerTypeOK
<1>4. CASE StopHandled
  <2>1. ManagerTypeOK'
    BY <1>4, ManagerStops, StateValues DEF StopHandled, Stop, StopFails
  <2>2. command' \in [Loggers -> Command]
    BY <1>4, TellTyped, CommandValues DEF StopHandled
  <2> QED BY <1>4, <2>1, <2>2 DEF StopHandled
<1>5. CASE PauseHandled
  <2>1. ManagerTypeOK'
    BY <1>5, ManagerPauses DEF PauseHandled
  <2>2. command' \in [Loggers -> Command]
    BY <1>5, TellTyped, CommandValues DEF PauseHandled
  <2> QED BY <1>5, <2>1, <2>2 DEF PauseHandled
<1>6. CASE ResumeHandled
  <2>1. ManagerTypeOK'
    BY <1>6, ManagerPauses DEF ResumeHandled
  <2>2. command' \in [Loggers -> Command]
    BY <1>6, TellTyped, CommandValues DEF ResumeHandled
  <2> QED BY <1>6, <2>1, <2>2 DEF ResumeHandled
<1>7. CASE GestureIgnored
  BY <1>7 DEF GestureIgnored, managerVars, mainLoggerVars, ManagerTypeOK
<1> QED BY <1>1, <1>2, <1>3, <1>4, <1>5, <1>6, <1>7 DEF HandleTap

LEMMA TypePolling ==
  ASSUME TypeInv, NEW l \in Loggers, UpdateRecordingState(l) \/ LogSample(l)
  PROVE  TypeInv'
<1> USE DEF TypeInv, TypeOK, HoldsEpisode, managerVars, mainLoggerVars, inputVars
<1>1. CASE LogSample(l)
  BY <1>1 DEF LogSample, ManagerTypeOK
<1>2. CASE UpdateRecordingState(l)
  <2>1. ManagerTypeOK'
    BY <1>2 DEF UpdateRecordingState, ManagerTypeOK
  <2>2. command' \in [Loggers -> Command]
    BY <1>2, CommandValues DEF UpdateRecordingState
  <2>3. command[l] \in Command
    OBVIOUS
  <2>4. CASE command[l].type = "start" /\ ObeyStart(l)
    BY <1>2, <2>1, <2>2, <2>3, <2>4, CommandDir, EpisodeIsNat
    DEF UpdateRecordingState, ObeyStart, Dumped
  <2>5. CASE ObeyStop(l)
    BY <1>2, <2>1, <2>2, <2>5 DEF UpdateRecordingState, ObeyStop, Dumped
  <2>6. CASE ObeyPause(l)
    BY <1>2, <2>1, <2>2, <2>6 DEF UpdateRecordingState, ObeyPause
  <2>7. CASE ObeyResume(l)
    BY <1>2, <2>1, <2>2, <2>7, EpisodeIsNat
    DEF UpdateRecordingState, ObeyResume, ManagerTypeOK
  <2> QED BY <1>2, <2>4, <2>5, <2>6, <2>7 DEF UpdateRecordingState
<1> QED BY <1>1, <1>2

LEMMA TypeShutdown ==
  ASSUME TypeInv,
         \/ ProcessQuit \/ QuitSwallowed \/ Interrupt
         \/ ShutdownFinalize \/ KillLoggers \/ Exit \/ LoggerCrash
  PROVE  TypeInv'
<1> USE DEF TypeInv, TypeOK, HoldsEpisode, managerVars, mainLoggerVars, inputVars,
            loggerVars, storeVars, Phase, NoTap
<1>1. CASE ProcessQuit \/ Interrupt
  BY <1>1 DEF ProcessQuit, Interrupt, LeaveLoop, ManagerTypeOK
<1>2. CASE QuitSwallowed
  BY <1>2 DEF QuitSwallowed, ManagerTypeOK
<1>3. CASE ShutdownFinalize
  <2>1. ManagerTypeOK'
    BY <1>3, ManagerStops DEF ShutdownFinalize, ManagerTypeOK
  <2>2. command' \in [Loggers -> Command]
    BY <1>3, TellTyped, CommandValues DEF ShutdownFinalize
  <2> QED BY <1>3, <2>1, <2>2 DEF ShutdownFinalize
<1>4. ASSUME LoggersGone
      PROVE  /\ logger_up' \in BOOLEAN
             /\ command' \in [Loggers -> Command]
             /\ rec' \in [Loggers -> BOOLEAN]
             /\ episode_dir' \in [Loggers -> Episode \cup {None}]
             /\ buffered' \in [Loggers -> BOOLEAN]
             /\ saved' \in [Loggers -> SUBSET Episode]
             /\ lost' \in [Loggers -> SUBSET Episode]
             /\ HoldsEpisode'
  BY <1>4, CommandValues DEF LoggersGone
<1>5. CASE KillLoggers
  BY <1>4, <1>5 DEF KillLoggers, ManagerTypeOK
<1>6. CASE LoggerCrash
  BY <1>4, <1>6 DEF LoggerCrash, ManagerTypeOK
<1>7. CASE Exit
  <2>1. logging_state' \in LoggingState /\ last_episode_idx' \in Episode \cup {None}
    BY <1>7, StateValues DEF Exit, ManagerTypeOK
  <2>2. QED
    BY <1>7, <2>1 DEF Exit, ManagerTypeOK
<1> QED BY <1>1, <1>2, <1>3, <1>5, <1>6, <1>7

LEMMA TypeInterrupt ==
  ASSUME TypeInv, InterruptHandling
  PROVE  TypeInv'
<1> USE DEF TypeInv, TypeOK, HoldsEpisode, Cut, storeVars, Phase, NoTap
<1>1. CASE InterruptStart
  <2>1. PICK outcome, told :
          /\ StartCut(outcome)
          /\ \/ UNCHANGED command
             \/ TellStart(Loggers, told)
          /\ told = {} \/ outcome \in {"started", "no_dir", "broken"}
    BY <1>1 DEF InterruptStart
  <2>2. ManagerTypeOK' /\ command' \in [Loggers -> Command]
    BY <2>1, ManagerStartsCut, TellStartTyped
  <2> QED BY <1>1, <2>2 DEF InterruptStart
<1>2. CASE InterruptStop \/ InterruptPause \/ InterruptResume
  <2>1. ManagerTypeOK'
    BY <1>2, ManagerCut, StateValues DEF InterruptStop, InterruptPause, InterruptResume
  <2>2. command' \in [Loggers -> Command]
    BY <1>2, TellTyped, CommandValues DEF InterruptStop, InterruptPause, InterruptResume
  <2> QED BY <1>2, <2>1, <2>2 DEF InterruptStop, InterruptPause, InterruptResume
<1> QED BY <1>1, <1>2 DEF InterruptHandling

LEMMA TypeStep == TypeInv /\ [Next]_vars => TypeInv'
<1> SUFFICES ASSUME TypeInv, [Next]_vars PROVE TypeInv'
  OBVIOUS
<1> USE DEF TypeInv, TypeOK, HoldsEpisode, managerVars, mainLoggerVars, inputVars,
            loggerVars, storeVars
<1>1. ASSUME NEW e \in EpisodeEvent, Tap(e) PROVE TypeInv'
  BY <1>1 DEF Tap, ManagerTypeOK
<1>2. CASE PressQuit \/ ReadinessChange
  BY <1>2 DEF PressQuit, ReadinessChange, ManagerTypeOK
<1>3. CASE UNCHANGED vars
  BY <1>3 DEF vars, ManagerTypeOK
<1>4. CASE RetriedTapAges
  BY <1>4 DEF RetriedTapAges, ManagerTypeOK, EpisodeEvent
<1> QED
  BY <1>1, <1>2, <1>3, <1>4, TypeHandling, TypePolling, TypeShutdown, TypeInterrupt
  DEF Next, Off

\* Every reachable state is well typed: whatever fails, the counts, indices and
\* commands of the coordinator and the loggers keep their meaning.
THEOREM TypeCorrect == Spec => []TypeOK
<1>1. TypeInv => TypeOK
  BY DEF TypeInv
<1> QED BY <1>1, TypeInit, TypeStep, PTL DEF Spec

-----------------------------------------------------------------------------
(* No store is opened twice.  Every index below the next one may hold      *)
(* data; the next one cannot, and a start that is still unread keeps it so *)
(* because nothing else is written to the episode it names.                *)

FreshInv ==
  \A l \in Loggers :
    /\ saved[l] \subseteq dirs
    /\ episode_dir[l] # None => episode_dir[l] \in dirs \ saved[l]
    /\ command[l].type = "start" =>
         command[l].dir \in dirs \ saved[l] /\ command[l].dir # episode_dir[l]

\* The number a recording gets is in no directory's name yet.
LEMMA NextEpisodeIdxIsNew ==
  ASSUME ManagerTypeOK, NEW n \in Episode, IsNextEpisodeIdx(n)
  PROVE  n \notin dirs
  BY EpisodeIsNat DEF IsNextEpisodeIdx, ManagerTypeOK

\* A start adds at most the directory it names to the loggers, and that is new.
LEMMA StartIsFresh ==
  ASSUME ManagerTypeOK, NEW outcome, Start(outcome)
  PROVE  /\ dirs \subseteq dirs'
         /\ outcome \in {"started", "broken"} => episode_idx' \in dirs' \ dirs
  BY NextEpisodeIdxIsNew
  DEF Start, ActiveRequested, RecordingStarted, RecordingRefused, RecordingBroken,
      RecordingNotAllowed, loggingVars, ManagerTypeOK

LEMMA FreshInit == Init => FreshInv
  BY DEF Init, ManagerInit, FreshInv, NoCommand

LEMMA StartCutIsFresh ==
  ASSUME ManagerTypeOK, NEW outcome, StartCut(outcome)
  PROVE  /\ dirs \subseteq dirs'
         /\ outcome \in {"started", "broken"} => episode_idx' \in dirs' \ dirs
  BY NextEpisodeIdxIsNew
  DEF StartCut, ActiveRequested, RecordingStarted, RecordingRefused, RecordingBroken,
      RecordingNotAllowed, loggingVars, ManagerTypeOK

\* A start, finished or not, that tells some loggers of a new directory.
LEMMA FreshStarts ==
  ASSUME TypeInv, FreshInv, NEW alive, NEW told,
         UNCHANGED command \/ TellStart(alive, told),
         dirs \subseteq dirs', dirs' \subseteq Episode,
         told = {} \/ episode_idx' \in dirs' \ dirs,
         UNCHANGED <<saved, episode_dir>>
  PROVE  FreshInv'
<1> USE DEF FreshInv, TypeInv, TypeOK
<1>1. ASSUME NEW l \in Loggers, command'[l].type = "start", command'[l] # command[l]
      PROVE  command'[l].dir \in dirs' \ dirs
  BY <1>1 DEF TellStart, StartCommand, StopCommand
<1> SUFFICES ASSUME NEW l \in Loggers
    PROVE  /\ saved[l] \subseteq dirs'
           /\ episode_dir[l] # None => episode_dir[l] \in dirs' \ saved[l]
           /\ command'[l].type = "start" =>
                command'[l].dir \in dirs' \ saved[l] /\ command'[l].dir # episode_dir[l]
  OBVIOUS
<1>2. CASE command'[l] = command[l]
  BY <1>2
<1>3. CASE command'[l] # command[l]
  BY <1>1, <1>3, EpisodeIsNat
<1> QED BY <1>2, <1>3

\* Handling a gesture leaves the stores alone: what it tells a logger matters.
LEMMA FreshHandling ==
  ASSUME TypeInv, FreshInv, HandleTap
  PROVE  FreshInv'
<1> USE DEF FreshInv, Handling, storeVars, TypeInv, TypeOK
<1>1. CASE StartHandled
  <2>1. PICK alive, outcome, told :
          /\ Start(outcome)
          /\ UNCHANGED command \/ TellStart(alive, told)
          /\ told = {} \/ outcome \in {"started", "broken"}
    BY <1>1 DEF StartHandled
  <2>2. dirs \subseteq dirs' /\ (told = {} \/ episode_idx' \in dirs' \ dirs)
    BY <2>1, StartIsFresh
  <2>3. dirs' \subseteq Episode
    BY <2>1, ManagerStarts DEF ManagerTypeOK
  <2>4. UNCHANGED <<saved, episode_dir>>
    BY <1>1 DEF StartHandled
  <2> QED BY <2>1, <2>2, <2>3, <2>4, FreshStarts
<1>2. CASE ~StartHandled
  <2>1. dirs' = dirs
    BY <1>2 DEF HandleTap, StartHandlingRaises, StartBlocked, StopHandled, PauseHandled,
       ResumeHandled, GestureIgnored, Stop, StopFails, RecordingStopped,
       RecordingStopRaises, Pause, Resume, RecordingPaused, RecordingResumed,
       mainLoggerVars, loggingVars
  <2>2. UNCHANGED <<saved, episode_dir>>
    BY <1>2 DEF HandleTap, StartHandlingRaises, StartBlocked, StopHandled, PauseHandled,
       ResumeHandled, GestureIgnored
  <2>3. \A l \in Loggers : command'[l] = command[l] \/ command'[l].type # "start"
    BY <1>2 DEF HandleTap, StartHandlingRaises, StartBlocked, StopHandled, PauseHandled,
       ResumeHandled, GestureIgnored, Tell, StopCommand, PauseCommand, ResumeCommand
  <2> QED BY <2>1, <2>2, <2>3
<1> QED BY <1>1, <1>2

LEMMA FreshPolling ==
  ASSUME TypeInv, FreshInv, NEW l \in Loggers, UpdateRecordingState(l) \/ LogSample(l)
  PROVE  FreshInv'
<1> USE DEF TypeInv, TypeOK, HoldsEpisode, FreshInv, mainLoggerVars
<1>1. CASE LogSample(l)
  BY <1>1 DEF LogSample
<1>2. CASE UpdateRecordingState(l)
  <2>1. UNCHANGED dirs /\ command' = [command EXCEPT ![l] = NoCommand]
    BY <1>2 DEF UpdateRecordingState
  <2>2. CASE command[l].type = "start" /\ ObeyStart(l)
    BY <2>1, <2>2, EpisodeIsNat DEF ObeyStart, Dumped, NoCommand
  <2>3. CASE ObeyStop(l)
    BY <2>1, <2>3 DEF ObeyStop, Dumped, NoCommand
  <2>4. CASE ObeyPause(l)
    BY <2>1, <2>4 DEF ObeyPause, NoCommand
  <2>5. CASE ObeyResume(l)
    BY <2>1, <2>5 DEF ObeyResume, NoCommand
  <2> QED BY <1>2, <2>2, <2>3, <2>4, <2>5 DEF UpdateRecordingState
<1> QED BY <1>1, <1>2

LEMMA FreshShutdown ==
  ASSUME TypeInv, FreshInv,
         \/ ProcessQuit \/ QuitSwallowed \/ Interrupt
         \/ ShutdownFinalize \/ KillLoggers \/ Exit \/ LoggerCrash
  PROVE  FreshInv'
<1> USE DEF FreshInv, mainLoggerVars, loggerVars, storeVars
<1>1. CASE ProcessQuit \/ QuitSwallowed \/ Interrupt
  BY <1>1 DEF ProcessQuit, QuitSwallowed, Interrupt, LeaveLoop
<1>2. CASE ShutdownFinalize
  <2>1. UNCHANGED <<dirs, saved, episode_dir>>
    BY <1>2 DEF ShutdownFinalize, RecordingStopped, RecordingStopRaises, loggingVars
  <2>2. \A l \in Loggers : command'[l] = command[l] \/ command'[l].type # "start"
    BY <1>2 DEF ShutdownFinalize, Tell, StopCommand
  <2> QED BY <2>1, <2>2
<1>3. CASE KillLoggers \/ LoggerCrash
  BY <1>3 DEF KillLoggers, LoggerCrash, LoggersGone, NoCommand
<1>4. CASE Exit
  BY <1>4 DEF Exit
<1> QED BY <1>1, <1>2, <1>3, <1>4

LEMMA FreshInterrupt ==
  ASSUME TypeInv, FreshInv, InterruptHandling
  PROVE  FreshInv'
<1> USE DEF Cut, storeVars
<1>1. CASE InterruptStart
  <2>1. PICK outcome, told :
          /\ StartCut(outcome)
          /\ UNCHANGED command \/ TellStart(Loggers, told)
          /\ told = {} \/ outcome \in {"started", "broken"}
    BY <1>1 DEF InterruptStart
  <2>2. dirs \subseteq dirs' /\ (told = {} \/ episode_idx' \in dirs' \ dirs)
    BY <2>1, StartCutIsFresh DEF TypeInv, TypeOK
  <2>3. dirs' \subseteq Episode
    BY <2>1, ManagerStartsCut DEF ManagerTypeOK, TypeInv, TypeOK
  <2>4. UNCHANGED <<saved, episode_dir>>
    BY <1>1 DEF InterruptStart
  <2> QED BY <2>1, <2>2, <2>3, <2>4, FreshStarts
<1>2. CASE InterruptStop \/ InterruptPause \/ InterruptResume
  <2>1. UNCHANGED <<dirs, saved, episode_dir>>
    BY <1>2 DEF InterruptStop, InterruptPause, InterruptResume, StopCut, RecordingStopCut,
       PauseCut, ResumeCut, loggingVars
  <2>2. \A l \in Loggers : command'[l] = command[l] \/ command'[l].type # "start"
    BY <1>2 DEF InterruptStop, InterruptPause, InterruptResume, Tell, StopCommand,
       PauseCommand, ResumeCommand
  <2> QED BY <2>1, <2>2 DEF FreshInv
<1> QED BY <1>1, <1>2 DEF InterruptHandling

LEMMA FreshStep == TypeInv /\ FreshInv /\ [Next]_vars => FreshInv'
<1> SUFFICES ASSUME TypeInv, FreshInv, [Next]_vars PROVE FreshInv'
  OBVIOUS
<1>1. CASE UNCHANGED <<dirs, saved, episode_dir, command>>
  BY <1>1 DEF FreshInv
<1>2. ASSUME NEW e \in EpisodeEvent, Tap(e)
      PROVE  UNCHANGED <<dirs, saved, episode_dir, command>>
  BY <1>2 DEF Tap, mainLoggerVars, loggerVars, storeVars
<1>3. CASE PressQuit \/ ReadinessChange \/ RetriedTapAges \/ UNCHANGED vars
  BY <1>1, <1>3
  DEF PressQuit, ReadinessChange, RetriedTapAges, vars, mainLoggerVars, loggerVars, storeVars
<1> QED
  BY <1>1, <1>2, <1>3, FreshHandling, FreshPolling, FreshShutdown, FreshInterrupt
  DEF Next, Off

\* Only a start command moves a logger into an episode, and FreshInv says which.
LEMMA OpensFreshStore ==
  ASSUME TypeInv, FreshInv, [Next]_vars, NEW l \in Loggers,
         episode_dir'[l] # episode_dir[l]
  PROVE  episode_dir'[l] \notin saved[l]
<1>1. None \notin saved[l]
  BY EpisodeIsNat DEF TypeInv, TypeOK
<1>2. ASSUME NEW k \in Loggers, UpdateRecordingState(k)
      PROVE  episode_dir'[l] \notin saved[l]
  <2>1. CASE command[k].type = "start" /\ ObeyStart(k)
    BY <2>1 DEF ObeyStart, FreshInv, TypeInv, TypeOK
  <2>2. CASE ObeyStop(k)
    BY <1>1, <2>2 DEF ObeyStop, TypeInv, TypeOK
  <2>3. CASE ObeyPause(k) \/ ObeyResume(k)
    BY <2>3 DEF ObeyPause, ObeyResume
  <2> QED BY <1>2, <2>1, <2>2, <2>3 DEF UpdateRecordingState
<1>3. CASE KillLoggers \/ LoggerCrash
  BY <1>1, <1>3 DEF KillLoggers, LoggerCrash, LoggersGone
<1>4. CASE HandleTap
  BY <1>4 DEF HandleTap, StartHandled, StartHandlingRaises, StartBlocked, StopHandled,
     PauseHandled, ResumeHandled, GestureIgnored, Handling, storeVars
<1>5. CASE \/ PressQuit \/ ReadinessChange \/ RetriedTapAges
           \/ ProcessQuit \/ QuitSwallowed \/ Interrupt
           \/ ShutdownFinalize \/ Exit \/ UNCHANGED vars
  BY <1>5 DEF PressQuit, ReadinessChange, RetriedTapAges, ProcessQuit, QuitSwallowed,
     Interrupt, LeaveLoop, ShutdownFinalize, Exit, vars, loggerVars, storeVars
<1>6. ASSUME \/ \E e \in EpisodeEvent : Tap(e)
             \/ \E k \in Loggers : LogSample(k)
      PROVE  UNCHANGED episode_dir
  BY <1>6 DEF Tap, LogSample, loggerVars, storeVars
<1>7. CASE InterruptHandling
  BY <1>7 DEF InterruptHandling, InterruptStart, InterruptStop, InterruptPause,
     InterruptResume, Cut, storeVars
<1> QED
  BY <1>2, <1>3, <1>4, <1>5, <1>6, <1>7 DEF Next, Off

\* No logger ever opens, and so erases, a store it has written samples to:
\* not after a failed start, a lost command, a crash or an overtaken stop.
THEOREM StoresAreOpenedOnce == Spec => NeverReopened
<1>1. TypeInv /\ FreshInv /\ [Next]_vars =>
        [\A l \in Loggers : episode_dir'[l] # episode_dir[l]
                               => episode_dir'[l] \notin saved[l]]_vars
  BY OpensFreshStore
<1> QED
  BY <1>1, TypeInit, TypeStep, FreshInit, FreshStep, PTL DEF Spec, NeverReopened

-----------------------------------------------------------------------------
(* The two records of the recording, whatever fails.  A start that fails   *)
(* leaves the count at None, and then no other is ever tried: while there  *)
(* is a count, MainLogger records exactly when the manager says so.  Once  *)
(* the loop is left nothing starts to record any more.                     *)

CountInv ==
  phase = "loop" /\ episode_count # None =>
    /\ logging_state \in {"ACTIVE", "PAUSE"} => episode_count = episode_idx
    /\ is_recording => logging_state \in {"ACTIVE", "PAUSE"}

RecordInv ==
  /\ CountInv
  /\ RecordingMatchesEpisode
  /\ DeleteTargetsLastRecording

LEMMA RecordInit == Init => RecordInv
  BY EpisodeIsNat
  DEF Init, ManagerInit, RecordInv, CountInv, RecordingMatchesEpisode, StartRaises,
      DeleteTargetsLastRecording

\* The methods of EpisodeManager, told what they may do to the two records.
LEMMA RecordStarts ==
  ASSUME ManagerTypeOK, RecordInv, NEW outcome, Start(outcome), phase' = phase
  PROVE  RecordInv'
<1> USE DEF RecordInv, CountInv, RecordingMatchesEpisode, StartRaises, DeleteTargetsLastRecording,
            Start, CanStartRecording, LastAfterImplicitStop
<1>1. CASE outcome = "started" /\ \E n \in Episode : RecordingStarted(n)
  BY <1>1, EpisodeIsNat DEF RecordingStarted
<1>2. CASE outcome = "refused" /\ RecordingRefused
  BY <1>2 DEF RecordingRefused
<1>3. CASE \E n \in Episode, made \in BOOLEAN : outcome # "started" /\ RecordingBroken(n, made)
  BY <1>3 DEF RecordingBroken
<1>4. CASE outcome = "not_allowed" /\ RecordingNotAllowed
  BY <1>4 DEF RecordingNotAllowed, loggingVars
<1> QED BY <1>1, <1>2, <1>3, <1>4 DEF ActiveRequested

LEMMA RecordStops ==
  ASSUME RecordInv, RecordingStopped \/ RecordingStopRaises, UNCHANGED episode_count,
         \/ phase' = phase /\ phase = "loop" /\ episode_state = "ACTIVE"
         \/ phase' # "loop" /\ UNCHANGED episode_state
  PROVE  RecordInv'
<1> USE DEF RecordInv, CountInv, RecordingMatchesEpisode, StartRaises, DeleteTargetsLastRecording
<1>1. CASE RecordingStopRaises
  BY <1>1 DEF RecordingStopRaises, StopsRecording
<1>2. CASE RecordingStopped
  BY <1>2 DEF RecordingStopped, StopsRecording, loggingVars
<1> QED BY <1>1, <1>2

LEMMA RecordPauses ==
  ASSUME RecordInv, NEW told \in BOOLEAN, phase = "loop", phase' = phase,
         \/ Pause(told) \/ Resume(told)
  PROVE  RecordInv'
<1> USE DEF RecordInv, CountInv, RecordingMatchesEpisode, StartRaises, DeleteTargetsLastRecording,
            loggingVars
<1>1. CASE Pause(told)
  BY <1>1 DEF Pause, RecordingPaused
<1>2. CASE Resume(told)
  BY <1>2 DEF Resume, RecordingResumed
<1> QED BY <1>1, <1>2

LEMMA RecordUnchanged ==
  ASSUME RecordInv, UNCHANGED <<managerVars, mainLoggerVars>>, phase' = phase \/ phase' # "loop"
  PROVE  RecordInv'
  BY DEF RecordInv, CountInv, RecordingMatchesEpisode, StartRaises, DeleteTargetsLastRecording,
         managerVars, mainLoggerVars

\* SIGTERM inside a start leaves the two records apart, but the shutdown does
\* not begin to record.
LEMMA RecordInterrupt ==
  ASSUME ManagerTypeOK, RecordInv, InterruptHandling
  PROVE  RecordInv'
<1> USE DEF Cut, RecordInv, CountInv, RecordingMatchesEpisode, StartRaises,
            DeleteTargetsLastRecording
<1>1. CASE InterruptStart
  <2>1. PICK outcome \in {"unbegun", "no_dir", "broken"} : StartCut(outcome)
    BY <1>1 DEF InterruptStart
  <2>2. phase' # "loop" /\ ~is_recording
    BY <1>1, <2>1 DEF InterruptStart, StartCut
  <2>3. is_recording' => logging_state' \notin {"ACTIVE", "PAUSE"}
    BY <2>1, <2>2
    DEF StartCut, ActiveRequested, RecordingBroken, CanStartRecording, loggingVars
  <2> QED BY <2>2, <2>3
<1>2. CASE InterruptStop \/ InterruptPause \/ InterruptResume
  BY <1>2 DEF InterruptStop, InterruptPause, InterruptResume, StopCut, RecordingStopCut,
     PauseCut, ResumeCut, loggingVars
<1> QED BY <1>1, <1>2 DEF InterruptHandling

LEMMA RecordHandling ==
  ASSUME TypeInv, RecordInv, HandleTap
  PROVE  RecordInv'
<1> USE DEF Handling
<1>1. CASE StartHandled
  BY <1>1, RecordStarts DEF StartHandled, TypeInv, TypeOK
<1>2. CASE StopHandled
  BY <1>2, RecordStops DEF StopHandled, Stop, StopFails
<1>3. CASE PauseHandled \/ ResumeHandled
  BY <1>3, RecordPauses DEF PauseHandled, ResumeHandled
<1>4. CASE StartHandlingRaises \/ StartBlocked \/ GestureIgnored
  BY <1>4, RecordUnchanged DEF StartHandlingRaises, StartBlocked, GestureIgnored
<1> QED BY <1>1, <1>2, <1>3, <1>4 DEF HandleTap

LEMMA RecordStep == TypeInv /\ RecordInv /\ [Next]_vars => RecordInv'
<1> SUFFICES ASSUME TypeInv, RecordInv, [Next]_vars PROVE RecordInv'
  OBVIOUS
<1>1. CASE ShutdownFinalize
  BY <1>1, RecordStops DEF ShutdownFinalize
<1>2. CASE Exit
  BY <1>2 DEF Exit, RecordInv, CountInv, RecordingMatchesEpisode, StartRaises,
     DeleteTargetsLastRecording
<1>3. CASE \/ PressQuit \/ ReadinessChange \/ RetriedTapAges
           \/ ProcessQuit \/ QuitSwallowed \/ Interrupt
           \/ KillLoggers \/ LoggerCrash \/ UNCHANGED vars
  BY <1>3, RecordUnchanged
  DEF PressQuit, ReadinessChange, RetriedTapAges, ProcessQuit, QuitSwallowed, Interrupt,
      LeaveLoop, KillLoggers, LoggerCrash, vars
<1>4. ASSUME \/ \E e \in EpisodeEvent : Tap(e)
             \/ \E l \in Loggers : UpdateRecordingState(l) \/ LogSample(l)
      PROVE  RecordInv'
  BY <1>4, RecordUnchanged DEF Tap, UpdateRecordingState, LogSample
<1>5. CASE InterruptHandling
  BY <1>5, RecordInterrupt DEF TypeInv, TypeOK
<1> QED BY <1>1, <1>2, <1>3, <1>4, <1>5, RecordHandling DEF Next, Off

\* Whatever fails, the number the operator reads is the directory being
\* recorded, and no episode can be started while MainLogger is recording.
THEOREM RecordingIsTheEpisode == Spec => []RecordingMatchesEpisode
<1>1. RecordInv => RecordingMatchesEpisode
  BY DEF RecordInv
<1> QED BY <1>1, TypeInit, TypeStep, RecordInit, RecordStep, PTL DEF Spec

\* Whatever fails, "delete last" refers to the recording that was stopped last.
THEOREM DeleteRefersToLastRecording == Spec => []DeleteTargetsLastRecording
<1>1. RecordInv => DeleteTargetsLastRecording
  BY DEF RecordInv
<1> QED BY <1>1, TypeInit, TypeStep, RecordInit, RecordStep, PTL DEF Spec

-----------------------------------------------------------------------------
(* Nothing is lost on a reliable station unless SIGTERM tears a handler.   *)
(* LoggersFollow says where each logger is heading; the rest says that the *)
(* coordinator's two records of the recording agree, that a shutdown gets  *)
(* past "finalize" only with the recording ended, that a logger told to    *)
(* start has nothing to lose, and that one told to resume has an episode.  *)

CoordinatorAgrees ==
  /\ phase \in {"loop", "finalize"} /\ logging_state = "ACTIVE" => is_recording
  /\ phase \in {"loop", "finalize"} /\ logging_state = "PAUSE" /\ Loggers = {}
       => is_recording
  /\ phase = "kill" => logging_state \notin {"ACTIVE", "PAUSE"}
  /\ logging_state \in {"ACTIVE", "PAUSE"} => episode_idx \in dirs

StartsEmpty ==
  \A l \in Loggers : command[l].type = "start" => ~rec[l] /\ ~buffered[l]

ResumesHold ==
  \A l \in Loggers : command[l].type = "resume" => logging_state \in {"ACTIVE", "PAUSE"}

ReliableInv ==
  /\ logger_up <=> phase \in {"loop", "finalize", "kill"}
  /\ torn => phase # "loop"
  /\ ~torn => CoordinatorAgrees /\ StartsEmpty /\ (logger_up => ResumesHold)
  /\ LoggersFollow
  /\ NothingLost

LEMMA ReliableInit == Init => ReliableInv
  BY DEF Init, ManagerInit, ReliableInv, CoordinatorAgrees, LoggersFollow, StartsEmpty,
         ResumesHold, NothingLost, WillRecord, WillHold, Recording, NoCommand

\* All loggers answer.
LEMMA ReliableAnswers ==
  ASSUME Reliable, logger_up
  PROVE  Answering = {Loggers}
  BY DEF Answering, Reliable

\* Where a logger that has read everything is.
LEMMA FollowsWhenDrained ==
  ASSUME LoggersFollow, logger_up, ~torn, NEW l \in Loggers, command[l] = NoCommand
  PROVE  /\ phase # "finalize" => (rec[l] <=> logging_state = "ACTIVE")
         /\ episode_dir[l] = Recording
  BY DEF LoggersFollow, WillRecord, WillHold, NoCommand

\* Gestures are handled with every command read.
LEMMA ReliableHandling ==
  ASSUME Reliable, TypeInv, ReliableInv, HandleTap
  PROVE  ReliableInv'
<1> USE DEF Handling, storeVars
<1>1. /\ phase = "loop" /\ phase' = "loop" /\ logger_up /\ logger_up' /\ ~torn /\ ~torn'
      /\ \A l \in Loggers : command[l] = NoCommand
      /\ UNCHANGED <<rec, episode_dir, buffered, saved, lost>>
  BY DEF HandleTap, StartHandled, StartHandlingRaises, StartBlocked, StopHandled,
     PauseHandled, ResumeHandled, GestureIgnored, ReliableInv, Reliable, Drained
<1>2. Answering = {Loggers}
  BY <1>1, ReliableAnswers
<1>3. NothingLost'
  BY <1>1 DEF NothingLost, ReliableInv
<1>4. \A l \in Loggers : (rec[l] <=> logging_state = "ACTIVE") /\ episode_dir[l] = Recording
  BY <1>1, FollowsWhenDrained DEF ReliableInv
<1>5. CASE UNCHANGED <<logging_state, mainLoggerVars, command>>
  BY <1>1, <1>3, <1>5
  DEF ReliableInv, CoordinatorAgrees, LoggersFollow, StartsEmpty, ResumesHold, WillRecord,
      WillHold, Recording, mainLoggerVars
<1>6. CASE StartHandled
  <2>1. CASE Start("not_allowed") /\ UNCHANGED command
    BY <1>5, <2>1 DEF Start, ActiveRequested, RecordingNotAllowed, loggingVars, mainLoggerVars
  <2>2. CASE Start("started") /\ TellStart(Loggers, Loggers)
    <3>1. PICK n \in Episode : RecordingStarted(n)
      BY <2>2 DEF Start, ActiveRequested
    <3>2. command' = [l \in Loggers |-> StartCommand(n)]
      BY <2>2, <3>1 DEF TellStart, RecordingStarted
    <3>3. Recording' = n /\ logging_state' = "ACTIVE"
      BY <3>1 DEF RecordingStarted, Recording
    <3>4. LoggersFollow'
      BY <1>1, <3>2, <3>3 DEF LoggersFollow, WillRecord, WillHold, StartCommand
    <3>5. StartsEmpty'
      BY <1>1, <1>4, <3>1
      DEF StartsEmpty, Recording, RecordingStarted, CanStartRecording, TypeInv, HoldsEpisode
    <3>6. CoordinatorAgrees'
      BY <1>1, <3>1 DEF CoordinatorAgrees, RecordingStarted
    <3>7. ResumesHold'
      BY <3>2 DEF ResumesHold, StartCommand
    <3> QED BY <1>1, <1>3, <3>4, <3>5, <3>6, <3>7 DEF ReliableInv
  <2> QED BY <1>2, <1>6, <2>1, <2>2 DEF StartHandled, Reliable
<1>7. CASE StopHandled
  <2>1. Stop /\ Tell(IF StopsRecording THEN Loggers ELSE {}, StopCommand)
    BY <1>2, <1>7 DEF StopHandled, Reliable
  <2>2. CASE ~StopsRecording
    <3>1. UNCHANGED command
      BY <2>1, <2>2 DEF Tell, TypeInv, TypeOK
    <3> QED BY <1>5, <2>1, <2>2, <3>1 DEF Stop, RecordingStopped, loggingVars, mainLoggerVars
  <2>3. CASE StopsRecording
    <3>1. command' = [l \in Loggers |-> StopCommand]
      BY <2>1, <2>3 DEF Tell
    <3>2. logging_state' = "STOPPED"
      BY <2>1, <2>3 DEF Stop, RecordingStopped
    <3>3. LoggersFollow'
      BY <3>1, <3>2 DEF LoggersFollow, WillRecord, WillHold, StopCommand, Recording
    <3> QED BY <1>1, <1>3, <3>1, <3>2, <3>3
            DEF ReliableInv, CoordinatorAgrees, StartsEmpty, ResumesHold, StopCommand
  <2> QED BY <2>2, <2>3
<1>8. CASE PauseHandled
  <2>1. Pause(Loggers # {}) /\ Tell(IF logging_state = "ACTIVE" THEN Loggers ELSE {}, PauseCommand)
    BY <1>2, <1>8 DEF PauseHandled, Reliable
  <2>2. CASE logging_state # "ACTIVE"
    <3>1. UNCHANGED command
      BY <2>1, <2>2 DEF Tell, TypeInv, TypeOK
    <3> QED BY <1>5, <2>1, <2>2, <3>1 DEF Pause, RecordingPaused, loggingVars, mainLoggerVars
  <2>3. CASE logging_state = "ACTIVE"
    <3>1. command' = [l \in Loggers |-> PauseCommand]
      BY <2>1, <2>3 DEF Tell
    <3>2. /\ logging_state' = "PAUSE" /\ Recording' = Recording
          /\ UNCHANGED <<episode_idx, dirs>>
          /\ Loggers = {} => is_recording' = is_recording
      BY <2>1, <2>3 DEF Pause, RecordingPaused, Recording, TypeInv, TypeOK, ManagerTypeOK
    <3>3. LoggersFollow'
      BY <1>1, <1>4, <3>1, <3>2 DEF LoggersFollow, WillRecord, WillHold, PauseCommand
    <3> QED BY <1>1, <1>3, <2>3, <3>1, <3>2, <3>3
            DEF ReliableInv, CoordinatorAgrees, StartsEmpty, ResumesHold, PauseCommand
  <2> QED BY <2>2, <2>3
<1>9. CASE ResumeHandled
  <2>1. Resume(Loggers # {}) /\ Tell(IF logging_state = "PAUSE" THEN Loggers ELSE {}, ResumeCommand)
    BY <1>2, <1>9 DEF ResumeHandled, Reliable
  <2>2. CASE logging_state # "PAUSE"
    <3>1. UNCHANGED command
      BY <2>1, <2>2 DEF Tell, TypeInv, TypeOK
    <3> QED BY <1>5, <2>1, <2>2, <3>1 DEF Resume, RecordingResumed, loggingVars, mainLoggerVars
  <2>3. CASE logging_state = "PAUSE"
    <3>1. command' = [l \in Loggers |-> ResumeCommand]
      BY <2>1, <2>3 DEF Tell
    <3>2. /\ logging_state' = "ACTIVE" /\ Recording' = Recording
          /\ UNCHANGED <<episode_idx, dirs>>
          /\ is_recording'
      BY <1>1, <2>1, <2>3
      DEF Resume, RecordingResumed, Recording, ReliableInv, CoordinatorAgrees
    <3>3. LoggersFollow'
      BY <1>1, <1>4, <3>1, <3>2 DEF LoggersFollow, WillRecord, WillHold, ResumeCommand
    <3> QED BY <1>1, <1>3, <2>3, <3>1, <3>2, <3>3
            DEF ReliableInv, CoordinatorAgrees, StartsEmpty, ResumesHold, ResumeCommand
  <2> QED BY <2>2, <2>3
<1>10. CASE StartHandlingRaises \/ StartBlocked \/ GestureIgnored
  BY <1>5, <1>10 DEF StartHandlingRaises, StartBlocked, GestureIgnored, managerVars
<1> QED BY <1>6, <1>7, <1>8, <1>9, <1>10 DEF HandleTap

\* Reading a command takes a logger where it was already said to be going.
LEMMA ReliablePolling ==
  ASSUME Reliable, TypeInv, FreshInv, ReliableInv, ~torn,
         NEW l \in Loggers, UpdateRecordingState(l) \/ LogSample(l)
  PROVE  ReliableInv'
<1> USE DEF TypeInv, TypeOK, HoldsEpisode, managerVars, mainLoggerVars
<1>1. CASE LogSample(l)
  BY <1>1 DEF LogSample, ReliableInv, CoordinatorAgrees, LoggersFollow, StartsEmpty,
              ResumesHold, NothingLost, WillRecord, WillHold, Recording
<1>2. CASE UpdateRecordingState(l)
  <2>1. /\ logger_up /\ command' = [command EXCEPT ![l] = NoCommand]
        /\ UNCHANGED <<managerVars, mainLoggerVars, phase, torn, logger_up>>
    BY <1>2 DEF UpdateRecordingState
  <2>2. /\ rec' = [rec EXCEPT ![l] = WillRecord(l)]
        /\ episode_dir' = [episode_dir EXCEPT ![l] = WillHold(l)]
        /\ UNCHANGED lost
    <3>1. CASE command[l].type = "start" /\ ObeyStart(l)
      BY <3>1 DEF ObeyStart, WillRecord, WillHold, ReliableInv, StartsEmpty
    <3>2. CASE command[l].type = "stop" /\ ObeyStop(l)
      BY <3>2 DEF ObeyStop, WillRecord, WillHold
    <3>3. CASE command[l].type = "pause" /\ ObeyPause(l)
      BY <3>3 DEF ObeyPause, WillRecord, WillHold
    <3>4. CASE command[l].type = "resume" /\ ObeyResume(l)
      <4>1. episode_dir[l] \in dirs
        BY <2>1, <3>4 DEF ReliableInv, LoggersFollow, CoordinatorAgrees, ResumesHold, WillHold,
                          Recording
      <4> QED BY <3>4, <4>1 DEF ObeyResume, WillRecord, WillHold
    <3> QED BY <1>2, <3>1, <3>2, <3>3, <3>4 DEF UpdateRecordingState
  <2>3. \A k \in Loggers : buffered'[k] => buffered[k]
    BY <1>2 DEF UpdateRecordingState, ObeyStart, ObeyStop, ObeyPause, ObeyResume
  <2>4. LoggersFollow'
    BY <2>1, <2>2 DEF ReliableInv, LoggersFollow, WillRecord, WillHold, Recording, NoCommand
  <2>5. StartsEmpty'
    BY <2>1, <2>2, <2>3 DEF ReliableInv, StartsEmpty, NoCommand
  <2>6. ResumesHold'
    BY <2>1 DEF ReliableInv, ResumesHold, NoCommand
  <2> QED
    BY <2>1, <2>2, <2>4, <2>5, <2>6 DEF ReliableInv, CoordinatorAgrees, NothingLost
<1> QED BY <1>1, <1>2

\* A shutdown first stops the recording, then lets the loggers read that.
LEMMA ReliableShutdown ==
  ASSUME Reliable, TypeInv, ReliableInv, ~torn,
         \/ ProcessQuit \/ QuitSwallowed \/ Interrupt
         \/ ShutdownFinalize \/ KillLoggers \/ Exit \/ LoggerCrash
  PROVE  ReliableInv'
<1> USE DEF managerVars, mainLoggerVars, inputVars, loggerVars, storeVars
<1>1. CASE ProcessQuit \/ QuitSwallowed \/ Interrupt
  BY <1>1 DEF ProcessQuit, QuitSwallowed, Interrupt, LeaveLoop, ReliableInv,
     CoordinatorAgrees, LoggersFollow, StartsEmpty, ResumesHold, NothingLost, WillRecord,
     WillHold, Recording
<1>2. CASE ShutdownFinalize
  <2>1. /\ logger_up /\ phase = "finalize" /\ phase' = "kill"
        /\ UNCHANGED <<logger_up, torn, storeVars>>
    BY <1>2 DEF ShutdownFinalize, ReliableInv
  <2>2. RecordingStopped /\ Tell(IF StopsRecording THEN Loggers ELSE {}, StopCommand)
    BY <1>2, <2>1, ReliableAnswers DEF ShutdownFinalize, Reliable
  <2>3. CASE StopsRecording
    <3>1. command' = [l \in Loggers |-> StopCommand]
      BY <2>2, <2>3 DEF Tell
    <3>2. logging_state' = "STOPPED"
      BY <2>2, <2>3 DEF RecordingStopped
    <3>3. LoggersFollow'
      BY <3>1, <3>2 DEF LoggersFollow, WillRecord, WillHold, StopCommand, Recording
    <3> QED BY <2>1, <3>1, <3>2, <3>3
            DEF ReliableInv, CoordinatorAgrees, StartsEmpty, ResumesHold, NothingLost,
                StopCommand
  <2>4. CASE ~StopsRecording
    <3>1. UNCHANGED <<command, loggingVars>>
      BY <2>2, <2>4 DEF Tell, RecordingStopped, TypeInv, TypeOK
    <3>2. logging_state \notin {"ACTIVE", "PAUSE"} /\ Recording = None
      BY <2>1, <2>4 DEF StopsRecording, ReliableInv, CoordinatorAgrees, Recording
    <3>3. ASSUME NEW l \in Loggers PROVE ~WillRecord(l) /\ WillHold(l) = None
      <4>1. WillHold(l) = None /\ command[l] \in Command
        BY <2>1, <3>2 DEF ReliableInv, LoggersFollow, TypeInv, TypeOK
      <4>2. command[l].type # "start" /\ command[l].type # "resume"
        BY <2>1, <3>2, <4>1, CommandDir, EpisodeIsNat DEF WillHold, ReliableInv, ResumesHold
      <4>3. command[l].type = "none" => ~rec[l]
        BY <4>1 DEF WillHold, TypeInv, HoldsEpisode
      <4> QED BY <4>1, <4>2, <4>3 DEF WillRecord
    <3>4. logging_state' = logging_state /\ Recording' = None
      BY <3>1, <3>2 DEF Recording, loggingVars
    <3>5. LoggersFollow'
      BY <2>1, <3>1, <3>2, <3>3, <3>4 DEF LoggersFollow, WillRecord, WillHold
    <3> QED BY <2>1, <3>1, <3>2, <3>5
            DEF ReliableInv, CoordinatorAgrees, StartsEmpty, ResumesHold, NothingLost,
                loggingVars
  <2> QED BY <2>3, <2>4
<1>3. CASE KillLoggers
  <2>1. \A l \in Loggers : ~buffered[l]
    BY <1>3, FollowsWhenDrained
    DEF KillLoggers, Reliable, Drained, ReliableInv, CoordinatorAgrees, Recording,
        TypeInv, HoldsEpisode
  <2>2. lost' = [l \in Loggers |-> lost[l]]
    BY <1>3, <2>1 DEF KillLoggers, LoggersGone
  <2> QED BY <1>3, <2>2
          DEF KillLoggers, LoggersGone, ReliableInv, CoordinatorAgrees, LoggersFollow,
              StartsEmpty, NothingLost, NoCommand
<1>4. CASE Exit
  BY <1>4 DEF Exit, Reliable, ReliableInv, CoordinatorAgrees, LoggersFollow, StartsEmpty,
     NothingLost, WillRecord, WillHold, Recording, StopsRecording
<1>5. CASE LoggerCrash
  BY <1>5 DEF LoggerCrash, Reliable
<1> QED BY <1>1, <1>2, <1>3, <1>4, <1>5

\* Once torn, nothing more is claimed.
LEMMA ReliableTorn ==
  ASSUME ReliableInv, torn, [Next]_vars
  PROVE  ReliableInv'
<1>1. phase # "loop"
  BY DEF ReliableInv
<1>2. ASSUME torn', phase' # "loop", logger_up' <=> phase' \in {"loop", "finalize", "kill"}
      PROVE  ReliableInv'
  BY <1>2 DEF ReliableInv, LoggersFollow, NothingLost
<1>3. CASE UNCHANGED <<torn, phase, logger_up>>
  BY <1>1, <1>2, <1>3 DEF ReliableInv
<1>4. ~HandleTap /\ ~InterruptHandling
  BY <1>1 DEF HandleTap, StartHandled, StartHandlingRaises, StartBlocked, StopHandled,
     PauseHandled, ResumeHandled, GestureIgnored, Handling, InterruptHandling, InterruptStart,
     InterruptStop, InterruptPause, InterruptResume, Cut
<1>5. CASE ShutdownFinalize \/ KillLoggers \/ Exit
  BY <1>2, <1>5 DEF ReliableInv, ShutdownFinalize, KillLoggers, LoggersGone, Exit, loggerVars
<1>6. ASSUME \/ \E e \in EpisodeEvent : Tap(e)
             \/ \E l \in Loggers : UpdateRecordingState(l) \/ LogSample(l)
      PROVE  ReliableInv'
  BY <1>3, <1>6 DEF Tap, loggerVars, UpdateRecordingState, LogSample
<1>7. CASE \/ PressQuit \/ ReadinessChange \/ RetriedTapAges \/ ProcessQuit \/ QuitSwallowed
           \/ Interrupt \/ LoggerCrash \/ UNCHANGED vars
  BY <1>1, <1>3, <1>7
  DEF PressQuit, ReadinessChange, RetriedTapAges, ProcessQuit, QuitSwallowed, Interrupt,
      LoggerCrash, vars, loggerVars
<1> QED BY <1>4, <1>5, <1>6, <1>7 DEF Next, Off

\* SIGTERM inside a handler: either it tears the handler, or the shutdown that
\* follows finds the recording as a shutdown between two handlers does, but for
\* loggers that have been told to pause or to resume.
LEMMA ReliableInterrupt ==
  ASSUME Reliable, TypeInv, ReliableInv, InterruptHandling
  PROVE  ReliableInv'
<1> USE DEF Cut, storeVars
<1>1. /\ phase = "loop" /\ phase' = "finalize" /\ logger_up /\ logger_up' /\ ~torn
      /\ \A l \in Loggers : command[l] = NoCommand
      /\ UNCHANGED <<rec, episode_dir, buffered, saved, lost>>
  BY DEF InterruptHandling, InterruptStart, InterruptStop, InterruptPause, InterruptResume,
         ReliableInv, Reliable, Drained
<1>2. CASE torn'
  BY <1>1, <1>2 DEF ReliableInv, LoggersFollow, NothingLost
<1>3. CASE ~torn'
  <2>1. \A l \in Loggers : episode_dir[l] = Recording
    BY <1>1, FollowsWhenDrained DEF ReliableInv
  <2>2. UNCHANGED <<logging_state, episode_idx, dirs>>
    BY <1>1, <1>3
    DEF InterruptHandling, InterruptStart, InterruptStop, InterruptPause, InterruptResume,
        StartCut, ActiveRequested, ResumeCut, loggingVars
  <2>3. \/ UNCHANGED is_recording
        \/ is_recording' /\ logging_state = "PAUSE"
    BY <1>1, <1>3
    DEF InterruptHandling, InterruptStart, InterruptStop, InterruptPause, InterruptResume,
        StartCut, ActiveRequested, ResumeCut, loggingVars
  <2>4. \A l \in Loggers :
          \/ command'[l] \in {NoCommand, PauseCommand}
          \/ command'[l] = ResumeCommand /\ logging_state = "PAUSE"
    BY <1>1, <1>3
    DEF InterruptHandling, InterruptStart, InterruptStop, InterruptPause, InterruptResume, Tell
  <2>5. CoordinatorAgrees'
    BY <1>1, <2>2, <2>3 DEF ReliableInv, CoordinatorAgrees
  <2>6. \A l \in Loggers :
          /\ command'[l].type # "start" /\ command'[l].type # "stop"
          /\ command'[l].type = "resume" => logging_state = "PAUSE"
    BY <2>4 DEF NoCommand, PauseCommand, ResumeCommand
  <2>7. LoggersFollow'
    <3>1. Recording' = Recording
      BY <2>2 DEF Recording
    <3> QED BY <1>1, <2>1, <2>6, <3>1 DEF LoggersFollow, WillHold
  <2>8. StartsEmpty' /\ ResumesHold'
    <3>1. StartsEmpty'
      BY <2>6 DEF StartsEmpty
    <3>2. logging_state' = logging_state
      BY <2>2
    <3> QED BY <2>6, <3>1, <3>2 DEF ResumesHold
  <2>9. NothingLost'
    BY <1>1 DEF ReliableInv, NothingLost
  <2> QED BY <1>1, <1>3, <2>5, <2>7, <2>8, <2>9 DEF ReliableInv
<1> QED BY <1>2, <1>3

LEMMA ReliableStep ==
  ASSUME Reliable
  PROVE  TypeInv /\ FreshInv /\ ReliableInv /\ [Next]_vars => ReliableInv'
<1> SUFFICES ASSUME TypeInv, FreshInv, ReliableInv, [Next]_vars PROVE ReliableInv'
  OBVIOUS
<1> USE DEF managerVars, mainLoggerVars, loggerVars, storeVars
<1>1. CASE UNCHANGED <<managerVars, mainLoggerVars, phase, torn, loggerVars>>
  BY <1>1 DEF ReliableInv, CoordinatorAgrees, LoggersFollow, StartsEmpty, ResumesHold,
     NothingLost, WillRecord, WillHold, Recording
<1>2. ASSUME NEW e \in EpisodeEvent, Tap(e) PROVE ReliableInv'
  BY <1>1, <1>2 DEF Tap
<1>3. CASE PressQuit \/ ReadinessChange \/ RetriedTapAges \/ UNCHANGED vars
  BY <1>1, <1>3 DEF PressQuit, ReadinessChange, RetriedTapAges, vars
<1>4. CASE torn
  BY <1>4, ReliableTorn
<1>5. CASE ~torn
  BY <1>2, <1>3, <1>5, ReliableHandling, ReliablePolling, ReliableShutdown, ReliableInterrupt
  DEF Next, Off
<1> QED BY <1>4, <1>5

\* On a station whose loggers answer and keep up, every logger is always on its
\* way to the episode and the mode the coordinator believes it is in.
THEOREM ReliableLoggersFollow ==
  ASSUME Reliable
  PROVE  Spec => []LoggersFollow
<1>1. TypeInv /\ FreshInv /\ ReliableInv /\ [Next]_vars => ReliableInv'
  BY ReliableStep
<1>2. ReliableInv => LoggersFollow
  BY DEF ReliableInv
<1> QED
  BY <1>1, <1>2, TypeInit, TypeStep, FreshInit, FreshStep, ReliableInit, PTL DEF Spec

\* On such a station no sample is ever dropped, wherever the operator pauses,
\* resumes, stops or quits, or SIGTERM ends the coordinator, between two
\* handlers or inside one; except that a SIGTERM between the assignments of
\* is_recording and logging_state costs the episode it falls on.
THEOREM ReliableNothingLost ==
  ASSUME Reliable
  PROVE  Spec => []NothingLost
<1>1. TypeInv /\ FreshInv /\ ReliableInv /\ [Next]_vars => ReliableInv'
  BY ReliableStep
<1>2. ReliableInv => NothingLost
  BY DEF ReliableInv
<1> QED
  BY <1>1, <1>2, TypeInit, TypeStep, FreshInit, FreshStep, ReliableInit, PTL DEF Spec

-----------------------------------------------------------------------------
(* What such a station promises the operator: every step is a step of      *)
(* EpisodeLifecycle or changes nothing the operator is promised.  The      *)
(* states of the manager and of the logging agree while the loop runs, so  *)
(* each gesture finds the lifecycle where it expects it.                   *)

ModesAgree ==
  phase = "loop" =>
    /\ episode_state = "IDLE" <=> logging_state \in {"IDLE", "STOPPED"}
    /\ episode_state = "ACTIVE" <=> logging_state = "ACTIVE"
    /\ episode_state = "PAUSED" <=> logging_state = "PAUSE"

LEMMA ModesInit == Init => ModesAgree
  BY DEF Init, ManagerInit, ModesAgree

LEMMA ModesHandling ==
  ASSUME Reliable, TypeInv, ReliableInv, ModesAgree, HandleTap
  PROVE  ModesAgree'
<1> USE DEF Handling, ModesAgree
<1>1. phase = "loop" /\ Answering = {Loggers}
  BY ReliableAnswers
  DEF HandleTap, StartHandled, StartHandlingRaises, StartBlocked, StopHandled,
      PauseHandled, ResumeHandled, GestureIgnored, ReliableInv
<1>2. CASE StartHandled
  <2>1. Start("started") \/ Start("not_allowed")
    BY <1>1, <1>2 DEF StartHandled, Reliable
  <2> QED BY <1>1, <1>2, <2>1
          DEF StartHandled, Start, ActiveRequested, RecordingStarted, RecordingNotAllowed,
              CanStartRecording
<1>3. CASE StopHandled
  BY <1>1, <1>3
  DEF StopHandled, Reliable, Stop, RecordingStopped, StopsRecording, ReliableInv, CoordinatorAgrees
<1>4. CASE PauseHandled
  BY <1>1, <1>4 DEF PauseHandled, Pause, RecordingPaused
<1>5. CASE ResumeHandled
  BY <1>1, <1>5 DEF ResumeHandled, Resume, RecordingResumed
<1>6. CASE StartHandlingRaises \/ StartBlocked \/ GestureIgnored
  BY <1>6 DEF StartHandlingRaises, StartBlocked, GestureIgnored, managerVars
<1> QED BY <1>2, <1>3, <1>4, <1>5, <1>6 DEF HandleTap

LEMMA ModesStep ==
  ASSUME Reliable
  PROVE  TypeInv /\ ReliableInv /\ ModesAgree /\ [Next]_vars => ModesAgree'
<1> SUFFICES ASSUME TypeInv, ReliableInv, ModesAgree, [Next]_vars PROVE ModesAgree'
  OBVIOUS
<1>1. CASE phase' # "loop"
  BY <1>1 DEF ModesAgree
<1>2. CASE UNCHANGED <<managerVars, phase>>
  BY <1>2 DEF ModesAgree, managerVars
<1>3. CASE \/ ProcessQuit \/ Interrupt \/ ShutdownFinalize \/ KillLoggers \/ Exit
  BY <1>1, <1>3 DEF ProcessQuit, Interrupt, LeaveLoop, ShutdownFinalize, KillLoggers, Exit
<1>4. CASE \/ PressQuit \/ ReadinessChange \/ RetriedTapAges \/ QuitSwallowed
           \/ LoggerCrash \/ UNCHANGED vars
  BY <1>2, <1>4
  DEF PressQuit, ReadinessChange, RetriedTapAges, QuitSwallowed, LoggerCrash, vars
<1>5. ASSUME \/ \E e \in EpisodeEvent : Tap(e)
             \/ \E l \in Loggers : UpdateRecordingState(l) \/ LogSample(l)
      PROVE  UNCHANGED <<managerVars, phase>>
  BY <1>5 DEF Tap, UpdateRecordingState, LogSample
<1>6. CASE InterruptHandling
  BY <1>1, <1>6 DEF InterruptHandling, InterruptStart, InterruptStop, InterruptPause,
     InterruptResume, Cut
<1> QED BY <1>2, <1>3, <1>4, <1>5, <1>6, ModesHandling DEF Next, Off

LifecycleInv == TypeInv /\ FreshInv /\ ReliableInv /\ ModesAgree

\* What is not written out when nothing was dropped.
LEMMA ClosingIs ==
  ASSUME NothingLost, ~torn
  PROVE  \A e : e \in closing <=>
           /\ e # None /\ e # current
           /\ \E l \in Loggers : e = episode_dir[l] \/ e = command[l].dir
  BY DEF NothingLost, closing, NotWritten

\* To write out one episode, or to find it written already.
LEMMA ClosingShrinks ==
  ASSUME UNCHANGED <<mode, current, dirs, torn>>, NEW x, closing' \subseteq closing,
         closing \subseteq closing' \cup {x}
  PROVE  Lifecycle!WriteOut \/ UNCHANGED closing
  BY DEF Lifecycle!WriteOut

LEMMA LifecycleInit == Init => Lifecycle!Init
<1> SUFFICES ASSUME Init PROVE Lifecycle!Init
  OBVIOUS
<1>1. closing = {}
  BY DEF Init, closing, NotWritten, NoCommand
<1> QED BY <1>1 DEF Init, ManagerInit, Lifecycle!Init, mode, current, Recording, None,
              Lifecycle!None, Episode, Lifecycle!Episode

\* When every command has been read, nothing is being written out: a logger
\* is in the current episode or in none.
LEMMA DrainedIsWritten ==
  ASSUME LifecycleInv, phase = "loop", logger_up, Drained
  PROVE  closing = {}
<1>1. \A l \in Loggers : episode_dir[l] = current /\ command[l].dir = None
  BY FollowsWhenDrained DEF LifecycleInv, ReliableInv, Drained, current, NoCommand
<1> QED BY <1>1, ClosingIs DEF LifecycleInv, ReliableInv

\* A gesture is a step of the lifecycle.
LEMMA LifecycleHandling ==
  ASSUME Reliable, Loggers # {}, LifecycleInv, LifecycleInv', HandleTap
  PROVE  Lifecycle!Next \/ UNCHANGED <<mode, current, dirs, closing, torn>>
<1> USE DEF Handling, storeVars
<1>1. /\ phase = "loop" /\ phase' = "loop" /\ logger_up /\ Drained
      /\ UNCHANGED <<episode_dir, lost, torn>> /\ ~torn
  BY DEF HandleTap, StartHandled, StartHandlingRaises, StartBlocked, StopHandled,
     PauseHandled, ResumeHandled, GestureIgnored, LifecycleInv, ReliableInv, Reliable
<1>2. Answering = {Loggers}
  BY <1>1, ReliableAnswers
<1>3. closing = {} /\ \A l \in Loggers : episode_dir[l] = Recording
  BY <1>1, DrainedIsWritten, FollowsWhenDrained DEF LifecycleInv, ReliableInv, Drained
<1>4. \A e : e \in closing' <=>
        /\ e # None /\ e # Recording'
        /\ \E l \in Loggers : e = Recording \/ e = command'[l].dir
  <2>1. NothingLost'
    BY DEF LifecycleInv, ReliableInv
  <2> QED BY <1>1, <1>3, <2>1 DEF NothingLost, closing, NotWritten, current
<1>5. current = Recording /\ current' = Recording'
  BY <1>1 DEF current
<1>6. CASE StartHandled
  <2>1. episode_state = "IDLE" /\ logging_state \in {"IDLE", "STOPPED"}
    BY <1>1, <1>6 DEF StartHandled, LifecycleInv, ModesAgree
  <2>2. Start("started") /\ TellStart(Loggers, Loggers)
    BY <1>2, <1>6, <2>1
    DEF StartHandled, Reliable, Start, ActiveRequested, RecordingNotAllowed, CanStartRecording
  <2>3. PICK n \in Episode : RecordingStarted(n)
    BY <2>2 DEF Start, ActiveRequested
  <2>4. mode = "idle" /\ mode' = "recording" /\ Recording = None /\ Recording' = n
    BY <1>1, <2>1, <2>2, <2>3 DEF mode, Start, Recording, RecordingStarted
  <2>5. command' = [l \in Loggers |-> StartCommand(n)]
    BY <2>2, <2>3 DEF TellStart, RecordingStarted
  <2>6. closing' = {}
    BY <1>4, <2>4, <2>5 DEF StartCommand
  <2>7. dirs' = dirs \cup {n} /\ \A u \in dirs : u < n
    BY <2>3 DEF RecordingStarted, IsNextEpisodeIdx
  <2> QED BY <1>1, <1>3, <1>5, <2>4, <2>6, <2>7
          DEF Lifecycle!Next, Lifecycle!Start, Lifecycle!Episode, Episode
<1>7. CASE StopHandled
  <2>1. Stop /\ Tell(IF StopsRecording THEN Loggers ELSE {}, StopCommand)
    BY <1>2, <1>7 DEF StopHandled, Reliable
  <2>2. logging_state = "ACTIVE" /\ is_recording
    BY <1>1, <1>7 DEF StopHandled, LifecycleInv, ModesAgree, ReliableInv, CoordinatorAgrees
  <2>3. /\ mode = "recording" /\ mode' = "idle" /\ dirs' = dirs
        /\ Recording = episode_idx /\ Recording' = None
    BY <1>1, <1>7, <2>1, <2>2
    DEF StopHandled, mode, Stop, Recording, RecordingStopped, StopsRecording
  <2>4. command' = [l \in Loggers |-> StopCommand]
    BY <2>1, <2>2 DEF Tell, StopsRecording
  <2>5. episode_idx # None
    BY <1>1, <2>2, EpisodeIsNat
    DEF LifecycleInv, ReliableInv, CoordinatorAgrees, TypeInv, TypeOK, ManagerTypeOK
  <2>6. closing' = {Recording}
    BY <1>4, <2>3, <2>4, <2>5 DEF StopCommand
  <2> QED BY <1>1, <1>3, <1>5, <2>3, <2>6
          DEF Lifecycle!Next, Lifecycle!Stop, Lifecycle!None, None
<1>8. CASE PauseHandled
  <2>1. Pause(Loggers # {}) /\ Tell(IF logging_state = "ACTIVE" THEN Loggers ELSE {}, PauseCommand)
    BY <1>2, <1>8 DEF PauseHandled, Reliable
  <2>2. logging_state = "ACTIVE"
    BY <1>1, <1>8 DEF PauseHandled, LifecycleInv, ModesAgree
  <2>3. mode = "recording" /\ mode' = "paused" /\ dirs' = dirs /\ Recording' = Recording
    BY <1>1, <1>8, <2>1, <2>2 DEF PauseHandled, mode, Pause, Recording, RecordingPaused
  <2>4. command' = [l \in Loggers |-> PauseCommand]
    BY <2>1, <2>2 DEF Tell
  <2>5. closing' = {}
    BY <1>4, <2>3, <2>4 DEF PauseCommand
  <2> QED BY <1>1, <1>3, <1>5, <2>3, <2>5 DEF Lifecycle!Next, Lifecycle!Pause
<1>9. CASE ResumeHandled
  <2>1. Resume(Loggers # {}) /\ Tell(IF logging_state = "PAUSE" THEN Loggers ELSE {}, ResumeCommand)
    BY <1>2, <1>9 DEF ResumeHandled, Reliable
  <2>2. logging_state = "PAUSE"
    BY <1>1, <1>9 DEF ResumeHandled, LifecycleInv, ModesAgree
  <2>3. mode = "paused" /\ mode' = "recording" /\ dirs' = dirs /\ Recording' = Recording
    BY <1>1, <1>9, <2>1, <2>2 DEF ResumeHandled, mode, Resume, Recording, RecordingResumed
  <2>4. command' = [l \in Loggers |-> ResumeCommand]
    BY <2>1, <2>2 DEF Tell
  <2>5. closing' = {}
    BY <1>4, <2>3, <2>4 DEF ResumeCommand
  <2> QED BY <1>1, <1>3, <1>5, <2>3, <2>5 DEF Lifecycle!Next, Lifecycle!Resume
<1>10. CASE StartHandlingRaises \/ StartBlocked \/ GestureIgnored
  BY <1>1, <1>10 DEF StartHandlingRaises, StartBlocked, GestureIgnored, managerVars,
     mainLoggerVars, mode, current, Recording, closing, NotWritten
<1> QED BY <1>6, <1>7, <1>8, <1>9, <1>10 DEF HandleTap

\* A logger that reads a command writes out the episode it was in, unless it
\* stays in it or another logger is still in it.
LEMMA LifecyclePolling ==
  ASSUME Reliable, LifecycleInv, LifecycleInv', ~torn,
         NEW l \in Loggers, UpdateRecordingState(l) \/ LogSample(l)
  PROVE  Lifecycle!Next \/ UNCHANGED <<mode, current, dirs, closing, torn>>
<1>1. UNCHANGED <<mode, current, dirs, torn>>
  BY DEF UpdateRecordingState, LogSample, managerVars, mainLoggerVars, mode, current, Recording
<1>2. NothingLost /\ NothingLost'
  BY DEF LifecycleInv, ReliableInv
<1>3. CASE LogSample(l)
  BY <1>1, <1>3 DEF LogSample, closing, NotWritten
<1>4. CASE UpdateRecordingState(l)
  <2>1. /\ logger_up /\ command' = [command EXCEPT ![l] = NoCommand]
        /\ command \in [Loggers -> Command]
        /\ episode_dir \in [Loggers -> Episode \cup {None}]
    BY <1>4 DEF UpdateRecordingState, LifecycleInv, TypeInv, TypeOK
  <2>2. /\ \A k \in Loggers \ {l} : episode_dir'[k] = episode_dir[k] /\ command'[k] = command[k]
        /\ command'[l].dir = None
        /\ episode_dir'[l] \in {episode_dir[l], command[l].dir, None}
        /\ command[l].dir \in {None, episode_dir'[l]}
    <3>1. CASE command[l].type = "start" /\ ObeyStart(l)
      BY <2>1, <3>1 DEF ObeyStart, NoCommand
    <3>2. CASE command[l].type = "stop" /\ ObeyStop(l)
      BY <2>1, <3>2, CommandDir DEF ObeyStop, NoCommand
    <3>3. CASE command[l].type = "pause" /\ ObeyPause(l)
      BY <2>1, <3>3, CommandDir DEF ObeyPause, NoCommand
    <3>4. CASE command[l].type = "resume" /\ ObeyResume(l)
      BY <2>1, <3>4, CommandDir DEF ObeyResume, NoCommand
    <3> QED BY <1>4, <3>1, <3>2, <3>3, <3>4 DEF UpdateRecordingState
  <2>3. \A e : e \in closing' <=>
          /\ e # None /\ e # current
          /\ \E k \in Loggers : e = episode_dir'[k] \/ e = command'[k].dir
    BY <1>1, <1>2 DEF NothingLost, closing, NotWritten
  <2>4. closing' \subseteq closing /\ closing \subseteq closing' \cup {episode_dir[l]}
    BY <1>2, <2>2, <2>3, ClosingIs
  <2> QED BY <1>1, <2>4, ClosingShrinks DEF Lifecycle!Next
<1> QED BY <1>3, <1>4

\* Leaving the loop turns the station off: the episode that was being recorded
\* joins those being written out, because some logger is in it.
LEMMA LifecycleLeaves ==
  ASSUME Loggers # {}, LifecycleInv, phase = "loop", LeaveLoop
  PROVE  Lifecycle!Off
<1>1. mode # "off" /\ mode' = "off" /\ current' = None /\ UNCHANGED <<dirs, torn>> /\ ~torn
  <2>1. episode_state \in SystemState
    BY DEF LifecycleInv, TypeInv, TypeOK, ManagerTypeOK
  <2> QED BY <2>1 DEF LeaveLoop, mode, current, mainLoggerVars, SystemState, LifecycleInv,
                      ReliableInv
<1>2. closing' = (UNION {NotWritten(l) : l \in Loggers}) \ {None}
  BY <1>1 DEF LeaveLoop, loggerVars, storeVars, closing, NotWritten
<1>3. current # None => \E l \in Loggers : current \in NotWritten(l)
  <2> SUFFICES ASSUME current # None PROVE \E l \in Loggers : current \in NotWritten(l)
    OBVIOUS
  <2>1. PICK l \in Loggers : WillHold(l) = Recording
    BY DEF LifecycleInv, ReliableInv, LoggersFollow
  <2>2. current = Recording
    BY DEF current
  <2>3. current \in {episode_dir[l], command[l].dir}
    BY <2>1, <2>2 DEF WillHold
  <2> QED BY <2>3 DEF NotWritten
<1>4. \A l \in Loggers : None \notin NotWritten(l)
  BY DEF NotWritten
<1>5. closing' = closing \cup ({current} \ {None})
  BY <1>1, <1>2, <1>3, <1>4 DEF closing
<1> QED BY <1>1, <1>5 DEF Lifecycle!Off, Lifecycle!None, None

\* The stop a shutdown sends can replace a start that no logger has read, of
\* an episode that then has nothing to write.
LEMMA LifecycleFinalizes ==
  ASSUME Reliable, LifecycleInv, LifecycleInv', ~torn, ShutdownFinalize
  PROVE  Lifecycle!Next \/ UNCHANGED <<mode, current, dirs, closing, torn>>
<1>1. /\ phase = "finalize" /\ phase' = "kill" /\ logger_up
      /\ UNCHANGED <<dirs, episode_dir, torn>>
  BY DEF ShutdownFinalize, RecordingStopped, RecordingStopRaises, loggingVars, storeVars,
         LifecycleInv, ReliableInv
<1>2. UNCHANGED <<mode, current, dirs, torn>>
  BY <1>1 DEF mode, current
<1>3. NothingLost /\ NothingLost'
  BY DEF LifecycleInv, ReliableInv
<1>4. \A l \in Loggers : command[l].dir \in {None, episode_dir[l], Recording}
  <2> SUFFICES ASSUME NEW l \in Loggers PROVE command[l].dir \in {None, episode_dir[l], Recording}
    OBVIOUS
  <2>1. WillHold(l) = Recording /\ command[l] \in Command
    BY <1>1 DEF LifecycleInv, ReliableInv, LoggersFollow, TypeInv, TypeOK
  <2> QED BY <2>1, CommandDir DEF WillHold
<1>5. \A l \in Loggers : command'[l].dir \in {None, command[l].dir}
  BY DEF ShutdownFinalize, Tell, StopCommand
<1>6. \A e : e \in closing' <=>
        /\ e # None /\ e # current
        /\ \E l \in Loggers : e = episode_dir[l] \/ e = command'[l].dir
  BY <1>1, <1>2, <1>3 DEF NothingLost, closing, NotWritten
<1>7. closing' \subseteq closing /\ closing \subseteq closing' \cup {Recording}
  BY <1>3, <1>4, <1>5, <1>6, ClosingIs
<1> QED BY <1>2, <1>7, ClosingShrinks DEF Lifecycle!Next

\* By the time the loggers are killed everything is written out.
LEMMA LifecycleKills ==
  ASSUME Reliable, LifecycleInv, LifecycleInv', ~torn, KillLoggers
  PROVE  UNCHANGED <<mode, current, dirs, closing, torn>>
<1>1. UNCHANGED <<mode, current, dirs, torn>>
  BY DEF KillLoggers, mode, current, mainLoggerVars
<1>2. \A l \in Loggers : episode_dir[l] = None /\ command[l].dir = None
  BY FollowsWhenDrained
  DEF KillLoggers, Reliable, Drained, LifecycleInv, ReliableInv, CoordinatorAgrees, Recording,
      NoCommand
<1>3. \A l \in Loggers : episode_dir'[l] = None /\ command'[l].dir = None
  BY DEF KillLoggers, LoggersGone, NoCommand
<1>4. NothingLost /\ NothingLost'
  BY DEF LifecycleInv, ReliableInv
<1>5. closing = {} /\ closing' = {}
  BY <1>2, <1>3, <1>4 DEF NothingLost, closing, NotWritten
<1> QED BY <1>1, <1>5

\* Once an episode is given up nothing is promised any more, and nothing happens.
LEMMA LifecycleTorn ==
  ASSUME LifecycleInv, LifecycleInv', torn, [Next]_vars
  PROVE  UNCHANGED <<mode, current, dirs, closing, torn>>
<1>1. phase # "loop"
  BY DEF LifecycleInv, ReliableInv
<1>2. CASE UNCHANGED <<dirs, torn>> /\ phase' # "loop"
  BY <1>1, <1>2 DEF mode, current, closing
<1>3. ~HandleTap /\ ~InterruptHandling
  BY <1>1 DEF HandleTap, StartHandled, StartHandlingRaises, StartBlocked, StopHandled,
     PauseHandled, ResumeHandled, GestureIgnored, Handling, InterruptHandling, InterruptStart,
     InterruptStop, InterruptPause, InterruptResume, Cut
<1>4. CASE ShutdownFinalize \/ KillLoggers \/ Exit
  BY <1>2, <1>4
  DEF ShutdownFinalize, RecordingStopped, RecordingStopRaises, loggingVars, KillLoggers,
      mainLoggerVars, Exit
<1>5. ASSUME \/ \E e \in EpisodeEvent : Tap(e)
             \/ \E l \in Loggers : UpdateRecordingState(l) \/ LogSample(l)
      PROVE  UNCHANGED <<mode, current, dirs, closing, torn>>
  BY <1>1, <1>2, <1>5 DEF Tap, mainLoggerVars, UpdateRecordingState, LogSample
<1>6. CASE \/ PressQuit \/ ReadinessChange \/ RetriedTapAges \/ ProcessQuit \/ QuitSwallowed
           \/ Interrupt \/ LoggerCrash \/ UNCHANGED vars
  BY <1>1, <1>2, <1>6
  DEF PressQuit, ReadinessChange, RetriedTapAges, ProcessQuit, QuitSwallowed, Interrupt,
      LoggerCrash, vars, mainLoggerVars
<1> QED BY <1>3, <1>4, <1>5, <1>6 DEF Next, Off

\* SIGTERM inside a handler turns the station off as it does between two, or has
\* torn a start, a stop or a pause: the lifecycle's GiveUp.
LEMMA LifecycleInterrupts ==
  ASSUME Reliable, Loggers # {}, LifecycleInv, LifecycleInv', InterruptHandling
  PROVE  Lifecycle!Off \/ Lifecycle!GiveUp
<1> USE DEF Cut, storeVars
<1>1. /\ phase = "loop" /\ phase' = "finalize" /\ logger_up /\ Drained /\ ~torn
      /\ UNCHANGED <<episode_dir, lost>>
  BY DEF InterruptHandling, InterruptStart, InterruptStop, InterruptPause, InterruptResume,
         LifecycleInv, ReliableInv, Reliable
<1>2. closing = {} /\ \A l \in Loggers : episode_dir[l] = Recording
  BY <1>1, DrainedIsWritten, FollowsWhenDrained DEF LifecycleInv, ReliableInv, Drained
<1>3. mode' = "off" /\ current' = None /\ mode # "off" /\ current = Recording
  BY <1>1 DEF mode, current, LifecycleInv, TypeInv, TypeOK, ManagerTypeOK, SystemState
<1>4. CASE torn'
  <2>1. closing' = {}
    BY <1>4 DEF closing
  <2>2. mode \in {"idle", "recording"}
    BY <1>1, <1>4 DEF InterruptHandling, InterruptStart, InterruptStop, InterruptPause,
       InterruptResume, mode
  <2>3. \/ UNCHANGED dirs
        \/ /\ mode = "idle"
           /\ \E n \in Episode : (\A u \in dirs : u < n) /\ dirs' = dirs \cup {n}
    <3>1. CASE InterruptStart
      <4>1. mode = "idle"
        BY <1>1, <3>1 DEF InterruptStart, mode
      <4>2. StartCut("no_dir") \/ StartCut("broken") \/ StartCut("unbegun")
        BY <3>1 DEF InterruptStart
      <4> QED BY <4>1, <4>2
              DEF StartCut, ActiveRequested, RecordingBroken, IsNextEpisodeIdx, loggingVars
    <3>2. CASE ~InterruptStart
      BY <3>2 DEF InterruptHandling, InterruptStop, InterruptPause, InterruptResume, StopCut,
         RecordingStopCut, PauseCut, ResumeCut, loggingVars
    <3> QED BY <3>1, <3>2
  <2> QED BY <1>2, <1>3, <1>4, <2>1, <2>2, <2>3
          DEF Lifecycle!GiveUp, Lifecycle!None, None, Lifecycle!Episode, Episode
<1>5. CASE ~torn'
  <2>1. dirs' = dirs
    BY <1>1, <1>5
    DEF InterruptHandling, InterruptStart, InterruptStop, InterruptPause, InterruptResume,
        StartCut, ActiveRequested, ResumeCut, loggingVars
  <2>2. \A l \in Loggers : command'[l].dir = None
    <3>1. \A l \in Loggers : command'[l] \in {NoCommand, PauseCommand, ResumeCommand}
      BY <1>1, <1>5
      DEF InterruptHandling, InterruptStart, InterruptStop, InterruptPause, InterruptResume,
          Tell, Drained
    <3> QED BY <3>1 DEF NoCommand, PauseCommand, ResumeCommand
  <2>3. NothingLost'
    BY DEF LifecycleInv, ReliableInv
  <2>4. \A l \in Loggers : NotWritten(l)' = {Recording} \ {None}
    BY <1>1, <1>2, <1>5, <2>2, <2>3 DEF NothingLost, NotWritten
  <2>5. closing' = (UNION {NotWritten(l)' : l \in Loggers}) \ {None}
    BY <1>3, <1>5 DEF closing
  <2>6. closing' = {Recording} \ {None}
    BY <2>4, <2>5
  <2>7. torn' = torn
    BY <1>1, <1>5 DEF LifecycleInv, TypeInv, TypeOK
  <2> QED BY <1>1, <1>2, <1>3, <2>1, <2>6, <2>7 DEF Lifecycle!Off, Lifecycle!None, None
<1> QED BY <1>4, <1>5

LEMMA LifecycleStep ==
  ASSUME Reliable, Loggers # {}, LifecycleInv, LifecycleInv', [Next]_vars
  PROVE  [Lifecycle!Next]_<<mode, current, dirs, closing, torn>>
<1>1. CASE HandleTap
  BY <1>1, LifecycleHandling
<1>2. ASSUME ~torn, \E l \in Loggers : UpdateRecordingState(l) \/ LogSample(l)
      PROVE  Lifecycle!Next \/ UNCHANGED <<mode, current, dirs, closing, torn>>
  BY <1>2, LifecyclePolling
<1>3. CASE ProcessQuit \/ Interrupt \/ InterruptHandling
  BY <1>3, LifecycleLeaves, LifecycleInterrupts DEF ProcessQuit, Interrupt, Lifecycle!Next
<1>4. CASE ~torn /\ ShutdownFinalize
  BY <1>4, LifecycleFinalizes
<1>5. CASE ~torn /\ KillLoggers
  BY <1>5, LifecycleKills
<1>6. CASE LoggerCrash
  BY <1>6 DEF LoggerCrash, Reliable
<1>7. CASE Exit
  BY <1>7 DEF Exit, loggerVars, storeVars, mode, current, closing, NotWritten
<1>8. CASE UNCHANGED <<managerVars, mainLoggerVars, phase, torn, loggerVars>>
  BY <1>8 DEF managerVars, mainLoggerVars, loggerVars, storeVars, mode, current, Recording,
              closing, NotWritten
<1>9. CASE PressQuit \/ ReadinessChange \/ RetriedTapAges \/ QuitSwallowed \/ UNCHANGED vars
  BY <1>8, <1>9 DEF PressQuit, ReadinessChange, RetriedTapAges, QuitSwallowed, vars
<1>10. ASSUME \E e \in EpisodeEvent : Tap(e)
       PROVE  UNCHANGED <<managerVars, mainLoggerVars, phase, torn, loggerVars>>
  BY <1>10 DEF Tap
<1>11. CASE torn
  BY <1>11, LifecycleTorn
<1> QED
  BY <1>1, <1>2, <1>3, <1>4, <1>5, <1>6, <1>7, <1>8, <1>9, <1>10, <1>11 DEF Next, Off

\* A station whose loggers answer and keep up implements EpisodeLifecycle: an
\* ended episode is written out before the next one starts, and `q` or SIGTERM
\* has the episode it interrupts written out, unless SIGTERM catches the very
\* start, stop or pause of one: that one is given up.
THEOREM ReliableStationImplementsLifecycle ==
  ASSUME Reliable, Loggers # {}
  PROVE  Spec => ImplementsLifecycleSteps
<1>1. Init => LifecycleInv
  BY TypeInit, FreshInit, ReliableInit, ModesInit DEF LifecycleInv
<1>2. LifecycleInv /\ [Next]_vars => LifecycleInv'
  BY TypeStep, FreshStep, ReliableStep, ModesStep DEF LifecycleInv
<1>3. LifecycleInv /\ LifecycleInv' /\ [Next]_vars
        => [Lifecycle!Next]_<<mode, current, dirs, closing, torn>>
  BY LifecycleStep
<1> QED
  BY <1>1, <1>2, <1>3, LifecycleInit, PTL DEF Spec, ImplementsLifecycleSteps

=============================================================================
