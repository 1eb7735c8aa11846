--------------------------- MODULE EpisodeManager ---------------------------
(***************************************************************************)
(* The episode state machine of one coordinator: class EpisodeManager      *)
(* (modpack/orchestration/episode_manager.py) together with the MainLogger *)
(* object it drives (robologger/loggers/main_logger.py) and the episode    *)
(* directories MainLogger keeps under run_dir.                             *)
(*                                                                         *)
(* One action per method.  What a method learns from its environment (does *)
(* every logger answer, does a write succeed) is a parameter or a          *)
(* disjunct, so that the modules that compose this one decide which        *)
(* environments are possible and which commands reach the loggers.         *)
(***************************************************************************)
EXTENDS Integers

CONSTANT
  MaxEpisodes     \* bound: directories are numbered 0 .. MaxEpisodes - 1

ASSUME MaxEpisodesAssumption == MaxEpisodes \in Nat

VARIABLES
  episode_state,      \* EpisodeManager.episode_state
  logging_state,      \* EpisodeManager.logging_state
  episode_count,      \* EpisodeManager.episode_count; None after a failed start
  is_recording,       \* MainLogger.is_recording
  episode_idx,        \* MainLogger.episode_idx
  last_episode_idx,   \* MainLogger.last_episode_idx
  dirs                \* indices of the episode_NNNNNN directories under run_dir

managerVars == <<episode_state, logging_state, episode_count>>
mainLoggerVars == <<is_recording, episode_idx, last_episode_idx, dirs>>
loggingVars == <<logging_state, is_recording, episode_idx, last_episode_idx, dirs>>

None == -1
Episode == 0 .. MaxEpisodes - 1

SystemState == {"IDLE", "ACTIVE", "PAUSED"}

\* RESUME and DELETE of the enumeration are only ever passed as a request.
LoggingState == {"IDLE", "ACTIVE", "PAUSE", "STOPPED"}

ManagerTypeOK ==
  /\ episode_state \in SystemState
  /\ logging_state \in LoggingState
  /\ episode_count \in Nat \cup {None}
  /\ is_recording \in BOOLEAN
  /\ episode_idx \in Episode \cup {None}
  /\ last_episode_idx \in Episode \cup {None}
  /\ dirs \in SUBSET Episode

\* A coordinator finds on disk whatever earlier sessions left there.
ManagerInit ==
  /\ episode_state = "IDLE"
  /\ logging_state = "IDLE"
  /\ episode_count = 0
  /\ is_recording = FALSE
  /\ episode_idx = None
  /\ last_episode_idx = None
  /\ dirs \in SUBSET Episode

-----------------------------------------------------------------------------
(* _get_next_episode_idx: one more than the largest index on disk.         *)

\* Seeded fault: number the episodes from the last completed one.
IsNextEpisodeIdxFromLast(n) == n = last_episode_idx + 1

IsNextEpisodeIdx(n) ==
  /\ \A d \in dirs : d < n
  /\ n = 0 \/ n - 1 \in dirs

-----------------------------------------------------------------------------
(* The branches of _logging_handler.                                       *)

CanStartRecording == logging_state \in {"IDLE", "STOPPED"}

\* start_recording stops a recording it finds still running.
LastAfterImplicitStop ==
  IF is_recording THEN episode_idx ELSE last_episode_idx

\* start_recording succeeds: the directory exists and every logger was told.
RecordingStarted(n) ==
  /\ CanStartRecording
  /\ IsNextEpisodeIdx(n)
  /\ logging_state' = "ACTIVE"
  /\ is_recording' = TRUE
  /\ episode_idx' = n
  /\ dirs' = dirs \cup {n}
  /\ last_episode_idx' = LastAfterImplicitStop

\* validate_logger_endpoints raises: some logger does not answer.
RecordingRefused ==
  /\ CanStartRecording
  /\ is_recording' = FALSE
  /\ last_episode_idx' = LastAfterImplicitStop
  /\ UNCHANGED <<logging_state, episode_idx, dirs>>

\* Something after `is_recording = True` raises: the directory (made says
\* whether it exists by then), the metadata, or a put to one of the loggers.
RecordingBroken(n, made) ==
  /\ CanStartRecording
  /\ IsNextEpisodeIdx(n)
  /\ is_recording' = TRUE
  /\ episode_idx' = n
  /\ dirs' = IF made THEN dirs \cup {n} ELSE dirs
  /\ last_episode_idx' = LastAfterImplicitStop
  /\ UNCHANGED logging_state

\* The handler was asked for ACTIVE in a state that does not allow it.
RecordingNotAllowed ==
  /\ ~CanStartRecording
  /\ UNCHANGED loggingVars

\* The ways in which asking the handler for ACTIVE can end.
ActiveRequested(outcome) ==
  \/ outcome = "started" /\ \E n \in Episode : RecordingStarted(n)
  \/ outcome = "refused" /\ RecordingRefused
  \/ outcome = "no_dir" /\ \E n \in Episode : RecordingBroken(n, FALSE)
  \/ outcome = "broken" /\ \E n \in Episode : RecordingBroken(n, TRUE)
  \/ outcome = "not_allowed" /\ RecordingNotAllowed

\* all_told: at least one logger is alive and every put to one succeeded.
RecordingPaused(all_told) ==
  IF logging_state = "ACTIVE"
  THEN /\ logging_state' = "PAUSE"
       /\ is_recording' = (is_recording /\ ~all_told)
       /\ UNCHANGED <<episode_idx, last_episode_idx, dirs>>
  ELSE UNCHANGED loggingVars

RecordingResumed(all_told) ==
  IF logging_state = "PAUSE"
  THEN /\ logging_state' = "ACTIVE"
       /\ is_recording' = (is_recording \/ all_told)
       /\ UNCHANGED <<episode_idx, last_episode_idx, dirs>>
  ELSE UNCHANGED loggingVars

\* Does asking for STOPPED reach the body of MainLogger.stop_recording?  A
\* paused episode has is_recording set again first, so it does.
StopsRecording ==
  \/ logging_state = "PAUSE"
  \/ logging_state = "ACTIVE" /\ is_recording

\* Seeded fault: the logging state is left as it was.
RecordingStoppedInPlace ==
  IF StopsRecording
  THEN /\ is_recording' = FALSE
       /\ last_episode_idx' = episode_idx
       /\ UNCHANGED <<logging_state, episode_idx, dirs>>
  ELSE UNCHANGED loggingVars

\* Seeded fault: the completed episode is not remembered.
RecordingStoppedForgotten ==
  IF StopsRecording
  THEN /\ logging_state' = "STOPPED"
       /\ is_recording' = FALSE
       /\ UNCHANGED <<episode_idx, last_episode_idx, dirs>>
  ELSE UNCHANGED loggingVars

RecordingStopped ==
  IF StopsRecording
  THEN /\ logging_state' = "STOPPED"
       /\ is_recording' = FALSE
       /\ last_episode_idx' = episode_idx
       /\ UNCHANGED <<episode_idx, dirs>>
  ELSE UNCHANGED loggingVars

\* Seeded fault: is_recording is cleared after the puts instead of before.
RecordingStopRaisesEarly == StopsRecording /\ UNCHANGED loggingVars

\* A put to a logger or the metadata write raises; nothing above catches it.
RecordingStopRaises ==
  /\ StopsRecording
  /\ is_recording' = FALSE
  /\ UNCHANGED <<logging_state, episode_idx, last_episode_idx, dirs>>

-----------------------------------------------------------------------------
(* The episode controls.                                                   *)

\* `self.episode_count += 1` on a count a failed start has left at None.
StartRaises == episode_count = None

\* A start the readiness check let through.  What _logging_handler
\* returns becomes the count: the index when it started, None otherwise.
Start(outcome) ==
  /\ ~StartRaises
  /\ episode_state' = "ACTIVE"
  /\ ActiveRequested(outcome)
  /\ episode_count' = IF outcome = "started" THEN episode_idx' ELSE None

Stop ==
  /\ episode_state' = "IDLE"
  /\ RecordingStopped
  /\ UNCHANGED episode_count

StopFails ==
  /\ episode_state' = "IDLE"
  /\ RecordingStopRaises
  /\ UNCHANGED episode_count

Pause(all_told) ==
  /\ episode_state' = "PAUSED"
  /\ RecordingPaused(all_told)
  /\ UNCHANGED episode_count

Resume(all_told) ==
  /\ episode_state' = "ACTIVE"
  /\ RecordingResumed(all_told)
  /\ UNCHANGED episode_count

-----------------------------------------------------------------------------
(* What each control has done when SIGTERM ends the coordinator inside it. *)
(* Up to its first change to MainLogger it is as if it had not been called *)
(* ("unbegun"), but for the episode state; once logging_state is set it is *)
(* as if it had returned, but for the count a start was to set.            *)

StartCut(outcome) ==
  /\ ~StartRaises
  /\ episode_state' = "ACTIVE"
  /\ episode_count' = episode_count + 1
  /\ \/ outcome = "unbegun" /\ UNCHANGED loggingVars
     \/ ActiveRequested(outcome)

\* stop_recording clears is_recording first and last_episode_idx last.
RecordingStopCut ==
  /\ StopsRecording
  /\ is_recording' = FALSE
  /\ last_episode_idx' \in {last_episode_idx, episode_idx}
  /\ UNCHANGED <<logging_state, episode_idx, dirs>>

StopCut ==
  /\ episode_state' = "IDLE"
  /\ RecordingStopCut
  /\ UNCHANGED episode_count

\* Every logger is told before is_recording changes.
PauseCut ==
  /\ logging_state = "ACTIVE"
  /\ episode_state' = "PAUSED"
  /\ is_recording' = FALSE
  /\ UNCHANGED <<episode_count, logging_state, episode_idx, last_episode_idx, dirs>>

ResumeCut ==
  /\ logging_state = "PAUSE"
  /\ episode_state' = "ACTIVE"
  /\ is_recording' = TRUE
  /\ UNCHANGED <<episode_count, logging_state, episode_idx, last_episode_idx, dirs>>

-----------------------------------------------------------------------------
(* delete_last, by way of MainLogger.delete_last_episode.                  *)

\* The last completed episode or, when none is remembered, the largest one.
IsDeleteTarget(e) ==
  IF last_episode_idx # None
  THEN e = last_episode_idx
  ELSE e \in dirs /\ \A d \in dirs : d <= e

NothingToDelete == last_episode_idx = None /\ dirs = {}

\* Seeded fault: a recording does not keep MainLogger from deleting.
DeleteLastAnyTime ==
  /\ ~NothingToDelete
  /\ UNCHANGED <<episode_state, is_recording, episode_idx>>
  /\ \E e \in dirs :
       /\ IsDeleteTarget(e)
       /\ last_episode_idx' = None
       /\ dirs' = dirs \ {e}
       /\ logging_state' = "IDLE"
       /\ episode_count' = IF e = 0 THEN 0 ELSE e - 1

DeleteLast ==
  /\ UNCHANGED <<episode_state, is_recording, episode_idx>>
  /\ IF is_recording \/ NothingToDelete
     THEN UNCHANGED <<logging_state, episode_count, last_episode_idx, dirs>>
     ELSE \E e \in Episode :
            /\ IsDeleteTarget(e)
            /\ last_episode_idx' = None
            /\ dirs' = dirs \ {e}
            /\ IF e \in dirs
               THEN /\ logging_state' = "IDLE"
                    /\ episode_count' = IF e = 0 THEN 0 ELSE e - 1
               ELSE UNCHANGED <<logging_state, episode_count>>

-----------------------------------------------------------------------------
(* apply_remote_state: a transition the other coordinator has made.  The   *)
(* index is the sender's count; the recording gets a number of its own.    *)

AppliedStart(idx, outcome) ==
  /\ episode_state' = "ACTIVE"
  /\ episode_count' = idx
  /\ ActiveRequested(outcome)

AppliedStop(idx) ==
  /\ episode_state' = "IDLE"
  /\ episode_count' = idx
  /\ RecordingStopped

AppliedPause(idx, all_told) ==
  /\ episode_state' = "PAUSED"
  /\ episode_count' = idx
  /\ RecordingPaused(all_told)

AppliedResume(idx, all_told) ==
  /\ episode_state' = "ACTIVE"
  /\ episode_count' = idx
  /\ RecordingResumed(all_told)

\* Seeded fault: the count goes below zero.
AppliedDeleteUnbounded(idx) ==
  /\ episode_count' = idx - 1
  /\ UNCHANGED <<episode_state, loggingVars>>

\* "delete": the other coordinator has deleted an episode of its own.
AppliedDelete(idx) ==
  /\ episode_count' = IF idx = 0 THEN 0 ELSE idx - 1
  /\ UNCHANGED <<episode_state, loggingVars>>

=============================================================================
