-------------------------- MODULE EpisodeRefinement --------------------------
(***************************************************************************)
(* The refinement mapping from EpisodeControl to EpisodeLifecycle: what    *)
(* the operator sees, in terms of what the coordinator and the loggers     *)
(* hold.                                                                   *)
(***************************************************************************)
EXTENDS EpisodeControl

mode ==
  CASE phase # "loop" -> "off"
    [] phase = "loop" /\ episode_state = "IDLE" -> "idle"
    [] phase = "loop" /\ episode_state = "ACTIVE" -> "recording"
    [] phase = "loop" /\ episode_state = "PAUSED" -> "paused"

current == IF phase = "loop" THEN Recording ELSE None

\* What a logger holds, will hold or has dropped is not written out.
NotWritten(l) == ({episode_dir[l], command[l].dir} \cup lost[l]) \ {None}

\* An episode given up is not being written out.
closing == IF torn THEN {} ELSE (UNION {NotWritten(l) : l \in Loggers}) \ {current}

Lifecycle == INSTANCE EpisodeLifecycle WITH used <- dirs, given_up <- torn

\* A station whose loggers answer and keep up gives the operator the lifecycle
\* of EpisodeLifecycle: every ended episode is written out before the next one
\* begins, and `q` or SIGTERM has the episode it interrupts written out, unless
\* SIGTERM tears a start, a stop or a pause: that one episode is given up.
ImplementsLifecycle == Lifecycle!Spec

\* The part of it that says what a step may do.
ImplementsLifecycleSteps ==
  Lifecycle!Init /\ [][Lifecycle!Next]_<<mode, current, dirs, closing, torn>>

=============================================================================
