----------------------------- MODULE EpisodeSync -----------------------------
(***************************************************************************)
(* The episode states of the two coordinators of a managed robot: the      *)
(* gello PC, where the operator is, and the robot PC, whose keyboard is    *)
(* off and whose MainLogger has no loggers                                 *)
(* (orchestration/episode_manager.py, activation_monitor.py).              *)
(*                                                                         *)
(* The coordinators share one topic, EPISODE_STATE, of which only the      *)
(* newest message is ever read.  On each PC a monitor thread peeks it five *)
(* times a second and applies what it finds, again and again for as long   *)
(* as that stays the newest; on the gello PC it does so between any two    *)
(* steps of the thread that handles the operator's gestures.               *)
(*                                                                         *)
(* Here every logger of the gello PC answers and no write fails:           *)
(* EpisodeControl is about those failures.                                 *)
(***************************************************************************)
EXTENDS Integers

CONSTANTS
  MaxEpisodes,    \* bound: as in EpisodeManager, on both PCs
  MaxRequests     \* bound: delete requests the operator makes

ASSUME SyncAssumption == MaxEpisodes \in Nat /\ MaxRequests \in Nat

VARIABLES
  g_state, g_logging, g_count, g_is_recording, g_idx, g_last, g_dirs,
  r_state, r_logging, r_count, r_is_recording, r_idx, r_last, r_dirs,
  topic,       \* the newest message of EPISODE_STATE
  to_send,     \* the broadcast the gello PC's gesture has still to make
  g_seen,      \* what the monitor of the gello PC has peeked and not applied
  r_seen,      \* what the monitor of the robot PC has
  requests,    \* delete requests made (history)
  deletions,   \* episodes the robot PC has deleted (history)
  asked        \* the completed episode the operator last asked to delete (history)

Gello == INSTANCE EpisodeManager
  WITH episode_state <- g_state, logging_state <- g_logging, episode_count <- g_count,
       is_recording <- g_is_recording, episode_idx <- g_idx,
       last_episode_idx <- g_last, dirs <- g_dirs

Robot == INSTANCE EpisodeManager
  WITH episode_state <- r_state, logging_state <- r_logging, episode_count <- r_count,
       is_recording <- r_is_recording, episode_idx <- r_idx,
       last_episode_idx <- r_last, dirs <- r_dirs

gelloVars == <<g_state, g_logging, g_count, g_is_recording, g_idx, g_last, g_dirs>>
robotVars == <<r_state, r_logging, r_count, r_is_recording, r_idx, r_last, r_dirs>>
historyVars == <<requests, deletions, asked>>
syncVars == <<gelloVars, robotVars, topic, to_send, g_seen, r_seen, historyVars>>

NoEpisode == -1
Episode == 0 .. MaxEpisodes - 1
Transition == {"start", "stop", "pause", "resume"}
Nothing == "none"

NoMessage == [source |-> "none", event |-> "none", idx |-> 0]
Message == {NoMessage}
             \cup [source : {"gello"}, event : Transition \cup {"delete_request"}, idx : Nat]
             \cup [source : {"robot"}, event : {"delete"}, idx : Nat]

SyncTypeOK ==
  /\ Gello!ManagerTypeOK /\ g_count # NoEpisode
  /\ Robot!ManagerTypeOK /\ r_count # NoEpisode
  /\ topic \in Message /\ g_seen \in Message /\ r_seen \in Message
  /\ to_send \in Transition \cup {"delete_request", Nothing}
  /\ requests \in 0 .. MaxRequests
  /\ deletions \in Nat
  /\ asked \in Episode \cup {NoEpisode}

\* Bound: the robot PC finds no number above those of the gello PC on its disk
\* and makes at most one directory per start, so it never runs out of numbers.
SyncInit ==
  /\ Gello!ManagerInit /\ Robot!ManagerInit
  /\ \A d \in r_dirs : \E e \in g_dirs : d <= e
  /\ topic = NoMessage /\ to_send = Nothing
  /\ g_seen = NoMessage /\ r_seen = NoMessage
  /\ requests = 0 /\ deletions = 0 /\ asked = NoEpisode

-----------------------------------------------------------------------------
(* The gello PC's main thread: a gesture changes the state, then tells the *)
(* peer of it with the count it finds by then.                             *)

\* Bound: no episode is begun when every number is used up.
HasRoom == \E n \in Episode : Gello!IsNextEpisodeIdx(n)

Handled(event) ==
  /\ to_send = Nothing
  /\ to_send' = event
  /\ UNCHANGED <<robotVars, topic, g_seen, r_seen>>

GelloStart ==
  /\ g_state = "IDLE" /\ HasRoom
  /\ Handled("start") /\ Gello!Start("started")
  /\ UNCHANGED historyVars

GelloStop ==
  /\ g_state = "ACTIVE"
  /\ Handled("stop") /\ Gello!Stop
  /\ UNCHANGED historyVars

GelloPause ==
  /\ g_state = "ACTIVE"
  /\ Handled("pause") /\ Gello!Pause(TRUE)
  /\ UNCHANGED historyVars

GelloResume ==
  /\ g_state = "PAUSED"
  /\ Handled("resume") /\ Gello!Resume(TRUE)
  /\ UNCHANGED historyVars

\* A triple tap, in any state.
RequestRemoteDelete ==
  /\ requests < MaxRequests
  /\ Handled("delete_request")
  /\ requests' = requests + 1
  /\ asked' = g_last
  /\ UNCHANGED <<gelloVars, deletions>>

Broadcast ==
  /\ to_send # Nothing
  /\ topic' = [source |-> "gello", event |-> to_send, idx |-> g_count]
  /\ to_send' = Nothing
  /\ UNCHANGED <<gelloVars, robotVars, g_seen, r_seen, historyVars>>

-----------------------------------------------------------------------------
(* The monitor threads.  Neither PC applies a message of its own.          *)

GelloPeek ==
  /\ g_seen = NoMessage
  /\ g_seen' = topic
  /\ UNCHANGED <<gelloVars, robotVars, topic, to_send, r_seen, historyVars>>

GelloApply ==
  /\ g_seen # NoMessage
  /\ g_seen' = NoMessage
  /\ IF g_seen.source = "robot" THEN Gello!AppliedDelete(g_seen.idx) ELSE UNCHANGED gelloVars
  /\ UNCHANGED <<robotVars, topic, to_send, r_seen, historyVars>>

RobotPeek ==
  /\ r_seen = NoMessage
  /\ r_seen' = topic
  /\ UNCHANGED <<gelloVars, robotVars, topic, to_send, g_seen, historyVars>>

\* Seeded fault: the message of an episode already known is a duplicate.
RobotTransitionOnce(msg) ==
  IF msg.idx = r_count /\ r_state # "IDLE" THEN UNCHANGED robotVars
  ELSE \/ /\ msg.event = "start"
          /\ \E o \in {"started", "not_allowed"} : Robot!AppliedStart(msg.idx, o)
       \/ msg.event = "stop" /\ Robot!AppliedStop(msg.idx)
       \/ msg.event = "pause" /\ Robot!AppliedPause(msg.idx, FALSE)
       \/ msg.event = "resume" /\ Robot!AppliedResume(msg.idx, FALSE)

\* With no loggers to tell, "all told" is never so.
RobotTransition(msg) ==
  \/ msg.event = "start" /\ \E o \in {"started", "not_allowed"} : Robot!AppliedStart(msg.idx, o)
  \/ msg.event = "stop" /\ Robot!AppliedStop(msg.idx)
  \/ msg.event = "pause" /\ Robot!AppliedPause(msg.idx, FALSE)
  \/ msg.event = "resume" /\ Robot!AppliedResume(msg.idx, FALSE)

\* Seeded fault: delete_last(broadcast=False).
AcknowledgedNever(deleted) == UNCHANGED topic

\* delete_last(broadcast=True): the answer replaces whatever is newest.
Acknowledged(deleted) ==
  IF deleted = {} THEN UNCHANGED topic
  ELSE \E e \in deleted : topic' = [source |-> "robot", event |-> "delete", idx |-> e]

RobotApplyTransition ==
  /\ r_seen.event \in Transition
  /\ r_seen' = NoMessage
  /\ RobotTransition(r_seen)
  /\ UNCHANGED <<gelloVars, topic, to_send, g_seen, historyVars>>

RobotApplyDelete ==
  /\ r_seen.event = "delete_request"
  /\ r_seen' = NoMessage
  /\ Robot!DeleteLast
  /\ Acknowledged(r_dirs \ r_dirs')
  /\ deletions' = IF r_dirs' = r_dirs THEN deletions ELSE deletions + 1
  /\ UNCHANGED <<gelloVars, to_send, g_seen, requests, asked>>

RobotIgnores ==
  /\ r_seen.source = "robot"
  /\ r_seen' = NoMessage
  /\ UNCHANGED <<gelloVars, robotVars, topic, to_send, g_seen, historyVars>>

RobotApply == RobotApplyTransition \/ RobotApplyDelete \/ RobotIgnores

-----------------------------------------------------------------------------
SyncNext ==
  \/ GelloStart \/ GelloStop \/ GelloPause \/ GelloResume \/ RequestRemoteDelete
  \/ Broadcast
  \/ GelloPeek \/ GelloApply \/ RobotPeek \/ RobotApply

SyncSpec == SyncInit /\ [][SyncNext]_syncVars

\* A gesture once handled is broadcast and both monitor threads go on.
Fairness ==
  /\ WF_syncVars(Broadcast)
  /\ WF_syncVars(GelloPeek) /\ WF_syncVars(GelloApply)
  /\ WF_syncVars(RobotPeek) /\ WF_syncVars(RobotApply)

FairSpec == SyncSpec /\ Fairness

-----------------------------------------------------------------------------
(* Properties.                                                             *)

\* Though a request is applied again five times a second until something newer
\* is published, it costs at most one episode.
RequestDeletesOnce == deletions <= requests

\* What the robot PC deletes is its newest completed episode: never one being
\* recorded or paused, and never an older one.
DeletesNewestCompleted ==
  [][\A e \in r_dirs \ r_dirs' :
       /\ ~(r_logging \in {"ACTIVE", "PAUSE"} /\ e = r_idx)
       /\ \A d \in r_dirs : d <= e]_syncVars

\* Whatever transitions the robot PC misses, it ends in the state of the gello
\* PC, as long as no delete request has taken the place of a transition.
RobotFollows ==
  \A s \in {"IDLE", "ACTIVE", "PAUSED"} :
    (g_state = s /\ requests = 0) ~> (r_state = s \/ g_state # s \/ requests > 0)

\* README.md, Episode Control: "Triple tap | Any | Delete last episode".
TripleTapDeletesLast == \A e \in Episode : asked = e ~> e \notin g_dirs

=============================================================================
