------------------------- MODULE EpisodeDataProofs -------------------------
(***************************************************************************)
(* Proofs about what is kept of the episodes: which of them the two PCs    *)
(* keep (EpisodeSync), for every number of episodes and delete requests,   *)
(* and what is kept of the videos of one (VideoSpool), for every number of *)
(* cameras and frames and every size of a chunk.                           *)
(***************************************************************************)
EXTENDS EpisodeSync, VideoSpool, SequenceTheorems, WellFoundedInduction, TLAPS

\* The definitions of the two instances, by their values.
LEMMA Shared ==
  /\ Gello!None = NoEpisode /\ Robot!None = NoEpisode /\ NoEpisode \notin Nat
  /\ Gello!Episode = Episode /\ Robot!Episode = Episode /\ Episode \subseteq Nat
  BY SyncAssumption
  DEF NoEpisode, Gello!None, Robot!None, Episode, Gello!Episode, Robot!Episode

-----------------------------------------------------------------------------
(* Type correctness.  Neither count is ever missing: every start of the    *)
(* gello PC succeeds, and the robot PC takes its counts from the topic.    *)

LEMMA MessageParts ==
  ASSUME NEW m \in Message
  PROVE  /\ m.idx \in Nat
         /\ m.event \in Transition \cup {"delete_request", "delete", "none"}
         /\ m.source = "robot" <=> m.event = "delete"
         /\ m.event = "none" <=> m = NoMessage
  BY DEF Message, NoMessage, Transition

LEMMA GelloActs ==
  ASSUME Gello!ManagerTypeOK, g_count # NoEpisode,
         \/ Gello!Start("started") \/ Gello!Stop
         \/ Gello!Pause(TRUE) \/ Gello!Resume(TRUE)
         \/ \E idx \in Nat : Gello!AppliedDelete(idx)
  PROVE  Gello!ManagerTypeOK' /\ g_count' # NoEpisode
<1> USE Shared DEF Gello!ManagerTypeOK, Gello!SystemState, Gello!LoggingState, Gello!loggingVars
<1>1. CASE Gello!Start("started")
  BY <1>1
  DEF Gello!Start, Gello!ActiveRequested, Gello!RecordingStarted, Gello!LastAfterImplicitStop
<1>2. CASE Gello!Stop
  BY <1>2 DEF Gello!Stop, Gello!RecordingStopped
<1>3. CASE Gello!Pause(TRUE) \/ Gello!Resume(TRUE)
  BY <1>3 DEF Gello!Pause, Gello!Resume, Gello!RecordingPaused, Gello!RecordingResumed
<1>4. ASSUME NEW idx \in Nat, Gello!AppliedDelete(idx)
      PROVE  Gello!ManagerTypeOK' /\ g_count' # NoEpisode
  BY <1>4 DEF Gello!AppliedDelete
<1> QED BY <1>1, <1>2, <1>3, <1>4

LEMMA RobotActs ==
  ASSUME Robot!ManagerTypeOK, r_count # NoEpisode, NEW m \in Message,
         RobotTransition(m) \/ Robot!DeleteLast
  PROVE  Robot!ManagerTypeOK' /\ r_count' # NoEpisode
<1> USE Shared DEF Robot!ManagerTypeOK, Robot!SystemState, Robot!LoggingState, Robot!loggingVars
<1>1. m.idx \in Nat
  BY MessageParts
<1>2. ASSUME NEW o \in {"started", "not_allowed"}, Robot!AppliedStart(m.idx, o)
      PROVE  Robot!ManagerTypeOK' /\ r_count' # NoEpisode
  BY <1>1, <1>2
  DEF Robot!AppliedStart, Robot!ActiveRequested, Robot!RecordingStarted, Robot!RecordingNotAllowed,
      Robot!LastAfterImplicitStop
<1>3. CASE Robot!AppliedStop(m.idx)
  BY <1>1, <1>3 DEF Robot!AppliedStop, Robot!RecordingStopped
<1>4. CASE Robot!AppliedPause(m.idx, FALSE)
  BY <1>1, <1>4 DEF Robot!AppliedPause, Robot!RecordingPaused
<1>5. CASE Robot!AppliedResume(m.idx, FALSE)
  BY <1>1, <1>5 DEF Robot!AppliedResume, Robot!RecordingResumed
<1>6. CASE Robot!DeleteLast
  <2>1. UNCHANGED <<r_state, r_is_recording, r_idx>> /\ r_logging' \in {r_logging, "IDLE"}
    BY <1>6 DEF Robot!DeleteLast
  <2>2. r_dirs' \subseteq r_dirs /\ r_last' \in {r_last, NoEpisode}
    BY <1>6 DEF Robot!DeleteLast
  <2>3. r_count' \in {r_count} \cup Nat
    BY <1>6 DEF Robot!DeleteLast
  <2> QED BY <2>1, <2>2, <2>3
<1> QED BY <1>2, <1>3, <1>4, <1>5, <1>6 DEF RobotTransition

LEMMA SyncTypeInit == SyncInit => SyncTypeOK
<1> SUFFICES ASSUME SyncInit PROVE SyncTypeOK
  OBVIOUS
<1>1. Gello!ManagerTypeOK /\ g_count # NoEpisode
  <2>1. Gello!ManagerInit
    BY DEF SyncInit
  <2>2. g_count \in Nat /\ g_count # NoEpisode
    BY <2>1, Shared DEF Gello!ManagerInit
  <2> QED BY <2>1, <2>2
          DEF Gello!ManagerInit, Gello!ManagerTypeOK, Gello!SystemState, Gello!LoggingState
<1>2. Robot!ManagerTypeOK /\ r_count # NoEpisode
  <2>1. Robot!ManagerInit
    BY DEF SyncInit
  <2>2. r_count \in Nat /\ r_count # NoEpisode
    BY <2>1, Shared DEF Robot!ManagerInit
  <2> QED BY <2>1, <2>2
          DEF Robot!ManagerInit, Robot!ManagerTypeOK, Robot!SystemState, Robot!LoggingState
<1>3. requests \in 0 .. MaxRequests
  BY SyncAssumption DEF SyncInit
<1> QED BY <1>1, <1>2, <1>3 DEF SyncInit, SyncTypeOK, Message, Transition, Nothing

LEMMA SyncTypeStep == SyncTypeOK /\ [SyncNext]_syncVars => SyncTypeOK'
<1> SUFFICES ASSUME SyncTypeOK, [SyncNext]_syncVars PROVE SyncTypeOK'
  OBVIOUS
<1> USE DEF SyncTypeOK, historyVars
<1>0. /\ UNCHANGED gelloVars => Gello!ManagerTypeOK' /\ g_count' # NoEpisode
      /\ UNCHANGED robotVars => Robot!ManagerTypeOK' /\ r_count' # NoEpisode
  BY DEF gelloVars, robotVars, Gello!ManagerTypeOK, Robot!ManagerTypeOK
<1>1. CASE GelloStart \/ GelloStop \/ GelloPause \/ GelloResume
  <2>1. Gello!ManagerTypeOK' /\ g_count' # NoEpisode
    BY <1>1, GelloActs DEF GelloStart, GelloStop, GelloPause, GelloResume
  <2> QED BY <1>0, <1>1, <2>1
          DEF GelloStart, GelloStop, GelloPause, GelloResume, Handled, Transition
<1>2. CASE RequestRemoteDelete
  <2>1. g_last \in Episode \cup {NoEpisode}
    BY Shared DEF Gello!ManagerTypeOK
  <2> QED BY <1>0, <1>2, <2>1, SyncAssumption DEF RequestRemoteDelete, Handled
<1>3. CASE Broadcast
  <2>1. g_count \in Nat
    BY Shared DEF Gello!ManagerTypeOK
  <2> QED BY <1>0, <1>3, <2>1 DEF Broadcast, Message, Nothing
<1>4. CASE GelloPeek \/ RobotPeek
  BY <1>0, <1>4 DEF GelloPeek, RobotPeek
<1>5. CASE GelloApply
  <2>1. Gello!ManagerTypeOK' /\ g_count' # NoEpisode
    BY <1>0, <1>5, GelloActs, MessageParts DEF GelloApply
  <2> QED BY <1>0, <1>5, <2>1 DEF GelloApply, Message
<1>6. CASE RobotApplyTransition
  <2>1. Robot!ManagerTypeOK' /\ r_count' # NoEpisode
    BY <1>6, RobotActs DEF RobotApplyTransition
  <2> QED BY <1>0, <1>6, <2>1 DEF RobotApplyTransition, Message
<1>7. CASE RobotApplyDelete
  <2>1. Robot!ManagerTypeOK' /\ r_count' # NoEpisode
    BY <1>7, RobotActs DEF RobotApplyDelete
  <2>2. topic' \in Message
    BY <1>7, Shared DEF RobotApplyDelete, Acknowledged, Message, Robot!ManagerTypeOK
  <2> QED BY <1>0, <1>7, <2>1, <2>2 DEF RobotApplyDelete, Message
<1>8. CASE RobotIgnores
  BY <1>0, <1>8 DEF RobotIgnores, Message
<1>9. CASE UNCHANGED syncVars
  BY <1>0, <1>9 DEF syncVars
<1> QED
  BY <1>1, <1>2, <1>3, <1>4, <1>5, <1>6, <1>7, <1>8, <1>9 DEF SyncNext, RobotApply

\* Every reachable state is well typed; neither count is ever missing.
THEOREM SyncIsTyped == SyncSpec => []SyncTypeOK
  BY SyncTypeInit, SyncTypeStep, PTL DEF SyncSpec

-----------------------------------------------------------------------------
(* A request costs at most one episode.  A request not yet used is still   *)
(* to be sent, or it is what the robot PC has peeked or would peek next:   *)
(* these two count as one, because using one of them replaces the other.   *)

Unsent == IF to_send = "delete_request" THEN 1 ELSE 0
Unused == IF "delete_request" \in {topic.event, r_seen.event} THEN 1 ELSE 0

RequestInv == deletions + Unsent + Unused <= requests

LEMMA RequestInit == SyncInit => RequestInv
  BY DEF SyncInit, RequestInv, Unsent, Unused, NoMessage, Nothing

LEMMA RequestStep == SyncTypeOK /\ RequestInv /\ [SyncNext]_syncVars => RequestInv'
<1> SUFFICES ASSUME SyncTypeOK, RequestInv, [SyncNext]_syncVars PROVE RequestInv'
  OBVIOUS
<1>0. deletions \in Nat /\ requests \in Nat
  BY SyncAssumption DEF SyncTypeOK
<1> USE <1>0 DEF RequestInv, Unsent, Unused, historyVars, NoMessage
<1>1. CASE GelloStart \/ GelloStop \/ GelloPause \/ GelloResume
  BY <1>1 DEF GelloStart, GelloStop, GelloPause, GelloResume, Handled, Nothing
<1>2. CASE RequestRemoteDelete
  BY <1>2 DEF RequestRemoteDelete, Handled, Nothing
<1>3. CASE Broadcast
  BY <1>3 DEF Broadcast, Nothing
<1>4. CASE GelloPeek \/ GelloApply
  BY <1>4 DEF GelloPeek, GelloApply
<1>5. CASE RobotPeek \/ RobotApplyTransition \/ RobotIgnores
  BY <1>5 DEF RobotPeek, RobotApplyTransition, RobotIgnores
<1>6. CASE RobotApplyDelete
  <2>1. Unsent' = Unsent /\ r_seen'.event # "delete_request" /\ requests' = requests
    BY <1>6 DEF RobotApplyDelete
  <2>2. CASE r_dirs' = r_dirs
    BY <1>6, <2>1, <2>2 DEF RobotApplyDelete, Acknowledged
  <2>3. CASE r_dirs' # r_dirs
    <3>1. r_dirs \ r_dirs' # {}
      BY <1>6, <2>3 DEF RobotApplyDelete, Robot!DeleteLast
    <3>2. topic'.event = "delete" /\ deletions' = deletions + 1
      BY <1>6, <2>3, <3>1 DEF RobotApplyDelete, Acknowledged
    <3> QED BY <1>6, <2>1, <3>2 DEF RobotApplyDelete
  <2> QED BY <2>2, <2>3
<1>7. CASE UNCHANGED syncVars
  BY <1>7 DEF syncVars
<1> QED BY <1>1, <1>2, <1>3, <1>4, <1>5, <1>6, <1>7 DEF SyncNext, RobotApply

\* A delete request the robot PC applies again and again, and that a later
\* request overtakes or replaces, never costs more than one episode.
THEOREM RequestsDeleteOnce == SyncSpec => []RequestDeletesOnce
<1>1. SyncTypeOK /\ RequestInv => RequestDeletesOnce
  BY SyncAssumption DEF SyncTypeOK, RequestInv, Unsent, Unused, RequestDeletesOnce
<1> QED BY <1>1, SyncTypeInit, SyncTypeStep, RequestInit, RequestStep, PTL DEF SyncSpec

-----------------------------------------------------------------------------
(* What the robot PC deletes.  While it records, its newest directory is   *)
(* the one being recorded, and when it does not, the episode it remembers  *)
(* as completed last is the newest.                                        *)

IsNewest(e) == e \in r_dirs /\ \A d \in r_dirs : d <= e

NewestInv ==
  /\ r_is_recording <=> r_logging \in {"ACTIVE", "PAUSE"}
  /\ r_is_recording => IsNewest(r_idx)
  /\ r_last # NoEpisode /\ ~r_is_recording => IsNewest(r_last)

LEMMA NewestInit == SyncInit => NewestInv
  BY Shared DEF SyncInit, Robot!ManagerInit, NewestInv

LEMMA NewestTransition ==
  ASSUME SyncTypeOK, NewestInv, NEW m \in Message, RobotTransition(m)
  PROVE  NewestInv'
<1> USE DEF NewestInv, IsNewest, Robot!loggingVars
<1>0. r_dirs \in SUBSET Nat /\ r_is_recording \in BOOLEAN
  BY Shared DEF SyncTypeOK, Robot!ManagerTypeOK
<1>1. ASSUME NEW o \in {"started", "not_allowed"}, Robot!AppliedStart(m.idx, o)
      PROVE  NewestInv'
  <2>1. CASE Robot!RecordingNotAllowed
    BY <1>1, <2>1 DEF Robot!RecordingNotAllowed
  <2>2. ASSUME NEW n \in Robot!Episode, Robot!RecordingStarted(n)
        PROVE  NewestInv'
    <3>1. n \in Nat
      BY Shared
    <3> QED BY <1>0, <2>2, <3>1 DEF Robot!RecordingStarted, Robot!IsNextEpisodeIdx
  <2> QED BY <1>1, <2>1, <2>2 DEF Robot!AppliedStart, Robot!ActiveRequested
<1>2. CASE Robot!AppliedStop(m.idx)
  <2>1. CASE r_is_recording
    <3>1. /\ r_logging' = "STOPPED" /\ r_is_recording' = FALSE
          /\ r_last' = r_idx /\ UNCHANGED r_dirs
      BY <1>2, <2>1 DEF Robot!AppliedStop, Robot!RecordingStopped, Robot!StopsRecording
    <3> QED BY <2>1, <3>1
  <2>2. CASE ~r_is_recording
    BY <1>2, <2>2 DEF Robot!AppliedStop, Robot!RecordingStopped, Robot!StopsRecording
  <2> QED BY <2>1, <2>2
<1>3. CASE Robot!AppliedPause(m.idx, FALSE)
  <2>1. UNCHANGED <<r_is_recording, r_idx, r_last, r_dirs>>
    BY <1>0, <1>3 DEF Robot!AppliedPause, Robot!RecordingPaused
  <2>2. r_logging' \in {"ACTIVE", "PAUSE"} <=> r_logging \in {"ACTIVE", "PAUSE"}
    BY <1>3 DEF Robot!AppliedPause, Robot!RecordingPaused
  <2> QED BY <2>1, <2>2
<1>4. CASE Robot!AppliedResume(m.idx, FALSE)
  <2>1. UNCHANGED <<r_is_recording, r_idx, r_last, r_dirs>>
    BY <1>0, <1>4 DEF Robot!AppliedResume, Robot!RecordingResumed
  <2>2. r_logging' \in {"ACTIVE", "PAUSE"} <=> r_logging \in {"ACTIVE", "PAUSE"}
    BY <1>4 DEF Robot!AppliedResume, Robot!RecordingResumed
  <2> QED BY <2>1, <2>2
<1> QED BY <1>1, <1>2, <1>3, <1>4 DEF RobotTransition

LEMMA NewestDelete ==
  ASSUME SyncTypeOK, NewestInv, Robot!DeleteLast
  PROVE  NewestInv'
  BY Shared DEF NewestInv, IsNewest, Robot!DeleteLast

LEMMA NewestStep == SyncTypeOK /\ NewestInv /\ [SyncNext]_syncVars => NewestInv'
<1> SUFFICES ASSUME SyncTypeOK, NewestInv, [SyncNext]_syncVars PROVE NewestInv'
  OBVIOUS
<1>1. CASE RobotApplyTransition
  BY <1>1, NewestTransition DEF RobotApplyTransition, SyncTypeOK
<1>2. CASE RobotApplyDelete
  BY <1>2, NewestDelete DEF RobotApplyDelete
<1>3. CASE ~RobotApplyTransition /\ ~RobotApplyDelete
  <2>1. UNCHANGED robotVars
    BY <1>3 DEF SyncNext, RobotApply, GelloStart, GelloStop, GelloPause, GelloResume, Handled,
       RequestRemoteDelete, Broadcast, GelloPeek, GelloApply, RobotPeek, RobotIgnores, syncVars
  <2> QED BY <2>1 DEF robotVars, NewestInv, IsNewest
<1> QED BY <1>1, <1>2, <1>3

LEMMA DeletesNewest ==
  ASSUME SyncTypeOK, NewestInv, [SyncNext]_syncVars, NEW e \in r_dirs \ r_dirs'
  PROVE  /\ ~(r_logging \in {"ACTIVE", "PAUSE"} /\ e = r_idx)
         /\ \A d \in r_dirs : d <= e
<1>1. CASE RobotApplyDelete
  BY <1>1, Shared DEF RobotApplyDelete, Robot!DeleteLast, Robot!IsDeleteTarget, NewestInv, IsNewest
<1>2. CASE RobotApplyTransition
  BY <1>2
  DEF RobotApplyTransition, RobotTransition, Robot!AppliedStart, Robot!AppliedStop,
      Robot!AppliedPause, Robot!AppliedResume, Robot!ActiveRequested, Robot!RecordingStarted,
      Robot!RecordingRefused, Robot!RecordingBroken, Robot!RecordingNotAllowed,
      Robot!RecordingStopped, Robot!RecordingPaused, Robot!RecordingResumed, Robot!loggingVars
<1>3. CASE ~RobotApplyTransition /\ ~RobotApplyDelete
  BY <1>3 DEF SyncNext, RobotApply, GelloStart, GelloStop, GelloPause, GelloResume, Handled,
     RequestRemoteDelete, Broadcast, GelloPeek, GelloApply, RobotPeek, RobotIgnores, syncVars,
     robotVars
<1> QED BY <1>1, <1>2, <1>3

\* Whenever a request is applied, what the robot PC deletes is the newest of its
\* episodes, and never one that is being recorded or paused.
THEOREM DeletesOnlyTheNewest == SyncSpec => DeletesNewestCompleted
<1>1. SyncTypeOK /\ NewestInv /\ [SyncNext]_syncVars =>
        [\A e \in r_dirs \ r_dirs' :
           /\ ~(r_logging \in {"ACTIVE", "PAUSE"} /\ e = r_idx)
           /\ \A d \in r_dirs : d <= e]_syncVars
  BY DeletesNewest
<1> QED
  BY <1>1, SyncTypeInit, SyncTypeStep, NewestInit, NewestStep, PTL
  DEF SyncSpec, DeletesNewestCompleted

-----------------------------------------------------------------------------
(* Concatenating the chunks of a spool.                                    *)

LEMMA NatSetInduction ==
  ASSUME NEW S, 0 \in S, \A n \in Nat : n \in S => n + 1 \in S
  PROVE  Nat \subseteq S
<1> DEFINE T == Nat \ S
           R == {ss \in Nat \X Nat : ss[1] < ss[2]}
<1> SUFFICES ASSUME T # {} PROVE FALSE
  OBVIOUS
<1>1. IsWellFoundedOn(R, Nat)
  BY NatLessThanWellFounded DEF OpToRel
<1> HIDE DEF R, T
<1>2. T \subseteq Nat
  BY DEF T
<1>3. PICK x \in T : \A y \in T : ~(<<y, x>> \in R)
  BY <1>1, <1>2, WFMin
<1>4. x \in Nat \ S /\ x # 0
  BY DEF T
<1>5. x - 1 \in Nat /\ x - 1 < x /\ (x - 1) + 1 = x
  BY <1>4
<1>6. x - 1 \in T
  BY <1>4, <1>5 DEF T
<1>7. <<x - 1, x>> \in R
  BY <1>4, <1>5 DEF R
<1> QED BY <1>3, <1>6, <1>7

LEMMA FunctionIsSeq ==
  ASSUME NEW n \in Nat, NEW S, NEW f \in [1 .. n -> S]
  PROVE  f \in Seq(S) /\ Len(f) = n
<1>1. f \in Seq(S)
  BY SeqDef
<1>2. DOMAIN f = 1 .. n /\ DOMAIN f = 1 .. Len(f) /\ Len(f) \in Nat
  BY <1>1, LenProperties
<1> QED BY <1>1, <1>2

\* f is the function of what the first n chunks of s show, n up to m.
Flattens(s, m, f) ==
  /\ f \in [0 .. m -> Seq(Frame)]
  /\ f[0] = <<>>
  /\ \A n \in 1 .. m : f[n] = f[n - 1] \o s[n]

LEMMA FlattensExist ==
  ASSUME NEW s \in Seq(Seq(Frame))
  PROVE  \E f : Flattens(s, Len(s), f)
<1> DEFINE S == {m \in Nat : m <= Len(s) => \E f : Flattens(s, m, f)}
<1>0. Len(s) \in Nat
  BY LenProperties
<1>1. 0 \in S
  <2> DEFINE f == [n \in 0 .. 0 |-> <<>>]
  <2>1. <<>> \in Seq(Frame)
    BY EmptySeq
  <2>2. Flattens(s, 0, f)
    BY <2>1 DEF Flattens
  <2> QED BY <2>2
<1>2. ASSUME NEW m \in Nat, m \in S PROVE m + 1 \in S
  <2> SUFFICES ASSUME m + 1 <= Len(s) PROVE \E g : Flattens(s, m + 1, g)
    OBVIOUS
  <2>1. PICK f : Flattens(s, m, f)
    BY <1>0, <1>2
  <2>2. m + 1 \in 1 .. Len(s)
    BY <1>0
  <2>3. s[m + 1] \in Seq(Frame)
    BY <2>2, ElementOfSeq
  <2>4. f[m] \in Seq(Frame)
    BY <2>1 DEF Flattens
  <2>5. f[m] \o s[m + 1] \in Seq(Frame)
    BY <2>3, <2>4, ConcatProperties
  <2> DEFINE g == [n \in 0 .. m + 1 |-> IF n = m + 1 THEN f[m] \o s[m + 1] ELSE f[n]]
  <2>6. g \in [0 .. m + 1 -> Seq(Frame)] /\ g[0] = <<>>
    BY <2>1, <2>5 DEF Flattens
  <2>7. ASSUME NEW n \in 1 .. m + 1 PROVE g[n] = g[n - 1] \o s[n]
    <3>1. CASE n = m + 1
      <4>1. n \in 0 .. m + 1 /\ n - 1 \in 0 .. m + 1 /\ n - 1 = m /\ n - 1 # m + 1
        BY <3>1
      <4> QED BY <3>1, <4>1
    <3>2. CASE n # m + 1
      <4>1. /\ n \in 0 .. m + 1 /\ n - 1 \in 0 .. m + 1 /\ n - 1 # m + 1
            /\ n \in 1 .. m
        BY <3>2
      <4>2. g[n] = f[n] /\ g[n - 1] = f[n - 1]
        BY <3>2, <4>1
      <4> QED BY <2>1, <4>1, <4>2 DEF Flattens
    <3> QED BY <3>1, <3>2
  <2> HIDE DEF g
  <2>8. Flattens(s, m + 1, g)
    BY <2>6, <2>7 DEF Flattens
  <2> QED BY <2>8
<1> HIDE DEF S
<1>3. Nat \subseteq S
  BY <1>1, <1>2, NatSetInduction
<1> QED BY <1>0, <1>3 DEF S

LEMMA FlattenIs ==
  ASSUME NEW s \in Seq(Seq(Frame)), NEW f, Flattens(s, Len(s), f)
  PROVE  FlattenSeq(s) = f[Len(s)] /\ FlattenSeq(s) \in Seq(Frame)
<1>0. Len(s) \in Nat /\ \A n \in 1 .. Len(s) : s[n] \in Seq(Frame)
  BY LenProperties, ElementOfSeq
<1>1. CASE Len(s) = 0
  <2>1. s = <<>>
    BY <1>1, EmptySeq
  <2>2. FlattenSeq(s) = s
    BY <1>1 DEF FlattenSeq
  <2>3. f[0] = <<>> /\ f[0] \in Seq(Frame)
    BY <1>0 DEF Flattens
  <2> QED BY <1>1, <2>1, <2>2, <2>3
<1>2. CASE Len(s) # 0
  <2> DEFINE Beginnings(g) == [i \in 1 .. Len(s) |-> IF i = 1 THEN s[i] ELSE g[i - 1] \o s[i]]
             flat == CHOOSE g : g = Beginnings(g)
             h == [i \in 1 .. Len(s) |-> f[i]]
  <2>1. f[1] = s[1]
    <3>1. 1 \in 1 .. Len(s) /\ 1 - 1 = 0
      BY <1>0, <1>2
    <3>2. f[1] = <<>> \o s[1]
      BY <3>1 DEF Flattens
    <3> QED BY <1>0, <3>1, <3>2, ConcatEmptySeq
  <2>2. h = Beginnings(h)
    <3>1. ASSUME NEW i \in 1 .. Len(s)
          PROVE  h[i] = IF i = 1 THEN s[i] ELSE h[i - 1] \o s[i]
      <4>1. CASE i = 1
        BY <2>1, <4>1
      <4>2. CASE i # 1
        <5>1. i - 1 \in 1 .. Len(s)
          BY <1>0, <4>2
        <5>2. h[i] = f[i] /\ h[i - 1] = f[i - 1]
          BY <5>1
        <5> QED BY <4>2, <5>2 DEF Flattens
      <4> QED BY <4>1, <4>2
    <3> HIDE DEF h
    <3>2. h = [i \in 1 .. Len(s) |-> h[i]]
      BY DEF h
    <3> QED BY <3>1, <3>2
  <2>3. flat = Beginnings(flat)
    <3> HIDE DEF Beginnings
    <3> QED BY <2>2
  <2>4. FlattenSeq(s) = flat[Len(s)]
    BY <1>2 DEF FlattenSeq
  <2> HIDE DEF flat
  <2>5. \A i \in 1 .. Len(s) : flat[i] = IF i = 1 THEN s[i] ELSE flat[i - 1] \o s[i]
    BY <2>3
  <2> DEFINE S == {m \in Nat : m + 1 <= Len(s) => flat[m + 1] = f[m + 1]}
  <2>6. 0 \in S
    <3>1. 0 + 1 = 1 /\ 1 \in 1 .. Len(s)
      BY <1>0, <1>2
    <3>2. flat[1] = f[1]
      BY <2>1, <2>5, <3>1
    <3> QED BY <3>1, <3>2
  <2>7. ASSUME NEW m \in Nat, m \in S PROVE m + 1 \in S
    <3> SUFFICES ASSUME (m + 1) + 1 <= Len(s) PROVE flat[(m + 1) + 1] = f[(m + 1) + 1]
      OBVIOUS
    <3> DEFINE k == (m + 1) + 1
    <3>1. k \in 1 .. Len(s) /\ k # 1 /\ k - 1 = m + 1 /\ flat[m + 1] = f[m + 1]
      BY <1>0, <2>7
    <3> HIDE DEF k
    <3>2. flat[k] = flat[k - 1] \o s[k] /\ f[k] = f[k - 1] \o s[k]
      BY <2>5, <3>1 DEF Flattens
    <3>3. flat[k] = f[k]
      BY <3>1, <3>2
    <3> QED BY <3>3 DEF k
  <2> HIDE DEF S
  <2>8. Nat \subseteq S
    BY <2>6, <2>7, NatSetInduction
  <2>9. Len(s) - 1 \in S /\ (Len(s) - 1) + 1 = Len(s)
    BY <1>0, <1>2, <2>8
  <2>10. flat[Len(s)] = f[Len(s)]
    BY <1>0, <2>9 DEF S
  <2>11. f[Len(s)] \in Seq(Frame)
    BY <1>0 DEF Flattens
  <2> QED BY <2>4, <2>10, <2>11
<1> QED BY <1>1, <1>2

LEMMA FlattenOfNone ==
  ASSUME NEW s \in Seq(Seq(Frame)), Len(s) = 0
  PROVE  FlattenSeq(s) = <<>>
<1>1. PICK f : Flattens(s, Len(s), f)
  BY FlattensExist
<1> QED BY <1>1, FlattenIs DEF Flattens

LEMMA FlattenTyped ==
  ASSUME NEW s \in Seq(Seq(Frame))
  PROVE  FlattenSeq(s) \in Seq(Frame)
<1>1. PICK f : Flattens(s, Len(s), f)
  BY FlattensExist
<1> QED BY <1>1, FlattenIs

\* Another chunk shows its frames after the others.
LEMMA FlattenGrows ==
  ASSUME NEW s \in Seq(Seq(Frame)), NEW t \in Seq(Seq(Frame)), Len(t) = Len(s) + 1,
         \A i \in 1 .. Len(s) : t[i] = s[i]
  PROVE  FlattenSeq(t) = FlattenSeq(s) \o t[Len(t)]
<1>0. Len(s) \in Nat
  BY LenProperties
<1>2. PICK g : Flattens(t, Len(t), g)
  BY FlattensExist
<1> DEFINE h == [n \in 0 .. Len(s) |-> g[n]]
<1>3. h \in [0 .. Len(s) -> Seq(Frame)] /\ h[0] = <<>> /\ h[Len(s)] = g[Len(s)]
  BY <1>0, <1>2 DEF Flattens
<1>4. ASSUME NEW n \in 1 .. Len(s) PROVE h[n] = h[n - 1] \o s[n]
  <2>1. n \in 1 .. Len(t) /\ n - 1 \in 0 .. Len(s) /\ n \in 0 .. Len(s)
    BY <1>0
  <2>2. h[n] = g[n] /\ h[n - 1] = g[n - 1] /\ t[n] = s[n]
    BY <2>1
  <2> QED BY <1>2, <2>1, <2>2 DEF Flattens
<1> HIDE DEF h
<1>5. Flattens(s, Len(s), h)
  BY <1>3, <1>4 DEF Flattens
<1>6. FlattenSeq(s) = g[Len(s)]
  BY <1>3, <1>5, FlattenIs
<1>7. FlattenSeq(t) = g[Len(t)]
  BY <1>2, FlattenIs
<1>8. g[Len(t)] = g[Len(s)] \o t[Len(t)]
  <2>1. Len(t) \in 1 .. Len(t) /\ Len(t) - 1 = Len(s)
    BY <1>0
  <2> QED BY <1>2, <2>1 DEF Flattens
<1> QED BY <1>6, <1>7, <1>8

\* A change of the last chunk leaves what the others show.
LEMMA FlattenChanges ==
  ASSUME NEW s \in Seq(Seq(Frame)), NEW t \in Seq(Seq(Frame)), Len(t) = Len(s), Len(s) > 0,
         \A i \in 1 .. Len(s) - 1 : t[i] = s[i]
  PROVE  \E r \in Seq(Frame) :
            FlattenSeq(s) = r \o s[Len(s)] /\ FlattenSeq(t) = r \o t[Len(s)]
<1>0. Len(s) \in Nat /\ Len(s) - 1 \in Nat
  BY LenProperties
<1> DEFINE r == [i \in 1 .. Len(s) - 1 |-> s[i]]
<1>1. r \in Seq(Seq(Frame)) /\ Len(r) = Len(s) - 1
  <2>1. \A i \in 1 .. Len(s) - 1 : s[i] \in Seq(Frame)
    BY <1>0, ElementOfSeq
  <2>2. r \in [1 .. Len(s) - 1 -> Seq(Frame)]
    BY <2>1
  <2> QED BY <1>0, <2>2, FunctionIsSeq
<1>2. \A i \in 1 .. Len(r) : r[i] = s[i] /\ r[i] = t[i]
  BY <1>1
<1> HIDE DEF r
<1>3. Len(s) = Len(r) + 1 /\ Len(t) = Len(r) + 1
  BY <1>0, <1>1
<1>4. FlattenSeq(s) = FlattenSeq(r) \o s[Len(s)]
  BY <1>1, <1>2, <1>3, FlattenGrows
<1>5. FlattenSeq(t) = FlattenSeq(r) \o t[Len(s)]
  BY <1>1, <1>2, <1>3, FlattenGrows
<1>6. FlattenSeq(r) \in Seq(Frame)
  BY <1>1, FlattenTyped
<1> QED BY <1>4, <1>5, <1>6

\* Without one of its chunks a spool shows as many frames less.
LEMMA FlattenLoses ==
  ASSUME NEW s \in Seq(Seq(Frame)), NEW t \in Seq(Seq(Frame)), Len(t) = Len(s),
         NEW j \in 1 .. Len(s), t[j] = <<>>, \A i \in 1 .. Len(s) : i # j => t[i] = s[i]
  PROVE  Len(FlattenSeq(t)) + Len(s[j]) = Len(FlattenSeq(s))
<1>0. Len(s) \in Nat /\ Len(<<>>) = 0 /\ Len(s[j]) \in Nat
      /\ \A n \in 1 .. Len(s) : s[n] \in Seq(Frame) /\ t[n] \in Seq(Frame)
  <2>1. \A n \in 1 .. Len(s) : s[n] \in Seq(Frame) /\ t[n] \in Seq(Frame)
    BY ElementOfSeq
  <2> QED BY <2>1, LenProperties, EmptySeq
<1>1. PICK f : Flattens(s, Len(s), f)
  BY FlattensExist
<1>2. PICK g : Flattens(t, Len(t), g)
  BY FlattensExist
<1>3. ASSUME NEW n \in 0 .. Len(s)
      PROVE  f[n] \in Seq(Frame) /\ g[n] \in Seq(Frame) /\ Len(f[n]) \in Nat /\ Len(g[n]) \in Nat
  <2>1. f[n] \in Seq(Frame) /\ g[n] \in Seq(Frame)
    BY <1>1, <1>2 DEF Flattens
  <2> QED BY <2>1, LenProperties
<1>4. ASSUME NEW n \in 1 .. Len(s)
      PROVE  Len(f[n]) = Len(f[n - 1]) + Len(s[n]) /\ Len(g[n]) = Len(g[n - 1]) + Len(t[n])
  <2>1. n - 1 \in 0 .. Len(s)
    BY <1>0
  <2>2. f[n] = f[n - 1] \o s[n] /\ g[n] = g[n - 1] \o t[n]
    BY <1>1, <1>2 DEF Flattens
  <2> QED BY <1>0, <1>3, <2>1, <2>2, ConcatProperties
<1> DEFINE Losing(m) == /\ m < j => Len(g[m]) = Len(f[m])
                        /\ j <= m => Len(g[m]) + Len(s[j]) = Len(f[m])
           S == {m \in Nat : m <= Len(s) => Losing(m)}
<1>5. Losing(0)
  <2>1. f[0] = <<>> /\ g[0] = <<>> /\ 0 < j
    BY <1>0, <1>1, <1>2 DEF Flattens
  <2> QED BY <1>0, <2>1
<1>6. ASSUME NEW m \in Nat, Losing(m), m + 1 <= Len(s) PROVE Losing(m + 1)
  <2>1. m + 1 \in 1 .. Len(s) /\ m \in 0 .. Len(s) /\ (m + 1) - 1 = m /\ j \in Nat
    <3>1. Len(s) \in Nat
      BY LenProperties
    <3>2. m + 1 <= Len(s)
      BY <1>6
    <3>3. j \in Nat
      BY <3>1
    <3> QED BY <3>1, <3>2, <3>3
  <2>2. Len(f[m + 1]) = Len(f[m]) + Len(s[m + 1]) /\ Len(g[m + 1]) = Len(g[m]) + Len(t[m + 1])
    BY <1>4, <2>1
  <2>3. /\ Len(s[m + 1]) \in Nat /\ Len(t[m + 1]) \in Nat
        /\ Len(f[m]) \in Nat /\ Len(g[m]) \in Nat
    BY <1>0, <1>3, <2>1, LenProperties
  <2>4. /\ m + 1 = j => Len(t[m + 1]) = 0 /\ Len(s[m + 1]) = Len(s[j])
        /\ m + 1 # j => Len(t[m + 1]) = Len(s[m + 1])
    BY <1>0, <2>1
  <2> DEFINE fm == Len(f[m])
             gm == Len(g[m])
             sn == Len(s[m + 1])
             tn == Len(t[m + 1])
             lost == Len(s[j])
  <2>5. /\ fm \in Nat /\ gm \in Nat /\ sn \in Nat /\ tn \in Nat /\ lost \in Nat
        /\ m < j => gm = fm
        /\ j <= m => gm + lost = fm
        /\ m + 1 = j => tn = 0 /\ sn = lost
        /\ m + 1 # j => tn = sn
        /\ Len(f[m + 1]) = fm + sn /\ Len(g[m + 1]) = gm + tn
    BY <1>0, <1>6, <2>2, <2>3, <2>4
  <2> HIDE DEF fm, gm, sn, tn, lost
  <2>6. /\ m + 1 < j => gm + tn = fm + sn
        /\ j <= m + 1 => (gm + tn) + lost = fm + sn
    <3>1. CASE m + 1 = j
      <4>1. m < j /\ j = m + 1
        BY <2>1, <3>1
      <4> QED BY <2>5, <3>1, <4>1
    <3>2. CASE m + 1 < j
      <4>1. m < j /\ m + 1 # j /\ ~(j <= m + 1)
        BY <2>1, <3>2
      <4> QED BY <2>5, <4>1
    <3>3. CASE j <= m
      <4>1. m + 1 # j /\ ~(m + 1 < j)
        BY <2>1, <3>3
      <4> QED BY <2>5, <3>3, <4>1
    <3> QED BY <2>1, <3>1, <3>2, <3>3
  <2>7. Len(s[j]) = lost
    BY DEF lost
  <2> QED BY <2>5, <2>6, <2>7
<1> HIDE DEF Losing
<1>7. 0 \in S /\ \A m \in Nat : m \in S => m + 1 \in S
  <2>1. 0 \in S
    BY <1>5
  <2>2. ASSUME NEW m \in Nat, m \in S PROVE m + 1 \in S
    <3>1. m + 1 \in Nat /\ (m + 1 <= Len(s) => m <= Len(s))
      BY <1>0
    <3>2. m <= Len(s) => Losing(m)
      BY <2>2
    <3>3. m + 1 <= Len(s) => Losing(m + 1)
      BY <1>6, <3>1, <3>2
    <3> QED BY <3>1, <3>3
  <2> QED BY <2>1, <2>2
<1> HIDE DEF S
<1>8. Nat \subseteq S
  BY <1>7, NatSetInduction
<1>9. Losing(Len(s))
  BY <1>0, <1>8 DEF S
<1>10. Len(g[Len(s)]) + Len(s[j]) = Len(f[Len(s)])
  <2>1. ~(Len(s) < j) /\ j <= Len(s)
    BY <1>0
  <2> QED BY <1>9, <2>1 DEF Losing
<1> QED BY <1>1, <1>2, <1>10, FlattenIs

-----------------------------------------------------------------------------
(* What a spool shows.                                                     *)

LEMMA NoneIsNoSequence == \A q \in Seq(Frame) : q # None
<1> SUFFICES ASSUME NEW q \in Seq(Frame) PROVE q \in Seq(Nat)
  BY NoneAssumption
<1>1. Len(q) \in Nat /\ q \in [1 .. Len(q) -> Nat]
  <2>1. q \in [1 .. Len(q) -> Frame] /\ Len(q) \in Nat
    BY LenProperties
  <2> QED BY <2>1 DEF Frame
<1> QED BY <1>1, FunctionIsSeq

LEMMA ChunkFacts ==
  ASSUME NEW chunk \in Chunk
  PROVE  /\ FramesOf(chunk) \in Seq(Frame) /\ Len(FramesOf(chunk)) \in Nat
         /\ chunk.bin \in Seq(Frame) \cup {None}
         /\ chunk.torn \in BOOLEAN /\ chunk.ts \in Frame \cup {None}
         /\ HasBin(chunk) => /\ FramesOf(chunk) = chunk.bin
                             /\ chunk.bin \in Seq(Frame) /\ Len(chunk.bin) \in Nat
         /\ ~HasBin(chunk) => FramesOf(chunk) = <<>>
<1>1. chunk.bin \in Seq(Frame) \cup {None} /\ chunk.torn \in BOOLEAN
      /\ chunk.ts \in Frame \cup {None}
  BY DEF Chunk
<1>2. <<>> \in Seq(Frame)
  BY EmptySeq
<1>3. /\ FramesOf(chunk) \in Seq(Frame)
      /\ HasBin(chunk) => FramesOf(chunk) = chunk.bin /\ chunk.bin \in Seq(Frame)
      /\ ~HasBin(chunk) => FramesOf(chunk) = <<>>
  BY <1>1, <1>2 DEF FramesOf, HasBin
<1> QED BY <1>1, <1>3, LenProperties

LEMMA NewChunkFacts ==
  /\ NewChunk \in Chunk /\ HasBin(NewChunk) /\ FramesOf(NewChunk) = <<>>
  /\ NewChunk.bin = <<>> /\ NewChunk.torn = FALSE
<1>1. <<>> \in Seq(Frame) /\ <<>> # None
  BY EmptySeq, NoneIsNoSequence
<1> QED BY <1>1 DEF NewChunk, Chunk, HasBin, FramesOf

Shows(chunks) == [i \in DOMAIN chunks |-> FramesOf(chunks[i])]
FramesIn(chunks) == FlattenSeq(Shows(chunks))

LEMMA ShownIs == \A c : Shown(c) = FramesIn(spool[c])
  BY DEF Shown, FramesIn, Shows

LEMMA ShowsFacts ==
  ASSUME NEW chunks \in Seq(Chunk)
  PROVE  /\ Shows(chunks) \in Seq(Seq(Frame)) /\ Len(Shows(chunks)) = Len(chunks)
         /\ Len(chunks) \in Nat
         /\ \A i \in 1 .. Len(chunks) : /\ Shows(chunks)[i] = FramesOf(chunks[i])
                                        /\ chunks[i] \in Chunk
<1>1. Len(chunks) \in Nat /\ DOMAIN chunks = 1 .. Len(chunks)
  BY LenProperties
<1>2. \A i \in 1 .. Len(chunks) : chunks[i] \in Chunk
  BY ElementOfSeq
<1>3. \A i \in 1 .. Len(chunks) : FramesOf(chunks[i]) \in Seq(Frame)
  BY <1>2, ChunkFacts
<1>4. Shows(chunks) \in [1 .. Len(chunks) -> Seq(Frame)]
  BY <1>1, <1>3 DEF Shows
<1>5. \A i \in 1 .. Len(chunks) : Shows(chunks)[i] = FramesOf(chunks[i])
  BY <1>1 DEF Shows
<1> QED BY <1>1, <1>2, <1>4, <1>5, FunctionIsSeq

LEMMA FramesInTyped ==
  ASSUME NEW chunks \in Seq(Chunk)
  PROVE  FramesIn(chunks) \in Seq(Frame) /\ Len(FramesIn(chunks)) \in Nat
<1>1. FramesIn(chunks) \in Seq(Frame)
  BY ShowsFacts, FlattenTyped DEF FramesIn
<1> QED BY <1>1, LenProperties

LEMMA FramesInNone ==
  ASSUME NEW chunks \in Seq(Chunk), Len(chunks) = 0
  PROVE  FramesIn(chunks) = <<>>
  BY ShowsFacts, FlattenOfNone DEF FramesIn

LEMMA FramesInSame ==
  ASSUME NEW old \in Seq(Chunk), NEW new \in Seq(Chunk), Len(new) = Len(old),
         \A i \in 1 .. Len(old) : FramesOf(new[i]) = FramesOf(old[i])
  PROVE  FramesIn(new) = FramesIn(old)
<1>1. DOMAIN old = 1 .. Len(old) /\ DOMAIN new = 1 .. Len(old)
  BY LenProperties
<1>2. Shows(new) = Shows(old)
  BY <1>1 DEF Shows
<1> QED BY <1>2 DEF FramesIn

\* A chunk without frames at the end adds nothing.
LEMMA FramesInOpened ==
  ASSUME NEW old \in Seq(Chunk), NEW new \in Seq(Chunk), Len(new) = Len(old) + 1,
         \A i \in 1 .. Len(old) : FramesOf(new[i]) = FramesOf(old[i]),
         FramesOf(new[Len(new)]) = <<>>
  PROVE  FramesIn(new) = FramesIn(old)
<1>1. /\ Shows(old) \in Seq(Seq(Frame)) /\ Shows(new) \in Seq(Seq(Frame))
      /\ Len(Shows(new)) = Len(Shows(old)) + 1
      /\ Len(Shows(old)) \in Nat
  BY ShowsFacts
<1>2. \A i \in 1 .. Len(Shows(old)) : Shows(new)[i] = Shows(old)[i]
  <2> SUFFICES ASSUME NEW i \in 1 .. Len(old) PROVE Shows(new)[i] = Shows(old)[i]
    BY ShowsFacts
  <2>1. i \in 1 .. Len(new)
    BY ShowsFacts
  <2> QED BY <2>1, ShowsFacts
<1>3. Shows(new)[Len(Shows(new))] = <<>>
  <2>1. Len(new) \in 1 .. Len(new)
    BY ShowsFacts
  <2> QED BY <2>1, ShowsFacts
<1>4. FramesIn(new) = FramesIn(old) \o <<>>
  BY <1>1, <1>2, <1>3, FlattenGrows DEF FramesIn
<1> QED BY <1>4, FramesInTyped, ConcatEmptySeq

LEMMA Regroup ==
  ASSUME NEW r \in Seq(Frame), NEW q \in Seq(Frame), NEW p \in Seq(Frame)
  PROVE  r \o (q \o p) = (r \o q) \o p
  BY SMTT(30), ConcatAssociative

LEMMA AppendToConcat ==
  ASSUME NEW r \in Seq(Frame), NEW q \in Seq(Frame), NEW n \in Frame
  PROVE  r \o Append(q, n) = Append(r \o q, n)
<1>1. r \o q \in Seq(Frame) /\ <<n>> \in Seq(Frame)
  BY ConcatProperties
<1>2. Append(q, n) = q \o <<n>> /\ Append(r \o q, n) = (r \o q) \o <<n>>
  BY <1>1, AppendIsConcat
<1>3. r \o (q \o <<n>>) = (r \o q) \o <<n>>
  BY <1>1, Regroup
<1> QED BY <1>2, <1>3

\* A frame at the end of the last chunk is shown last.
LEMMA FramesInWritten ==
  ASSUME NEW old \in Seq(Chunk), NEW new \in Seq(Chunk), Len(new) = Len(old), Len(old) > 0,
         \A i \in 1 .. Len(old) - 1 : FramesOf(new[i]) = FramesOf(old[i]),
         NEW n \in Frame, FramesOf(new[Len(old)]) = Append(FramesOf(old[Len(old)]), n)
  PROVE  FramesIn(new) = Append(FramesIn(old), n)
<1>0. Len(old) \in Nat /\ Len(old) \in 1 .. Len(old)
  BY ShowsFacts
<1>1. /\ Shows(old) \in Seq(Seq(Frame)) /\ Shows(new) \in Seq(Seq(Frame))
      /\ Len(Shows(new)) = Len(Shows(old)) /\ Len(Shows(old)) = Len(old)
  BY ShowsFacts
<1>2. \A i \in 1 .. Len(Shows(old)) - 1 : Shows(new)[i] = Shows(old)[i]
  <2> SUFFICES ASSUME NEW i \in 1 .. Len(old) - 1 PROVE Shows(new)[i] = Shows(old)[i]
    BY ShowsFacts
  <2>1. i \in 1 .. Len(old)
    BY <1>0
  <2> QED BY <2>1, ShowsFacts
<1>3. /\ Shows(old)[Len(old)] = FramesOf(old[Len(old)])
      /\ Shows(new)[Len(old)] = Append(FramesOf(old[Len(old)]), n)
      /\ FramesOf(old[Len(old)]) \in Seq(Frame)
  BY <1>0, ShowsFacts, ChunkFacts
<1>4. PICK r \in Seq(Frame) : /\ FramesIn(old) = r \o Shows(old)[Len(old)]
                              /\ FramesIn(new) = r \o Shows(new)[Len(old)]
  <2> DEFINE so == Shows(old)
             sn == Shows(new)
  <2>1. /\ so \in Seq(Seq(Frame)) /\ sn \in Seq(Seq(Frame)) /\ Len(sn) = Len(so)
        /\ Len(so) = Len(old) /\ Len(so) > 0 /\ \A i \in 1 .. Len(so) - 1 : sn[i] = so[i]
    BY <1>1, <1>2
  <2> HIDE DEF so, sn
  <2>2. \E r \in Seq(Frame) :
          FlattenSeq(so) = r \o so[Len(so)] /\ FlattenSeq(sn) = r \o sn[Len(so)]
    BY <2>1, FlattenChanges
  <2> QED BY <2>1, <2>2 DEF FramesIn, so, sn
<1> DEFINE q == FramesOf(old[Len(old)])
<1>5. q \in Seq(Frame) /\ FramesIn(old) = r \o q /\ FramesIn(new) = r \o Append(q, n)
  BY <1>3, <1>4
<1> HIDE DEF q
<1>6. r \o Append(q, n) = Append(r \o q, n)
  BY <1>5, AppendToConcat
<1> QED BY <1>5, <1>6

\* Without the frames of one chunk so many less are shown.
LEMMA FramesInDeleted ==
  ASSUME NEW old \in Seq(Chunk), NEW new \in Seq(Chunk), Len(new) = Len(old),
         NEW j \in 1 .. Len(old), FramesOf(new[j]) = <<>>,
         \A i \in 1 .. Len(old) : i # j => FramesOf(new[i]) = FramesOf(old[i])
  PROVE  Len(FramesIn(new)) + Len(FramesOf(old[j])) = Len(FramesIn(old))
<1>1. /\ Shows(old) \in Seq(Seq(Frame)) /\ Shows(new) \in Seq(Seq(Frame))
      /\ Len(Shows(new)) = Len(Shows(old)) /\ Len(Shows(old)) = Len(old)
  BY ShowsFacts
<1>2. /\ Shows(new)[j] = <<>> /\ Shows(old)[j] = FramesOf(old[j])
      /\ \A i \in 1 .. Len(Shows(old)) : i # j => Shows(new)[i] = Shows(old)[i]
  BY ShowsFacts
<1> QED BY <1>1, <1>2, FlattenLoses DEF FramesIn

-----------------------------------------------------------------------------
(* The last chunk of a spool.                                              *)

LEMMA WithLastFacts ==
  ASSUME NEW chunks \in Seq(Chunk), Len(chunks) > 0, NEW chunk \in Chunk
  PROVE  /\ WithLast(chunks, chunk) \in Seq(Chunk) /\ Len(WithLast(chunks, chunk)) = Len(chunks)
         /\ \A i \in 1 .. Len(chunks) :
              WithLast(chunks, chunk)[i] = IF i = Len(chunks) THEN chunk ELSE chunks[i]
<1>1. Len(chunks) \in Nat /\ DOMAIN chunks = 1 .. Len(chunks)
  BY LenProperties
<1>2. \A i \in 1 .. Len(chunks) : chunks[i] \in Chunk
  BY ElementOfSeq
<1>3. WithLast(chunks, chunk) =
        [i \in 1 .. Len(chunks) |-> IF i = Len(chunks) THEN chunk ELSE chunks[i]]
  BY <1>1 DEF WithLast
<1> DEFINE new == [i \in 1 .. Len(chunks) |-> IF i = Len(chunks) THEN chunk ELSE chunks[i]]
<1>4. new \in [1 .. Len(chunks) -> Chunk]
  BY <1>2
<1>5. /\ new \in Seq(Chunk) /\ Len(new) = Len(chunks)
      /\ \A i \in 1 .. Len(chunks) : new[i] = IF i = Len(chunks) THEN chunk ELSE chunks[i]
  <2>1. \A i \in 1 .. Len(chunks) : new[i] = IF i = Len(chunks) THEN chunk ELSE chunks[i]
    OBVIOUS
  <2> HIDE DEF new
  <2>2. new \in Seq(Chunk) /\ Len(new) = Len(chunks)
    BY <1>1, <1>4, FunctionIsSeq
  <2> QED BY <2>1, <2>2
<1> QED BY <1>3, <1>5

LEMMA LastFacts ==
  ASSUME NEW chunks \in Seq(Chunk), Len(chunks) > 0
  PROVE  /\ Last(chunks) = chunks[Len(chunks)] /\ Last(chunks) \in Chunk
         /\ Len(chunks) \in Nat /\ Len(chunks) \in 1 .. Len(chunks)
<1>1. Len(chunks) \in Nat /\ Len(chunks) \in 1 .. Len(chunks)
  BY LenProperties
<1> QED BY <1>1, ElementOfSeq DEF Last

LEMMA FrontFacts ==
  ASSUME NEW chunks \in Seq(Chunk), Len(chunks) > 0
  PROVE  /\ Front(chunks) \in Seq(Chunk) /\ Len(Front(chunks)) = Len(chunks) - 1
         /\ Len(chunks) - 1 \in Nat
         /\ \A i \in 1 .. Len(chunks) - 1 : Front(chunks)[i] = chunks[i]
<1>1. Len(chunks) \in Nat /\ Len(chunks) - 1 \in Nat /\ 1 <= Len(chunks)
  BY LenProperties
<1>2. /\ 1 \in Int /\ Len(chunks) - 1 \in Int /\ (Len(chunks) - 1) - 1 + 1 = Len(chunks) - 1
      /\ \A i \in 1 .. Len(chunks) - 1 : chunks[i] \in Chunk /\ 1 + i - 1 = i
  BY <1>1, ElementOfSeq
<1> DEFINE n == Len(chunks) - 1
<1>3. /\ SubSeq(chunks, 1, n) \in Seq(Chunk)
      /\ Len(SubSeq(chunks, 1, n)) = IF 1 <= n THEN n - 1 + 1 ELSE 0
      /\ \A i \in 1 .. n - 1 + 1 : SubSeq(chunks, 1, n)[i] = chunks[1 + i - 1]
  BY <1>2, SubSeqProperties
<1>4. Front(chunks) = SubSeq(chunks, 1, n)
  BY DEF Front
<1>5. Len(Front(chunks)) = n
  <2>1. n \in Nat
    BY <1>1
  <2> HIDE DEF n
  <2>2. (IF 1 <= n THEN n - 1 + 1 ELSE 0) = n
    BY <2>1
  <2> QED BY <1>3, <1>4, <2>2
<1>6. \A i \in 1 .. n : Front(chunks)[i] = chunks[i]
  BY <1>1, <1>2, <1>3, <1>4
<1> QED BY <1>1, <1>3, <1>4, <1>5, <1>6

-----------------------------------------------------------------------------
(* The inductive invariant.                                                *)

\* Files of the spool of c may have been deleted since its recording was over.
Deleted(c) == Over /\ (~spooling[c] \/ (tool.at = "delete" /\ tool.camera = c))

\* The operator has not yet stopped the camera.
Recording(c) == mode # "stop" \/ command[c] = "stop"

\* What a thread needs to record, and the room in the chunk it fills.
ThreadInv(c) ==
  /\ rec[c] => held[c]
  /\ file[c] = "none" => count[c] = 0
  /\ at[c] = "poll" /\ file[c] # "closed" => count[c] < ChunkFrames
  /\ held[c] => Recording(c)
  /\ mode = "stop" => command[c] \in {"none", "stop"}
  /\ command[c] = "stop" => mode = "stop"

\* Until the recording is over the tool is off, every chunk has its frames, and
\* the open one, the last, as many as are counted.
OffInv == ~Over => tool.at = "off" /\ ~cut /\ verdict = "none"

ChunksInv(c) ==
  ~Over =>
    /\ video[c] = None
    /\ \A i \in 1 .. Len(spool[c]) : HasBin(spool[c][i])
    /\ file[c] = "open" =>
         Len(spool[c]) > 0 /\ Len(spool[c][Len(spool[c])].bin) = count[c]

\* Every frame written has its timestamp, in memory or in the store.
StampsInv(c) ==
  /\ Recording(c) => dumped[c] = None /\ Len(spooled[c]) <= stamps[c]
  /\ dumped[c] # None => Len(spooled[c]) <= dumped[c]

\* What the spool shows is what was written; deletions only shorten it.
ShownInv(c) ==
  /\ Len(Shown(c)) <= Len(spooled[c])
  /\ Len(Shown(c)) = Len(spooled[c]) => Shown(c) = spooled[c]
  /\ ~cut /\ ~Deleted(c) => Shown(c) = spooled[c]
  /\ ~cut => Shown(c) = spooled[c] \/ video[c] = spooled[c]

\* The tool deletes only the spool of a store whose .mp4 is whole.
ToolInv ==
  /\ tool.at \in {"encode", "mark", "delete"} => tool.camera \in Camera
  /\ \A c \in Camera : tool.camera = c =>
       /\ tool.at \in {"encode", "mark", "delete"} => spooling[c] /\ store[c] = "ready"
       /\ tool.at \in {"mark", "delete"} /\ ~cut => video[c] = spooled[c]

VideoInv(c) ==
  Encoded(c) =>
    /\ dumped[c] # None => Len(video[c]) = dumped[c]
    /\ (dumped[c] # None \/ ~cut) => video[c] = spooled[c]

\* As long as nothing has failed every chunk but the open one has its
\* timestamps, and the last one is closed before the thread goes on.
CleanInv(c) ==
  clean =>
    /\ working[c] /\ file[c] # "closed" /\ store[c] # "bare"
    /\ file[c] = "open" => held[c] \/ at[c] = "close"
    /\ ~up => at[c] = "poll" /\ ~held[c]
    /\ Recording(c) => stamps[c] = Len(spooled[c])
    /\ dumped[c] # None => dumped[c] = Len(spooled[c])

CleanChunksInv(c) ==
  clean /\ ~cut /\ ~Deleted(c) =>
    \A i \in 1 .. Len(spool[c]) :
      /\ HasBin(spool[c][i]) /\ ~spool[c][i].torn
      /\ i < Len(spool[c]) \/ file[c] # "open" => Encodable(spool[c][i])

CameraInv(c) ==
  ThreadInv(c) /\ ChunksInv(c) /\ StampsInv(c) /\ CleanInv(c) /\ CleanChunksInv(c)

SpoolInv ==
  /\ OffInv /\ ToolInv /\ CleanIsFinalized
  /\ \A c \in Camera : CameraInv(c) /\ ShownInv(c) /\ VideoInv(c)

-----------------------------------------------------------------------------
(* What the steps leave alone.                                             *)

SameCamera(d) ==
  /\ command'[d] = command[d] /\ working'[d] = working[d] /\ at'[d] = at[d]
  /\ rec'[d] = rec[d] /\ held'[d] = held[d] /\ stamps'[d] = stamps[d]
  /\ file'[d] = file[d] /\ count'[d] = count[d] /\ spooled'[d] = spooled[d]
  /\ store'[d] = store[d] /\ dumped'[d] = dumped[d]
  /\ spool'[d] = spool[d] /\ spooling'[d] = spooling[d]

\* The types in two parts, of what the logger's threads have and of the rest.
ThreadTypes ==
  /\ command \in [Camera -> {"none", "start", "pause", "resume", "stop"}]
  /\ working \in [Camera -> BOOLEAN]
  /\ at \in [Camera -> {"poll", "full", "close"}]
  /\ rec \in [Camera -> BOOLEAN] /\ held \in [Camera -> BOOLEAN]
  /\ stamps \in [Camera -> Nat]
  /\ file \in [Camera -> {"none", "open", "closed"}]
  /\ count \in [Camera -> 0 .. ChunkFrames]
  /\ taken \in [Camera -> Nat]
  /\ spooled \in [Camera -> Seq(Frame)]

OtherTypes ==
  /\ mode \in {"idle", "start", "pause", "resume", "stop"}
  /\ up \in BOOLEAN /\ clean \in BOOLEAN /\ cut \in BOOLEAN
  /\ store \in [Camera -> {"absent", "bare", "ready"}]
  /\ dumped \in [Camera -> Nat \cup {None}]
  /\ spool \in [Camera -> Seq(Chunk)]
  /\ spooling \in [Camera -> BOOLEAN]
  /\ video \in [Camera -> Seq(Frame) \cup {None, Partial}]
  /\ marked \in [Camera -> BOOLEAN]
  /\ tool \in [at : {"off", "look", "encode", "mark", "delete"}, camera : 1 .. Cameras + 1,
               keep : BOOLEAN, encoded : BOOLEAN]
  /\ verdict \in {"none", "finalized", "skipped", "failed"}

LEMMA TypesAre == TypeOK <=> ThreadTypes /\ OtherTypes
  BY Zenon DEF TypeOK, ThreadTypes, OtherTypes

LEMMA TypesWillBe == TypeOK' <=> ThreadTypes' /\ OtherTypes'
  BY Zenon DEF TypeOK, ThreadTypes, OtherTypes

LEMMA CameraTypes ==
  ASSUME TypeOK, NEW c \in Camera
  PROVE  /\ command[c] \in {"none", "start", "pause", "resume", "stop"}
         /\ working[c] \in BOOLEAN /\ at[c] \in {"poll", "full", "close"}
         /\ rec[c] \in BOOLEAN /\ held[c] \in BOOLEAN /\ spooling[c] \in BOOLEAN
         /\ stamps[c] \in Nat /\ taken[c] \in Nat /\ count[c] \in Nat /\ count[c] <= ChunkFrames
         /\ file[c] \in {"none", "open", "closed"} /\ store[c] \in {"absent", "bare", "ready"}
         /\ dumped[c] \in Nat \cup {None} /\ None \notin Nat
         /\ spooled[c] \in Seq(Frame) /\ Len(spooled[c]) \in Nat
         /\ spool[c] \in Seq(Chunk) /\ Len(spool[c]) \in Nat
         /\ Shown(c) \in Seq(Frame) /\ Len(Shown(c)) \in Nat
<1>1. spooled[c] \in Seq(Frame) /\ spool[c] \in Seq(Chunk)
  BY DEF TypeOK
<1>2. Len(spooled[c]) \in Nat /\ Len(spool[c]) \in Nat
  BY <1>1, LenProperties
<1>3. Shown(c) \in Seq(Frame) /\ Len(Shown(c)) \in Nat
  BY <1>1, ShownIs, FramesInTyped
<1>4. count[c] \in 0 .. ChunkFrames
  BY DEF TypeOK
<1>5. count[c] \in Nat /\ count[c] <= ChunkFrames
  BY <1>4, FramesAssumption
<1> QED BY <1>1, <1>2, <1>3, <1>5, NoneAssumption DEF TypeOK

\* The threads work on an episode that is not over.
LEMMA PollNotOver ==
  ASSUME TypeOK, NEW c \in Camera, ThreadInv(c), PollCamera(c)
  PROVE  ~Over /\ up
<1>1. up /\ working[c]
  BY DEF PollCamera, StartRecording, PauseRecording, ResumeRecording, StopRecording, LogFrame,
     LogFrameRaises, FinalizeSpoolChunk, FinalizeSpoolChunkRaises, CloseStorage, Reading, Logging,
     Polling
<1>2. command[c] # "none" \/ at[c] # "poll" \/ rec[c]
  BY DEF PollCamera, StartRecording, PauseRecording, ResumeRecording, StopRecording, LogFrame,
     LogFrameRaises, FinalizeSpoolChunk, FinalizeSpoolChunkRaises, CloseStorage, Reading, Logging
<1>3. command[c] # "none" \/ at[c] # "poll" \/ held[c]
  BY <1>2 DEF ThreadInv
<1> QED BY <1>1, <1>3 DEF Over

LEMMA LoggingFrame ==
  ASSUME TypeOK, NEW c \in Camera, LogFrame(c) \/ LogFrameRaises(c)
  PROVE  /\ UNCHANGED <<mode, up, video, marked, tool, verdict, cut>>
         /\ clean' => clean
         /\ \A d \in Camera : d # c => SameCamera(d)
<1>1. /\ UNCHANGED <<mode, up, video, marked, tool, verdict, cut>>
      /\ UNCHANGED <<command, working, rec, held, store, dumped, spooling>>
  BY DEF LogFrame, LogFrameRaises, Logging, toolVars
<1>2. stamps' = [stamps EXCEPT ![c] = stamps[c] + 1] /\ (clean' => clean)
  <2>1. stamps' = [stamps EXCEPT ![c] = stamps[c] + 1]
    BY DEF LogFrame, LogFrameRaises, Logging
  <2>2. clean' => clean
    BY DEF LogFrame, LogFrameRaises
  <2> QED BY <2>1, <2>2
<1>3. \A d \in Camera : d # c => spool'[d] = spool[d]
  <2>1. spool \in [Camera -> Seq(Chunk)]
    BY DEF TypeOK
  <2>2. spool' = spool \/ \E q : spool' = [spool EXCEPT ![c] = q]
    BY DEF LogFrame, LogFrameRaises
  <2> QED BY <2>1, <2>2
<1>4. \A d \in Camera : d # c => file'[d] = file[d] /\ count'[d] = count[d]
  <2>1. file' = file \/ file' = [file EXCEPT ![c] = "open"]
    BY DEF LogFrame, LogFrameRaises
  <2>2. count' = count \/ count' = [count EXCEPT ![c] = count[c] + 1]
    BY DEF LogFrame, LogFrameRaises
  <2> QED BY <2>1, <2>2 DEF TypeOK
<1>5. \A d \in Camera : d # c => spooled'[d] = spooled[d] /\ at'[d] = at[d]
  <2>1. spooled' = spooled \/ \E q : spooled' = [spooled EXCEPT ![c] = q]
    BY DEF LogFrame, LogFrameRaises
  <2>2. at' = at \/ \E q : at' = [at EXCEPT ![c] = q]
    BY DEF LogFrame, LogFrameRaises
  <2> QED BY <2>1, <2>2 DEF TypeOK
<1>6. \A d \in Camera : d # c => stamps'[d] = stamps[d]
  BY <1>2 DEF TypeOK
<1> QED BY <1>1, <1>2, <1>3, <1>4, <1>5, <1>6 DEF SameCamera

LEMMA PollFrame ==
  ASSUME TypeOK, NEW c \in Camera, PollCamera(c)
  PROVE  /\ UNCHANGED <<mode, up, video, marked, tool, verdict, cut>>
         /\ clean' => clean
         /\ \A d \in Camera : d # c => SameCamera(d)
<1> USE DEF TypeOK, SameCamera, loggerVars, diskVars, toolVars, Reading, Logging, Disabled
<1>1. CASE StartRecording(c)
  BY <1>1 DEF StartRecording
<1>2. CASE PauseRecording(c) \/ ResumeRecording(c)
  BY <1>2 DEF PauseRecording, ResumeRecording
<1>3. CASE StopRecording(c)
  BY <1>3 DEF StopRecording
<1>4. CASE LogFrame(c) \/ LogFrameRaises(c)
  BY <1>4, LoggingFrame
<1>5. CASE FinalizeSpoolChunk(c)
  BY <1>5 DEF FinalizeSpoolChunk
<1>6. CASE FinalizeSpoolChunkRaises(c)
  BY <1>6 DEF FinalizeSpoolChunkRaises
<1>7. CASE CloseStorage(c)
  BY <1>7 DEF CloseStorage
<1> QED BY <1>1, <1>2, <1>3, <1>4, <1>5, <1>6, <1>7 DEF PollCamera

LEMMA ToolFrame ==
  ASSUME Tool
  PROVE  /\ UNCHANGED <<mode, command, up, loggerVars, store, dumped>>
         /\ clean' => clean
         /\ cut => cut'
         /\ Over' <=> Over
         /\ tool.at = "off" => Over
<1>1. CASE ToolStarts
  BY <1>1 DEF ToolStarts, Keeps, Over, loggerVars
<1>2. CASE ToolEnds
  BY <1>2 DEF ToolEnds, Keeps, Over, loggerVars
<1>3. CASE ToolInterrupted
  <2>1. UNCHANGED <<mode, command, up, loggerVars, store, dumped, clean>> /\ tool.at # "off"
    BY <1>3 DEF ToolInterrupted, Keeps
  <2>2. cut => cut'
    BY <1>3 DEF ToolInterrupted
  <2> QED BY <2>1, <2>2 DEF Over, loggerVars
<1>4. ASSUME NEW c \in Camera,
             \/ SkipCamera(c) \/ AttributesMissing(c) \/ BeginEncoding(c) \/ EncodeCamera(c)
             \/ EncodingRaises(c) \/ MarkFinalized(c) \/ DeleteFile(c) \/ DeleteDirectory(c)
      PROVE  /\ UNCHANGED <<mode, command, up, loggerVars, store, dumped, cut>>
             /\ clean' => clean
             /\ tool.at # "off"
  <2>1. tool.at # "off"
    BY <1>4 DEF SkipCamera, AttributesMissing, BeginEncoding, EncodeCamera, EncodingRaises,
       MarkFinalized, DeleteFile, DeleteDirectory
  <2>2. CASE EncodingRaises(c)
    <3>1. UNCHANGED <<mode, command, up, loggerVars, store, dumped, cut>>
      BY <2>2 DEF EncodingRaises, Keeps
    <3>2. clean' => clean
      BY <2>2 DEF EncodingRaises
    <3> QED BY <2>1, <3>1, <3>2
  <2>3. CASE ~EncodingRaises(c)
    BY <1>4, <2>1, <2>3 DEF SkipCamera, AttributesMissing, BeginEncoding, EncodeCamera,
       MarkFinalized, DeleteFile, DeleteDirectory, Keeps
  <2> QED BY <2>2, <2>3
<1> QED BY <1>1, <1>2, <1>3, <1>4 DEF Tool, Over, loggerVars

-----------------------------------------------------------------------------
(* The steps of a thread, as its camera sees them.                         *)

LEMMA ShownWhileRecording ==
  ASSUME TypeOK, OffInv, NEW c \in Camera, ShownInv(c), ~Over
  PROVE  Shown(c) = spooled[c] /\ ~cut
  BY DEF OffInv, ShownInv, Deleted

LEMMA StartStep ==
  ASSUME TypeOK, OffInv, NEW c \in Camera, CameraInv(c), ShownInv(c), ~Over, StartRecording(c)
  PROVE  TypeOK' /\ CameraInv(c)' /\ (Shown(c) = spooled[c])'
<1> USE DEF StartRecording, Reading, Polling
<1>0. mode # "stop"
  BY DEF CameraInv, ThreadInv
<1>1. TypeOK'
  <2>1. store' \in [Camera -> {"absent", "bare", "ready"}]
    BY DEF TypeOK
  <2>5. spooling' \in [Camera -> BOOLEAN]
    <3>1. CASE spooling' = [spooling EXCEPT ![c] = TRUE]
      BY <3>1 DEF TypeOK
    <3>2. ASSUME NEW b \in BOOLEAN, spooling' = [spooling EXCEPT ![c] = b /\ store'[c] = "bare"]
          PROVE  spooling' \in [Camera -> BOOLEAN]
      <4> DEFINE v == b /\ store'[c] = "bare"
      <4>1. v \in BOOLEAN /\ spooling' = [spooling EXCEPT ![c] = v]
        BY <3>2
      <4> HIDE DEF v
      <4> QED BY <4>1 DEF TypeOK
    <3> QED BY <3>1, <3>2
  <2>3. working' \in [Camera -> BOOLEAN]
    BY DEF TypeOK, Disabled
  <2>4. clean' \in BOOLEAN
    BY DEF TypeOK, Disabled
  <2>2. /\ command' \in [Camera -> {"none", "start", "pause", "resume", "stop"}]
        /\ rec' \in [Camera -> BOOLEAN] /\ held' \in [Camera -> BOOLEAN]
    BY DEF TypeOK
  <2> QED BY <2>1, <2>2, <2>3, <2>4, <2>5 DEF TypeOK, toolVars
<1>2. ThreadInv(c)'
  BY <1>0 DEF TypeOK, CameraInv, ThreadInv, Recording
<1>3. ChunksInv(c)' /\ StampsInv(c)'
  BY <1>0 DEF CameraInv, ChunksInv, StampsInv, Recording
<1>4. CleanInv(c)' /\ CleanChunksInv(c)'
  <2>1. clean' => clean /\ store'[c] = "ready" /\ UNCHANGED working
    BY DEF TypeOK, Disabled
  <2>2. held'[c] /\ UNCHANGED <<at, file, stamps, spooled, dumped, spool, up, mode>>
    BY DEF TypeOK
  <2>3. CleanInv(c)'
    BY <1>0, <2>1, <2>2 DEF CameraInv, CleanInv, Recording
  <2>4. CleanChunksInv(c)'
    BY <2>1, <2>2, ShownWhileRecording DEF CameraInv, CleanChunksInv, Deleted
  <2> QED BY <2>3, <2>4
<1>5. (Shown(c) = spooled[c])'
  BY ShownWhileRecording DEF Shown
<1> QED BY <1>1, <1>2, <1>3, <1>4, <1>5 DEF CameraInv

LEMMA PauseStep ==
  ASSUME TypeOK, OffInv, NEW c \in Camera, CameraInv(c), ShownInv(c), ~Over,
         PauseRecording(c) \/ ResumeRecording(c)
  PROVE  TypeOK' /\ CameraInv(c)' /\ (Shown(c) = spooled[c])'
<1> USE DEF PauseRecording, ResumeRecording, Reading, Polling
<1>0. mode # "stop"
  BY DEF CameraInv, ThreadInv
<1>1. TypeOK'
  <2>1. command' = [command EXCEPT ![c] = "none"]
        /\ (rec' = rec \/ \E v \in BOOLEAN : rec' = [rec EXCEPT ![c] = v])
    OBVIOUS
  <2>2. command' \in [Camera -> {"none", "start", "pause", "resume", "stop"}]
    BY <2>1 DEF TypeOK
  <2>3. rec' \in [Camera -> BOOLEAN]
    BY <2>1 DEF TypeOK
  <2> QED BY <2>2, <2>3 DEF TypeOK, toolVars
<1>2. ThreadInv(c)'
  BY <1>0 DEF TypeOK, CameraInv, ThreadInv, Recording
<1>3. ChunksInv(c)' /\ StampsInv(c)'
  BY <1>0 DEF CameraInv, ChunksInv, StampsInv, Recording
<1>4. CleanInv(c)' /\ CleanChunksInv(c)'
  <2>1. CleanInv(c)'
    BY <1>0 DEF CameraInv, CleanInv, Recording
  <2>2. CleanChunksInv(c)'
    BY ShownWhileRecording DEF CameraInv, CleanChunksInv, Deleted
  <2> QED BY <2>1, <2>2
<1>5. (Shown(c) = spooled[c])'
  BY ShownWhileRecording DEF Shown
<1> QED BY <1>1, <1>2, <1>3, <1>4, <1>5 DEF CameraInv

LEMMA StopStep ==
  ASSUME TypeOK, OffInv, NEW c \in Camera, CameraInv(c), ShownInv(c), ~Over, StopRecording(c)
  PROVE  TypeOK' /\ CameraInv(c)' /\ (Shown(c) = spooled[c])'
<1> USE DEF StopRecording, Reading, Polling
<1>0. mode = "stop" /\ Recording(c) /\ dumped[c] = None /\ Len(spooled[c]) <= stamps[c]
  BY DEF CameraInv, ThreadInv, StampsInv, Recording
<1>1. TypeOK'
  <2>1. /\ command' \in [Camera -> {"none", "start", "pause", "resume", "stop"}]
        /\ rec' \in [Camera -> BOOLEAN] /\ held' \in [Camera -> BOOLEAN]
        /\ stamps' \in [Camera -> Nat] /\ at' \in [Camera -> {"poll", "full", "close"}]
    BY DEF TypeOK
  <2>2. dumped' \in [Camera -> Nat \cup {None}]
    BY CameraTypes DEF TypeOK
  <2>3. clean' \in BOOLEAN
    BY DEF TypeOK
  <2> QED BY <2>1, <2>2, <2>3 DEF TypeOK, toolVars
<1>2. /\ ~Recording(c)' /\ ~held'[c] /\ ~rec'[c]
      /\ at'[c] = IF held[c] THEN "close" ELSE "poll"
      /\ UNCHANGED <<mode, working, file, count, store, spool, spooled, up, video, tool, cut>>
  BY <1>0 DEF TypeOK, Recording, toolVars
<1>3. ThreadInv(c)'
  BY <1>2 DEF TypeOK, CameraInv, ThreadInv
<1>4. dumped'[c] = None \/ (stamps[c] > 0 /\ dumped'[c] = stamps[c])
  BY <1>0 DEF TypeOK
<1>5. ChunksInv(c)' /\ StampsInv(c)'
  BY <1>0, <1>2, <1>4 DEF CameraInv, ChunksInv, StampsInv
<1>6. CleanInv(c)' /\ CleanChunksInv(c)'
  <2>1. clean' => clean
    OBVIOUS
  <2>2. clean /\ file[c] = "open" => held[c]
    BY DEF CameraInv, CleanInv
  <2>3. clean => stamps[c] = Len(spooled[c])
    BY <1>0 DEF CameraInv, CleanInv
  <2>4. CleanInv(c)'
    BY <1>2, <1>4, <2>1, <2>2, <2>3 DEF CameraInv, CleanInv
  <2>5. CleanChunksInv(c)'
    BY <1>2, <2>1, ShownWhileRecording DEF CameraInv, CleanChunksInv, Deleted
  <2> QED BY <2>4, <2>5
<1>7. (Shown(c) = spooled[c])'
  BY <1>2, ShownWhileRecording DEF Shown
<1> QED BY <1>1, <1>3, <1>5, <1>6, <1>7 DEF CameraInv

LEMMA CloseStep ==
  ASSUME TypeOK, OffInv, NEW c \in Camera, CameraInv(c), ShownInv(c), ~Over, CloseStorage(c)
  PROVE  TypeOK' /\ CameraInv(c)' /\ (Shown(c) = spooled[c])'
<1> USE DEF CloseStorage
<1>1. TypeOK'
  BY DEF TypeOK, toolVars, diskVars
<1>2. /\ UNCHANGED <<mode, command, up, working, rec, held, stamps, file, count, spooled, clean>>
      /\ UNCHANGED <<store, dumped, spool, spooling, video, tool, cut>>
      /\ at'[c] = "poll" /\ file[c] = "none" /\ count[c] < ChunkFrames
  BY FramesAssumption DEF TypeOK, toolVars, diskVars, CameraInv, ThreadInv
<1>3. ThreadInv(c)'
  BY <1>2 DEF CameraInv, ThreadInv, Recording
<1>4. ChunksInv(c)' /\ StampsInv(c)'
  BY <1>2 DEF CameraInv, ChunksInv, StampsInv, Recording
<1>5. CleanInv(c)' /\ CleanChunksInv(c)'
  <2>1. CleanInv(c)'
    BY <1>2 DEF CameraInv, CleanInv, Recording
  <2>2. CleanChunksInv(c)'
    BY <1>2, ShownWhileRecording DEF CameraInv, CleanChunksInv, Deleted
  <2> QED BY <2>1, <2>2
<1>6. (Shown(c) = spooled[c])'
  BY <1>2, ShownWhileRecording DEF Shown
<1> QED BY <1>1, <1>3, <1>4, <1>5, <1>6 DEF CameraInv

LEMMA FinalizeRaisesStep ==
  ASSUME TypeOK, OffInv, NEW c \in Camera, CameraInv(c), ShownInv(c), ~Over,
         FinalizeSpoolChunkRaises(c)
  PROVE  TypeOK' /\ CameraInv(c)' /\ (Shown(c) = spooled[c])'
<1> USE DEF FinalizeSpoolChunkRaises
<1>1. TypeOK'
  <2>1. /\ file' = [file EXCEPT ![c] = "closed"] /\ at' = [at EXCEPT ![c] = "poll"]
        /\ working' = working \/ working' = [working EXCEPT ![c] = FALSE]
        /\ UNCHANGED <<command, rec, held, stamps, count, taken, spooled>>
    BY DEF Disabled
  <2>2. ThreadTypes'
    <3>1. /\ file' \in [Camera -> {"none", "open", "closed"}]
          /\ at' \in [Camera -> {"poll", "full", "close"}]
      BY <2>1, TypesAre DEF ThreadTypes
    <3>2. working' \in [Camera -> BOOLEAN]
      BY <2>1, TypesAre DEF ThreadTypes
    <3>3. UNCHANGED <<command, rec, held, stamps, count, taken, spooled>>
      BY <2>1
    <3> HIDE DEF FinalizeSpoolChunkRaises
    <3> QED BY <3>1, <3>2, <3>3, TypesAre DEF ThreadTypes
  <2>3. /\ clean' = FALSE
        /\ UNCHANGED <<mode, up, store, dumped, spool, spooling, video, marked, tool, verdict, cut>>
    BY DEF Disabled, toolVars, diskVars
  <2>4. OtherTypes'
    BY <2>3, TypesAre DEF OtherTypes
  <2> QED BY <2>2, <2>4, TypesWillBe
<1>2. /\ UNCHANGED <<mode, command, up, rec, held, stamps, count, spooled>>
      /\ UNCHANGED <<store, dumped, spool, spooling, video, tool, cut>>
      /\ at'[c] = "poll" /\ file'[c] = "closed" /\ ~clean'
  BY DEF TypeOK, toolVars, diskVars, Disabled
<1>3. ThreadInv(c)'
  BY <1>2 DEF CameraInv, ThreadInv, Recording
<1>4. ChunksInv(c)' /\ StampsInv(c)'
  BY <1>2 DEF CameraInv, ChunksInv, StampsInv, Recording
<1>5. CleanInv(c)' /\ CleanChunksInv(c)'
  BY <1>2 DEF CleanInv, CleanChunksInv
<1>6. (Shown(c) = spooled[c])'
  BY <1>2, ShownWhileRecording DEF Shown
<1> QED BY <1>1, <1>3, <1>4, <1>5, <1>6 DEF CameraInv

\* The chunk a frame goes to: the open one, or one that is made for it.
LEMMA OpenedFacts ==
  ASSUME TypeOK, OffInv, NEW c \in Camera, CameraInv(c), ShownInv(c), ~Over, file[c] # "closed"
  PROVE  /\ Opened(c) \in Seq(Chunk) /\ Len(Opened(c)) \in Nat /\ Len(Opened(c)) > 0
         /\ FramesIn(Opened(c)) = spooled[c]
         /\ \A i \in 1 .. Len(Opened(c)) : HasBin(Opened(c)[i])
         /\ Len(Opened(c)[Len(Opened(c))].bin) = count[c]
         /\ clean => \A i \in 1 .. Len(Opened(c)) :
                       ~Opened(c)[i].torn /\ (i < Len(Opened(c)) => Encodable(Opened(c)[i]))
<1>1. /\ spool[c] \in Seq(Chunk) /\ Len(spool[c]) \in Nat
      /\ FramesIn(spool[c]) = spooled[c]
      /\ \A i \in 1 .. Len(spool[c]) : HasBin(spool[c][i])
  BY CameraTypes, ShownWhileRecording, ShownIs DEF CameraInv, ChunksInv
<1>2. clean => \A i \in 1 .. Len(spool[c]) :
        ~spool[c][i].torn /\ (i < Len(spool[c]) \/ file[c] # "open" => Encodable(spool[c][i]))
  BY ShownWhileRecording DEF CameraInv, CleanChunksInv, Deleted
<1>3. CASE file[c] = "open"
  <2>1. Opened(c) = spool[c]
    BY <1>3 DEF Opened
  <2>2. Len(spool[c]) > 0 /\ Len(spool[c][Len(spool[c])].bin) = count[c]
    BY <1>3 DEF CameraInv, ChunksInv
  <2> QED BY <1>1, <1>2, <2>1, <2>2
<1>4. CASE file[c] = "none"
  <2> DEFINE new == Append(spool[c], NewChunk)
  <2>1. Opened(c) = new
    BY <1>4 DEF Opened
  <2>2. /\ new \in Seq(Chunk) /\ Len(new) = Len(spool[c]) + 1
        /\ \A i \in 1 .. Len(spool[c]) : new[i] = spool[c][i]
        /\ new[Len(spool[c]) + 1] = NewChunk
    BY <1>1, NewChunkFacts, AppendProperties
  <2> HIDE DEF new
  <2>3. FramesIn(new) = FramesIn(spool[c])
    BY <1>1, <2>2, NewChunkFacts, FramesInOpened
  <2>4. ASSUME NEW i \in 1 .. Len(new)
        PROVE  i \in 1 .. Len(spool[c]) \/ i = Len(spool[c]) + 1
    BY <1>1, <2>2
  <2>5. \A i \in 1 .. Len(new) : HasBin(new[i])
    BY <1>1, <2>2, <2>4, NewChunkFacts
  <2>6. Len(new[Len(new)].bin) = count[c]
    <3>1. count[c] = 0 /\ Len(<<>>) = 0
      BY <1>4, EmptySeq DEF CameraInv, ThreadInv
    <3> QED BY <2>2, <3>1, NewChunkFacts
  <2>7. ASSUME clean, NEW i \in 1 .. Len(new)
        PROVE  ~new[i].torn /\ (i < Len(new) => Encodable(new[i]))
    <3>1. CASE i \in 1 .. Len(spool[c])
      BY <1>2, <1>4, <2>2, <2>7, <3>1
    <3>2. CASE i = Len(spool[c]) + 1
      BY <2>2, <3>2, NewChunkFacts
    <3> QED BY <2>4, <3>1, <3>2
  <2>8. Len(new) \in Nat /\ Len(new) > 0
    BY <1>1, <2>2
  <2> QED BY <1>1, <2>1, <2>2, <2>3, <2>5, <2>6, <2>7, <2>8
<1> QED BY <1>3, <1>4, CameraTypes

\* What becomes of a spool when the last chunk is replaced by one that has it.
LEMMA ReplacedFacts ==
  ASSUME TypeOK, OffInv, NEW c \in Camera, CameraInv(c), ShownInv(c), ~Over, file[c] # "closed",
         NEW chunk \in Chunk, HasBin(chunk)
  PROVE  LET old == Opened(c)
             new == WithLast(old, chunk)
         IN  /\ new \in Seq(Chunk) /\ Len(new) = Len(old) /\ Len(old) \in Nat /\ Len(old) > 0
             /\ old[Len(old)] = Last(old) /\ Last(old) \in Chunk /\ HasBin(Last(old))
             /\ new[Len(old)] = chunk
             /\ \A i \in 1 .. Len(old) - 1 : new[i] = old[i]
             /\ \A i \in 1 .. Len(new) : HasBin(new[i])
             /\ chunk.bin = Last(old).bin => FramesIn(new) = FramesIn(old)
             /\ \A n \in Frame : chunk.bin = Append(Last(old).bin, n) =>
                  FramesIn(new) = Append(FramesIn(old), n)
<1> DEFINE old == Opened(c)
           new == WithLast(old, chunk)
<1>1. /\ old \in Seq(Chunk) /\ Len(old) \in Nat /\ Len(old) > 0
      /\ \A i \in 1 .. Len(old) : HasBin(old[i])
  BY OpenedFacts
<1> HIDE DEF old
<1>2. old[Len(old)] = Last(old) /\ Last(old) \in Chunk /\ Len(old) \in 1 .. Len(old)
  BY <1>1, LastFacts
<1>3. /\ new \in Seq(Chunk) /\ Len(new) = Len(old)
      /\ \A i \in 1 .. Len(old) : new[i] = IF i = Len(old) THEN chunk ELSE old[i]
  BY <1>1, WithLastFacts
<1> HIDE DEF new
<1>4. new[Len(old)] = chunk
  BY <1>2, <1>3
<1>5. ASSUME NEW i \in 1 .. Len(old) - 1 PROVE new[i] = old[i]
  <2>1. i \in 1 .. Len(old) /\ i # Len(old)
    BY <1>1
  <2> QED BY <1>3, <2>1
<1>6. \A i \in 1 .. Len(new) : HasBin(new[i])
  BY <1>1, <1>3
<1>7. FramesOf(chunk) = chunk.bin /\ FramesOf(Last(old)) = Last(old).bin
  BY <1>1, <1>2, ChunkFacts
<1>8. chunk.bin = Last(old).bin => FramesIn(new) = FramesIn(old)
  <2> SUFFICES ASSUME chunk.bin = Last(old).bin PROVE FramesIn(new) = FramesIn(old)
    OBVIOUS
  <2>1. \A i \in 1 .. Len(old) : FramesOf(new[i]) = FramesOf(old[i])
    BY <1>2, <1>3, <1>7
  <2> QED BY <1>1, <1>3, <2>1, FramesInSame
<1>9. ASSUME NEW n \in Frame, chunk.bin = Append(Last(old).bin, n)
      PROVE  FramesIn(new) = Append(FramesIn(old), n)
  <2>1. FramesOf(new[Len(old)]) = Append(FramesOf(old[Len(old)]), n)
    BY <1>2, <1>4, <1>7, <1>9
  <2>2. \A i \in 1 .. Len(old) - 1 : FramesOf(new[i]) = FramesOf(old[i])
    BY <1>5
  <2> QED BY <1>1, <1>3, <2>1, <2>2, FramesInWritten
<1>10. HasBin(Last(old))
  BY <1>1, <1>2
<1> QED BY <1>1, <1>2, <1>3, <1>4, <1>5, <1>6, <1>8, <1>9, <1>10 DEF old, new

LEMMA LogFrameStep ==
  ASSUME TypeOK, OffInv, NEW c \in Camera, CameraInv(c), ShownInv(c), ~Over, LogFrame(c)
  PROVE  TypeOK' /\ CameraInv(c)' /\ (Shown(c) = spooled[c])'
<1> DEFINE old == Opened(c)
           n == taken[c] + 1
           chunk == [Last(old) EXCEPT !.bin = Append(Last(old).bin, n)]
           new == WithLast(old, chunk)
<1>1. /\ rec[c] /\ at[c] = "poll" /\ file[c] # "closed"
      /\ taken' = [taken EXCEPT ![c] = n] /\ stamps' = [stamps EXCEPT ![c] = stamps[c] + 1]
      /\ spool' = [spool EXCEPT ![c] = new] /\ file' = [file EXCEPT ![c] = "open"]
      /\ count' = [count EXCEPT ![c] = count[c] + 1]
      /\ spooled' = [spooled EXCEPT ![c] = Append(spooled[c], n)]
      /\ at' = [at EXCEPT ![c] = IF count[c] + 1 >= ChunkFrames THEN "full" ELSE "poll"]
      /\ UNCHANGED <<mode, command, up, working, rec, held, store, dumped, spooling, video, marked,
                     tool, verdict, cut, clean>>
  <2>1. taken'[c] = n /\ count'[c] = count[c] + 1
    <3>1. taken \in [Camera -> Nat] /\ count \in [Camera -> 0 .. ChunkFrames]
      BY DEF TypeOK
    <3>2. taken' = [taken EXCEPT ![c] = n] /\ count' = [count EXCEPT ![c] = count[c] + 1]
      BY DEF LogFrame, Logging
    <3> QED BY <3>1, <3>2
  <2> QED BY <2>1 DEF LogFrame, Logging, Polling, toolVars
<1>2. n \in Frame /\ stamps[c] + 1 \in Nat /\ count[c] + 1 \in 0 .. ChunkFrames
  <2>1. count[c] \in Nat /\ count[c] < ChunkFrames /\ ChunkFrames \in Nat
    BY <1>1, CameraTypes, FramesAssumption DEF CameraInv, ThreadInv
  <2> QED BY <2>1, CameraTypes DEF Frame
<1> HIDE DEF n
<1>3. /\ old \in Seq(Chunk) /\ Len(old) \in Nat /\ Len(old) > 0
      /\ FramesIn(old) = spooled[c]
      /\ \A i \in 1 .. Len(old) : HasBin(old[i])
      /\ Len(old[Len(old)].bin) = count[c]
      /\ clean => \A i \in 1 .. Len(old) :
                    ~old[i].torn /\ (i < Len(old) => Encodable(old[i]))
  BY <1>1, OpenedFacts
<1>4. old[Len(old)] = Last(old) /\ Last(old) \in Chunk /\ HasBin(Last(old))
  BY <1>3, LastFacts
<1>5. /\ Append(Last(old).bin, n) \in Seq(Frame)
      /\ Len(Append(Last(old).bin, n)) = count[c] + 1
  BY <1>2, <1>3, <1>4, ChunkFacts, AppendProperties
<1>6. /\ chunk \in Chunk /\ HasBin(chunk) /\ chunk.torn = Last(old).torn
      /\ chunk.bin = Append(Last(old).bin, n)
  BY <1>4, <1>5, NoneIsNoSequence DEF Chunk, HasBin
<1> HIDE DEF chunk
<1>7. /\ new \in Seq(Chunk) /\ Len(new) = Len(old)
      /\ new[Len(old)] = chunk
      /\ \A i \in 1 .. Len(old) - 1 : new[i] = old[i]
      /\ \A i \in 1 .. Len(new) : HasBin(new[i])
      /\ FramesIn(new) = Append(FramesIn(old), n)
  BY <1>1, <1>2, <1>6, ReplacedFacts
<1> HIDE DEF new, old
<1>8. TypeOK'
  <2>1. spool' \in [Camera -> Seq(Chunk)]
    BY <1>1, <1>7 DEF TypeOK
  <2>2. Append(spooled[c], n) \in Seq(Frame)
    BY <1>2, CameraTypes, AppendProperties
  <2>3. spooled' \in [Camera -> Seq(Frame)]
    BY <1>1, <2>2 DEF TypeOK
  <2>4. /\ taken' \in [Camera -> Nat] /\ stamps' \in [Camera -> Nat]
        /\ count' \in [Camera -> 0 .. ChunkFrames]
    BY <1>1, <1>2 DEF TypeOK, Frame
  <2>5. /\ file' \in [Camera -> {"none", "open", "closed"}]
        /\ at' \in [Camera -> {"poll", "full", "close"}]
    BY <1>1 DEF TypeOK
  <2>6. UNCHANGED <<mode, command, up, working, rec, held, store, dumped, spooling, video, marked,
                    tool, verdict, cut, clean>>
    BY <1>1
  <2>7. ThreadTypes'
    BY <2>3, <2>4, <2>5, <2>6, TypesAre DEF ThreadTypes
  <2>8. OtherTypes'
    BY <2>1, <2>6, TypesAre DEF OtherTypes
  <2> QED BY <2>7, <2>8, TypesWillBe
<1>9. /\ file'[c] = "open" /\ count'[c] = count[c] + 1 /\ stamps'[c] = stamps[c] + 1
      /\ at'[c] = IF count[c] + 1 >= ChunkFrames THEN "full" ELSE "poll"
      /\ spooled'[c] = Append(spooled[c], n) /\ spool'[c] = new
  BY <1>1 DEF TypeOK
<1>10. held[c] /\ Recording(c)
  BY <1>1 DEF CameraInv, ThreadInv
<1>11. Len(spooled'[c]) = Len(spooled[c]) + 1
  BY <1>2, <1>9, CameraTypes, AppendProperties
<1>12. ThreadInv(c)'
  <2>1. at'[c] = "poll" => count'[c] < ChunkFrames
    BY <1>2, <1>9, FramesAssumption
  <2>2. Recording(c)'
    BY <1>1, <1>10 DEF Recording
  <2> QED BY <1>1, <1>9, <2>1, <2>2 DEF CameraInv, ThreadInv
<1>13. ChunksInv(c)'
  <2>1. video'[c] = None
    BY <1>1 DEF CameraInv, ChunksInv
  <2>2. Len(new[Len(new)].bin) = count'[c]
    BY <1>5, <1>6, <1>7, <1>9
  <2> QED BY <1>3, <1>7, <1>9, <2>1, <2>2 DEF ChunksInv
<1>14. StampsInv(c)'
  <2>1. dumped[c] = None /\ Len(spooled[c]) <= stamps[c]
    BY <1>10 DEF CameraInv, StampsInv
  <2> QED BY <1>1, <1>9, <1>11, <2>1, CameraTypes DEF StampsInv
<1>15. CleanInv(c)'
  <2>1. dumped[c] = None
    BY <1>10 DEF CameraInv, StampsInv
  <2>2. clean => /\ working[c] /\ store[c] # "bare" /\ up
                 /\ stamps[c] = Len(spooled[c])
    BY <1>1, <1>10 DEF CameraInv, CleanInv, LogFrame, Logging, Polling
  <2>3. up
    BY DEF LogFrame, Logging, Polling
  <2> QED BY <1>1, <1>9, <1>10, <1>11, <2>1, <2>2, <2>3 DEF CleanInv
<1>16. CleanChunksInv(c)'
  <2> SUFFICES ASSUME clean, NEW i \in 1 .. Len(new)
               PROVE  HasBin(new[i]) /\ ~new[i].torn /\ (i < Len(new) => Encodable(new[i]))
    BY <1>1, <1>9 DEF CleanChunksInv
  <2>1. CASE i = Len(old)
    BY <1>3, <1>4, <1>6, <1>7, <2>1
  <2>2. CASE i # Len(old)
    <3>1. i \in 1 .. Len(old) - 1 /\ i \in 1 .. Len(old) /\ i < Len(old)
      BY <1>3, <1>7, <2>2
    <3> QED BY <1>3, <1>7, <3>1
  <2> QED BY <2>1, <2>2
<1>17. (Shown(c) = spooled[c])'
  BY <1>3, <1>7, <1>9, ShownIs DEF Shown, FramesIn, Shows
<1> QED BY <1>8, <1>12, <1>13, <1>14, <1>15, <1>16, <1>17 DEF CameraInv

\* A frame that was not written whole is not among the frames of its chunk.
LEMMA TornFacts ==
  ASSUME TypeOK, OffInv, NEW c \in Camera, CameraInv(c), ShownInv(c), ~Over, file[c] # "closed",
         NEW torn \in BOOLEAN
  PROVE  LET new == WithLast(Opened(c), [Last(Opened(c)) EXCEPT !.torn = @ \/ torn])
         IN  /\ new \in Seq(Chunk) /\ Len(new) > 0
             /\ FramesIn(new) = spooled[c]
             /\ \A i \in 1 .. Len(new) : HasBin(new[i])
             /\ Len(new[Len(new)].bin) = count[c]
<1> DEFINE old == Opened(c)
           chunk == [Last(old) EXCEPT !.torn = @ \/ torn]
           new == WithLast(old, chunk)
<1>1. /\ old \in Seq(Chunk) /\ Len(old) \in Nat /\ Len(old) > 0
      /\ FramesIn(old) = spooled[c]
      /\ \A i \in 1 .. Len(old) : HasBin(old[i])
      /\ Len(old[Len(old)].bin) = count[c]
  BY OpenedFacts
<1>2. old[Len(old)] = Last(old) /\ Last(old) \in Chunk /\ HasBin(Last(old))
  BY <1>1, LastFacts
<1>3. chunk \in Chunk /\ chunk.bin = Last(old).bin
  <2>1. (Last(old).torn \/ torn) \in BOOLEAN
    OBVIOUS
  <2> DEFINE t == Last(old).torn \/ torn
  <2>2. chunk = [Last(old) EXCEPT !.torn = t]
    OBVIOUS
  <2> HIDE DEF t, chunk, old
  <2>3. t \in BOOLEAN
    BY <2>1 DEF t
  <2> QED BY <1>2, <2>2, <2>3 DEF Chunk
<1> HIDE DEF chunk
<1>4. HasBin(chunk)
  BY <1>2, <1>3 DEF HasBin
<1>5. /\ new \in Seq(Chunk) /\ Len(new) = Len(old)
      /\ new[Len(old)] = chunk
      /\ \A i \in 1 .. Len(new) : HasBin(new[i])
      /\ FramesIn(new) = FramesIn(old)
  BY <1>3, <1>4, ReplacedFacts
<1>6. Len(new[Len(new)].bin) = count[c]
  BY <1>1, <1>2, <1>3, <1>5
<1> HIDE DEF new, old
<1>7. Len(new) > 0
  BY <1>1, <1>5
<1> QED BY <1>1, <1>5, <1>6, <1>7 DEF new, old, chunk

LEMMA LogRaisesStep ==
  ASSUME TypeOK, OffInv, NEW c \in Camera, CameraInv(c), ShownInv(c), ~Over, LogFrameRaises(c)
  PROVE  TypeOK' /\ CameraInv(c)' /\ (Shown(c) = spooled[c])'
<1>1. /\ rec[c] /\ at[c] = "poll"
      /\ stamps' = [stamps EXCEPT ![c] = stamps[c] + 1]
      /\ taken' = [taken EXCEPT ![c] = taken[c] + 1]
      /\ UNCHANGED <<mode, command, up, working, rec, held, store, dumped, spooling, video, marked>>
      /\ UNCHANGED <<tool, verdict, cut, count, spooled, at>>
      /\ clean' = FALSE
  BY DEF LogFrameRaises, Logging, Polling, toolVars
<1>2. held[c] /\ Recording(c)
  BY <1>1 DEF CameraInv, ThreadInv
<1> DEFINE Left(new, f) ==
             /\ spool' = [spool EXCEPT ![c] = new] /\ file' = [file EXCEPT ![c] = f]
             /\ FramesIn(new) = spooled[c]
             /\ \A i \in 1 .. Len(new) : HasBin(new[i])
             /\ f = "open" => Len(new) > 0 /\ Len(new[Len(new)].bin) = count[c]
             /\ f = file[c] \/ (f = "open" /\ file[c] # "closed")
<1>3. PICK new \in Seq(Chunk), f \in {"none", "open", "closed"} : Left(new, f)
  <2>1. CASE UNCHANGED <<spool, file>>
    <3>1. FramesIn(spool[c]) = spooled[c]
      BY ShownWhileRecording, ShownIs
    <3>2. spool[c] \in Seq(Chunk) /\ file[c] \in {"none", "open", "closed"}
      BY CameraTypes
    <3>3. spool' = [spool EXCEPT ![c] = spool[c]] /\ file' = [file EXCEPT ![c] = file[c]]
      BY <2>1 DEF TypeOK
    <3>4. Left(spool[c], file[c])
      BY <3>1, <3>3 DEF CameraInv, ChunksInv
    <3> HIDE DEF Left
    <3> QED BY <3>2, <3>4
  <2>2. ASSUME file[c] # "closed", NEW torn \in BOOLEAN,
               spool' = [spool EXCEPT ![c] =
                           WithLast(Opened(c), [Last(Opened(c)) EXCEPT !.torn = @ \/ torn])],
               file' = [file EXCEPT ![c] = "open"]
        PROVE  \E q \in Seq(Chunk), f \in {"none", "open", "closed"} : Left(q, f)
    <3> DEFINE q == WithLast(Opened(c), [Last(Opened(c)) EXCEPT !.torn = @ \/ torn])
    <3>1. /\ q \in Seq(Chunk) /\ Len(q) > 0 /\ FramesIn(q) = spooled[c]
          /\ \A i \in 1 .. Len(q) : HasBin(q[i])
          /\ Len(q[Len(q)].bin) = count[c]
      BY <2>2, TornFacts
    <3>2. spool' = [spool EXCEPT ![c] = q]
      BY <2>2
    <3> HIDE DEF q
    <3>3. Left(q, "open")
      BY <2>2, <3>1, <3>2
    <3> HIDE DEF Left
    <3> QED BY <3>1, <3>3
  <2> QED BY <2>1, <2>2 DEF LogFrameRaises
<1>4. spool'[c] = new /\ file'[c] = f /\ stamps'[c] = stamps[c] + 1 /\ stamps[c] \in Nat
  BY <1>1, <1>3 DEF TypeOK
<1>5. TypeOK'
  <2>1. spool' \in [Camera -> Seq(Chunk)] /\ file' \in [Camera -> {"none", "open", "closed"}]
    BY <1>3 DEF TypeOK
  <2>2. taken' \in [Camera -> Nat] /\ stamps' \in [Camera -> Nat]
    BY <1>1 DEF TypeOK
  <2>3. UNCHANGED <<mode, command, up, working, rec, held, store, dumped, spooling, video, marked,
                    tool, verdict, cut, count, spooled, at>> /\ clean' \in BOOLEAN
    BY <1>1
  <2>4. ThreadTypes'
    BY <2>1, <2>2, <2>3, TypesAre DEF ThreadTypes
  <2>5. OtherTypes'
    BY <2>1, <2>3, TypesAre DEF OtherTypes
  <2> QED BY <2>4, <2>5, TypesWillBe
<1>6. ThreadInv(c)'
  <2>1. /\ f = "none" => count[c] = 0
        /\ f # "closed" => count[c] < ChunkFrames
    BY <1>1, <1>3 DEF CameraInv, ThreadInv
  <2> QED BY <1>1, <1>2, <1>4, <2>1 DEF CameraInv, ThreadInv, Recording
<1>7. ChunksInv(c)'
  BY <1>1, <1>3, <1>4 DEF CameraInv, ChunksInv
<1>8. StampsInv(c)'
  <2>1. dumped[c] = None /\ Len(spooled[c]) <= stamps[c]
    BY <1>2 DEF CameraInv, StampsInv
  <2> QED BY <1>1, <1>4, <2>1, CameraTypes DEF StampsInv
<1>9. CleanInv(c)' /\ CleanChunksInv(c)'
  BY <1>1 DEF CleanInv, CleanChunksInv
<1>10. (Shown(c) = spooled[c])'
  BY <1>1, <1>3, <1>4 DEF Shown, FramesIn, Shows
<1> QED BY <1>5, <1>6, <1>7, <1>8, <1>9, <1>10 DEF CameraInv

\* What closing the last chunk of a spool does to it.
LEMMA ClosedFacts ==
  ASSUME TypeOK, OffInv, NEW c \in Camera, CameraInv(c), ShownInv(c), ~Over, file[c] = "open"
  PROVE  LET chunk == [Last(spool[c]) EXCEPT !.ts = count[c]]
             new == IF count[c] = 0 THEN Front(spool[c]) ELSE WithLast(spool[c], chunk)
         IN  /\ new \in Seq(Chunk) /\ FramesIn(new) = spooled[c]
             /\ \A i \in 1 .. Len(new) : HasBin(new[i])
             /\ clean => \A i \in 1 .. Len(new) : ~new[i].torn /\ Encodable(new[i])
<1> DEFINE old == spool[c]
           chunk == [Last(old) EXCEPT !.ts = count[c]]
           new == IF count[c] = 0 THEN Front(old) ELSE WithLast(old, chunk)
<1>0. Opened(c) = old
  BY DEF Opened
<1>1. /\ old \in Seq(Chunk) /\ Len(old) \in Nat /\ Len(old) > 0
      /\ FramesIn(old) = spooled[c]
      /\ \A i \in 1 .. Len(old) : HasBin(old[i])
      /\ Len(old[Len(old)].bin) = count[c]
      /\ clean => \A i \in 1 .. Len(old) :
                    ~old[i].torn /\ (i < Len(old) => Encodable(old[i]))
  <2> HIDE DEF old
  <2> QED BY <1>0, OpenedFacts
<1>2. count[c] \in Nat
  BY CameraTypes
<1> HIDE DEF old
<1>3. old[Len(old)] = Last(old) /\ Last(old) \in Chunk /\ HasBin(Last(old))
  BY <1>1, LastFacts
<1>4. CASE count[c] = 0
  <2>1. new = Front(old)
    BY <1>4
  <2>2. /\ new \in Seq(Chunk) /\ Len(new) = Len(old) - 1 /\ Len(old) - 1 \in Nat
        /\ \A i \in 1 .. Len(old) - 1 : new[i] = old[i]
    BY <1>1, <2>1, FrontFacts
  <2> HIDE DEF new
  <2>3. FramesOf(old[Len(old)]) = <<>>
    <3>1. FramesOf(Last(old)) = Last(old).bin /\ Last(old).bin \in Seq(Frame)
      BY <1>3, ChunkFacts
    <3> QED BY <1>1, <1>3, <1>4, <3>1, EmptySeq
  <2>4. Len(old) = Len(new) + 1 /\ \A i \in 1 .. Len(new) : FramesOf(old[i]) = FramesOf(new[i])
    BY <1>1, <2>2
  <2>5. FramesIn(old) = FramesIn(new)
    BY <1>1, <2>2, <2>3, <2>4, FramesInOpened
  <2>6. ASSUME NEW i \in 1 .. Len(new) PROVE i \in 1 .. Len(old) /\ i < Len(old) /\ new[i] = old[i]
    BY <1>1, <2>2
  <2>7. /\ \A i \in 1 .. Len(new) : HasBin(new[i])
        /\ clean => \A i \in 1 .. Len(new) : ~new[i].torn /\ Encodable(new[i])
    BY <1>1, <2>6
  <2> QED BY <1>1, <2>2, <2>5, <2>7 DEF new, old, chunk
<1>5. CASE count[c] # 0
  <2>1. new = WithLast(old, chunk)
    BY <1>5
  <2>2. /\ chunk \in Chunk /\ chunk.bin = Last(old).bin /\ chunk.torn = Last(old).torn
        /\ chunk.ts = count[c]
    BY <1>2, <1>3, <1>5 DEF Chunk, Frame
  <2> HIDE DEF chunk
  <2>3. HasBin(chunk)
    BY <1>3, <2>2 DEF HasBin
  <2>4. /\ new \in Seq(Chunk) /\ Len(new) = Len(old)
        /\ new[Len(old)] = chunk
        /\ \A i \in 1 .. Len(old) - 1 : new[i] = old[i]
        /\ \A i \in 1 .. Len(new) : HasBin(new[i])
        /\ FramesIn(new) = FramesIn(old)
    BY <1>0, <2>1, <2>2, <2>3, ReplacedFacts
  <2> HIDE DEF new
  <2>5. ASSUME clean, NEW i \in 1 .. Len(new) PROVE ~new[i].torn /\ Encodable(new[i])
    <3>1. CASE i = Len(old)
      <4>1. ~old[Len(old)].torn
        BY <1>1, <2>4, <2>5, <3>1
      <4> QED BY <1>1, <1>3, <2>2, <2>4, <3>1, <4>1 DEF Encodable
    <3>2. CASE i # Len(old)
      <4>1. i \in 1 .. Len(old) - 1 /\ i \in 1 .. Len(old) /\ i < Len(old)
        BY <1>1, <2>4, <3>2
      <4> QED BY <1>1, <2>4, <2>5, <4>1
    <3> QED BY <3>1, <3>2
  <2> QED BY <1>1, <2>4, <2>5 DEF new, old, chunk
<1> QED BY <1>4, <1>5

LEMMA FinalizeStep ==
  ASSUME TypeOK, OffInv, NEW c \in Camera, CameraInv(c), ShownInv(c), ~Over, FinalizeSpoolChunk(c)
  PROVE  TypeOK' /\ CameraInv(c)' /\ (Shown(c) = spooled[c])'
<1> DEFINE chunk == [Last(spool[c]) EXCEPT !.ts = count[c]]
           new == IF count[c] = 0 THEN Front(spool[c]) ELSE WithLast(spool[c], chunk)
<1>1. /\ up /\ working[c] /\ at[c] \in {"full", "close"} /\ file[c] = "open"
      /\ spool' = [spool EXCEPT ![c] = new]
      /\ file' = [file EXCEPT ![c] = "none"] /\ count' = [count EXCEPT ![c] = 0]
      /\ at' = [at EXCEPT ![c] = IF at[c] = "full" THEN "poll" ELSE at[c]]
      /\ UNCHANGED <<mode, command, up, working, rec, held, stamps, taken, spooled>>
      /\ UNCHANGED <<store, dumped, spooling, video, marked, tool, verdict, cut, clean>>
  BY DEF FinalizeSpoolChunk, toolVars
<1>2. /\ new \in Seq(Chunk) /\ FramesIn(new) = spooled[c]
      /\ \A i \in 1 .. Len(new) : HasBin(new[i])
      /\ clean => \A i \in 1 .. Len(new) : ~new[i].torn /\ Encodable(new[i])
  BY <1>1, ClosedFacts
<1> HIDE DEF new
<1>3. /\ spool'[c] = new /\ file'[c] = "none" /\ count'[c] = 0
      /\ at'[c] = IF at[c] = "full" THEN "poll" ELSE at[c]
  BY <1>1 DEF TypeOK
<1>4. TypeOK'
  <2>1. spool' \in [Camera -> Seq(Chunk)] /\ file' \in [Camera -> {"none", "open", "closed"}]
    BY <1>1, <1>2 DEF TypeOK
  <2>2. 0 \in 0 .. ChunkFrames
    BY FramesAssumption
  <2>3. count' \in [Camera -> 0 .. ChunkFrames] /\ at' \in [Camera -> {"poll", "full", "close"}]
    BY <1>1, <2>2 DEF TypeOK
  <2>4. UNCHANGED <<mode, command, up, working, rec, held, stamps, taken, spooled,
                    store, dumped, spooling, video, marked, tool, verdict, cut, clean>>
    BY <1>1
  <2>5. ThreadTypes'
    BY <2>1, <2>3, <2>4, TypesAre DEF ThreadTypes
  <2>6. OtherTypes'
    BY <2>1, <2>4, TypesAre DEF OtherTypes
  <2> QED BY <2>5, <2>6, TypesWillBe
<1>5. ThreadInv(c)'
  <2>1. 0 < ChunkFrames
    BY FramesAssumption
  <2> QED BY <1>1, <1>3, <2>1 DEF CameraInv, ThreadInv, Recording
<1>6. ChunksInv(c)' /\ StampsInv(c)'
  BY <1>1, <1>2, <1>3 DEF CameraInv, ChunksInv, StampsInv, Recording
<1>7. CleanInv(c)'
  BY <1>1, <1>3 DEF CameraInv, CleanInv, Recording
<1>8. CleanChunksInv(c)'
  BY <1>1, <1>2, <1>3 DEF CleanChunksInv
<1>9. (Shown(c) = spooled[c])'
  BY <1>1, <1>2, <1>3 DEF Shown, FramesIn, Shows
<1> QED BY <1>4, <1>5, <1>6, <1>7, <1>8, <1>9 DEF CameraInv

-----------------------------------------------------------------------------
(* The steps of the logger process keep the whole invariant.               *)

LEMMA PollStep ==
  ASSUME TypeOK, SpoolInv, NEW c \in Camera, PollCamera(c)
  PROVE  TypeOK' /\ SpoolInv'
<1>1. /\ OffInv /\ ToolInv /\ CleanIsFinalized
      /\ \A d \in Camera : CameraInv(d) /\ ShownInv(d) /\ VideoInv(d)
  BY DEF SpoolInv
<1>2. ~Over /\ up
  BY <1>1, PollNotOver DEF CameraInv
<1>3. /\ UNCHANGED <<mode, up, video, marked, tool, verdict, cut>>
      /\ clean' => clean
      /\ \A d \in Camera : d # c => SameCamera(d)
  BY PollFrame
<1>4. TypeOK' /\ CameraInv(c)' /\ (Shown(c) = spooled[c])'
  <2>1. OffInv /\ CameraInv(c) /\ ShownInv(c)
    BY <1>1
  <2> QED BY <1>2, <2>1, StartStep, PauseStep, StopStep, LogFrameStep, LogRaisesStep, FinalizeStep,
          FinalizeRaisesStep, CloseStep DEF PollCamera
<1>5. tool.at = "off" /\ ~cut /\ verdict = "none"
  BY <1>1, <1>2 DEF OffInv
<1>6. OffInv' /\ ToolInv' /\ CleanIsFinalized'
  BY <1>3, <1>5 DEF OffInv, ToolInv, CleanIsFinalized
<1>7. ASSUME NEW d \in Camera PROVE (Shown(d) = spooled[d])'
  <2>1. CASE d = c
    BY <1>4, <2>1
  <2>2. CASE d # c
    <3>1. Shown(d) = spooled[d]
      BY <1>1, <1>2, ShownWhileRecording
    <3> QED BY <1>3, <2>2, <3>1 DEF SameCamera, Shown
  <2> QED BY <2>1, <2>2
<1>8. ASSUME NEW d \in Camera PROVE CameraInv(d)'
  <2>1. CASE d = c
    BY <1>4, <2>1
  <2>2. CASE d # c
    <3>1. SameCamera(d) /\ CameraInv(d) /\ ~Deleted(d)
      BY <1>1, <1>2, <1>3, <2>2 DEF Deleted
    <3>2. ThreadInv(d)' /\ StampsInv(d)'
      BY <1>3, <3>1 DEF CameraInv, ThreadInv, StampsInv, Recording, SameCamera
    <3>3. ChunksInv(d)'
      BY <1>2, <1>3, <3>1 DEF CameraInv, ChunksInv, SameCamera
    <3>4. CleanInv(d)'
      BY <1>3, <3>1 DEF CameraInv, CleanInv, Recording, SameCamera
    <3>5. CleanChunksInv(d)'
      BY <1>3, <1>5, <3>1 DEF CameraInv, CleanChunksInv, SameCamera
    <3> QED BY <3>2, <3>3, <3>4, <3>5 DEF CameraInv
  <2> QED BY <2>1, <2>2
<1>9. ASSUME NEW d \in Camera PROVE ShownInv(d)' /\ VideoInv(d)'
  <2>1. (Len(Shown(d)) <= Len(spooled[d]))'
    <3>1. Len(spooled'[d]) \in Nat
      BY <1>4, LenProperties DEF TypeOK
    <3> QED BY <1>7, <3>1
  <2>2. ShownInv(d)'
    BY <1>7, <2>1 DEF ShownInv
  <2>3. video'[d] = None
    BY <1>1, <1>2, <1>3 DEF CameraInv, ChunksInv
  <2> QED BY <2>2, <2>3 DEF VideoInv, Encoded
<1> QED BY <1>4, <1>6, <1>8, <1>9 DEF SpoolInv

LEMMA CommandStep ==
  ASSUME TypeOK, SpoolInv, Command
  PROVE  TypeOK' /\ SpoolInv'
<1>1. /\ OffInv /\ ToolInv /\ CleanIsFinalized
      /\ \A d \in Camera : CameraInv(d) /\ ShownInv(d) /\ VideoInv(d)
  BY DEF SpoolInv
<1>2. PICK t \in {"start", "pause", "resume", "stop"} :
        /\ up /\ mode # "stop" /\ mode' = t /\ command' = OnCameras(t)
        /\ UNCHANGED <<up, loggerVars, diskVars, toolVars, clean>>
  BY DEF Command, Tell
<1>3. /\ \A d \in Camera : command'[d] = t
      /\ UNCHANGED <<up, working, at, rec, held, stamps, file, count, taken, spooled>>
      /\ UNCHANGED <<store, dumped, spool, spooling, video, marked, tool, verdict, cut, clean>>
  BY <1>2 DEF OnCameras, loggerVars, diskVars, toolVars
<1>4. ~Over
  BY <1>2 DEF Over
<1>5. TypeOK'
  <2>1. command' \in [Camera -> {"none", "start", "pause", "resume", "stop"}]
        /\ mode' \in {"idle", "start", "pause", "resume", "stop"}
    BY <1>2 DEF OnCameras
  <2> QED BY <1>3, <2>1 DEF TypeOK
<1>6. OffInv' /\ ToolInv' /\ CleanIsFinalized'
  BY <1>1, <1>3, <1>4 DEF OffInv, ToolInv, CleanIsFinalized
<1>7. ASSUME NEW d \in Camera PROVE CameraInv(d)'
  <2>1. Recording(d) /\ Recording(d)'
    BY <1>2, <1>3 DEF Recording
  <2>2. ThreadInv(d)'
    BY <1>1, <1>2, <1>3, <2>1 DEF CameraInv, ThreadInv
  <2>3. StampsInv(d)' /\ ChunksInv(d)'
    BY <1>1, <1>3, <1>4, <2>1 DEF CameraInv, StampsInv, ChunksInv
  <2>4. CleanInv(d)'
    BY <1>1, <1>3, <2>1 DEF CameraInv, CleanInv
  <2>5. CleanChunksInv(d)'
    BY <1>1, <1>3, <1>4 DEF CameraInv, CleanChunksInv, Deleted
  <2> QED BY <2>2, <2>3, <2>4, <2>5 DEF CameraInv
<1>8. ASSUME NEW d \in Camera PROVE ShownInv(d)' /\ VideoInv(d)'
  <2>1. Shown(d) = spooled[d] /\ Shown(d)' = Shown(d)
    BY <1>1, <1>3, <1>4, ShownWhileRecording DEF Shown
  <2>2. ShownInv(d)'
    BY <1>1, <1>3, <2>1 DEF ShownInv
  <2>3. VideoInv(d)'
    BY <1>1, <1>3 DEF VideoInv, Encoded
  <2> QED BY <2>2, <2>3
<1> QED BY <1>5, <1>6, <1>7, <1>8 DEF SpoolInv

LEMMA KilledStep ==
  ASSUME TypeOK, SpoolInv, Killed
  PROVE  TypeOK' /\ SpoolInv'
<1>1. /\ OffInv /\ ToolInv /\ CleanIsFinalized
      /\ \A d \in Camera : CameraInv(d) /\ ShownInv(d) /\ VideoInv(d)
  BY DEF SpoolInv
<1>2. /\ UNCHANGED <<mode, command, working, at, rec, held, stamps, file, count, taken, spooled>>
      /\ UNCHANGED <<store, dumped, spool, spooling, video, marked, tool, verdict, cut>>
      /\ up' = FALSE
  BY DEF Killed, loggerVars, diskVars, toolVars
<1>3. /\ clean' \in BOOLEAN
      /\ clean' => clean /\ \A d \in Camera : at[d] = "poll" /\ ~held[d]
  BY DEF Killed
<1>4. Over'
  BY <1>2 DEF Over
<1>5. TypeOK'
  <2>1. ThreadTypes'
    BY <1>2, TypesAre DEF ThreadTypes
  <2>2. OtherTypes'
    BY <1>2, <1>3, TypesAre DEF OtherTypes
  <2> QED BY <2>1, <2>2, TypesWillBe
<1>6. OffInv' /\ ToolInv'
  BY <1>1, <1>2, <1>4 DEF OffInv, ToolInv
<1>7. CleanIsFinalized'
  BY <1>1, <1>2, <1>3 DEF CleanIsFinalized
<1>8. ASSUME NEW d \in Camera PROVE CameraInv(d)'
  <2>1. ThreadInv(d)' /\ StampsInv(d)'
    BY <1>1, <1>2 DEF CameraInv, ThreadInv, StampsInv, Recording
  <2>2. ChunksInv(d)'
    BY <1>4 DEF ChunksInv
  <2>3. CleanInv(d)'
    BY <1>1, <1>2, <1>3 DEF CameraInv, CleanInv, Recording
  <2>4. CleanChunksInv(d)'
    <3>1. Deleted(d) => Deleted(d)'
      BY <1>2, <1>4 DEF Deleted
    <3> QED BY <1>1, <1>2, <1>3, <3>1 DEF CameraInv, CleanChunksInv
  <2> QED BY <2>1, <2>2, <2>3, <2>4 DEF CameraInv
<1>9. ASSUME NEW d \in Camera PROVE ShownInv(d)' /\ VideoInv(d)'
  <2>1. Deleted(d) => Deleted(d)'
    BY <1>2, <1>4 DEF Deleted
  <2>2. Shown(d)' = Shown(d)
    BY <1>2 DEF Shown
  <2> QED BY <1>1, <1>2, <2>1, <2>2 DEF ShownInv, VideoInv, Encoded
<1> QED BY <1>5, <1>6, <1>7, <1>8, <1>9 DEF SpoolInv

-----------------------------------------------------------------------------
(* The steps of the tool.                                                  *)

ToolType ==
  [at : {"off", "look", "encode", "mark", "delete"}, camera : 1 .. Cameras + 1,
   keep : BOOLEAN, encoded : BOOLEAN]

LEMMA ToolTypes ==
  ASSUME TypeOK
  PROVE  /\ tool \in ToolType
         /\ Idle \in ToolType /\ Idle.at = "off"
         /\ \A keep \in BOOLEAN : /\ [Idle EXCEPT !.at = "look", !.keep = keep] \in ToolType
                                  /\ [Idle EXCEPT !.at = "look", !.keep = keep].at = "look"
         /\ tool.camera \in Camera =>
              /\ NextCamera \in ToolType /\ NextCamera.at = "look"
              /\ [NextCamera EXCEPT !.encoded = TRUE] \in ToolType
              /\ [NextCamera EXCEPT !.encoded = TRUE].at = "look"
         /\ \A s \in {"encode", "mark", "delete"} :
              /\ [tool EXCEPT !.at = s] \in ToolType
              /\ [tool EXCEPT !.at = s].at = s
              /\ [tool EXCEPT !.at = s].camera = tool.camera
<1>1. tool \in ToolType
  BY DEF TypeOK, ToolType
<1>2. 1 \in 1 .. Cameras + 1
  BY CamerasAssumption
<1>3. /\ Idle \in ToolType /\ Idle.at = "off"
      /\ \A keep \in BOOLEAN : /\ [Idle EXCEPT !.at = "look", !.keep = keep] \in ToolType
                               /\ [Idle EXCEPT !.at = "look", !.keep = keep].at = "look"
  BY <1>2 DEF Idle, ToolType
<1>4. ASSUME tool.camera \in Camera
      PROVE  /\ NextCamera \in ToolType /\ NextCamera.at = "look"
             /\ [NextCamera EXCEPT !.encoded = TRUE] \in ToolType
             /\ [NextCamera EXCEPT !.encoded = TRUE].at = "look"
  <2>1. tool.camera + 1 \in 1 .. Cameras + 1
    BY <1>4, CamerasAssumption DEF Camera
  <2> QED BY <1>1, <2>1 DEF NextCamera, ToolType
<1>5. \A s \in {"encode", "mark", "delete"} :
        /\ [tool EXCEPT !.at = s] \in ToolType
        /\ [tool EXCEPT !.at = s].at = s
        /\ [tool EXCEPT !.at = s].camera = tool.camera
  BY <1>1 DEF ToolType
<1> QED BY <1>1, <1>3, <1>4, <1>5

ToolKeeps ==
  /\ ToolInv' /\ CleanIsFinalized'
  /\ tool' \in ToolType /\ verdict' \in {"none", "finalized", "skipped", "failed"}
  /\ spool' \in [Camera -> Seq(Chunk)] /\ spooling' \in [Camera -> BOOLEAN]
  /\ video' \in [Camera -> Seq(Frame) \cup {None, Partial}]
  /\ marked' \in [Camera -> BOOLEAN] /\ clean' \in BOOLEAN /\ cut' \in BOOLEAN
  /\ \A d \in Camera : CleanChunksInv(d)' /\ ShownInv(d)' /\ VideoInv(d)'

\* What every step of the tool finds.
ToolFinds ==
  /\ TypeOK /\ SpoolInv
  /\ Over /\ Over'
  /\ UNCHANGED <<file, spooled, store, dumped>>

LEMMA ToolHas ==
  ASSUME ToolFinds
  PROVE  /\ TypeOK /\ OffInv /\ ToolInv /\ CleanIsFinalized /\ Over /\ Over'
         /\ \A d \in Camera :
              CameraInv(d) /\ CleanChunksInv(d) /\ StampsInv(d) /\ ShownInv(d) /\ VideoInv(d)
         /\ UNCHANGED <<file, spooled, store, dumped>>
  BY DEF ToolFinds, SpoolInv, CameraInv

\* A step that touches neither a spool nor a video.
LEMMA ToolPasses ==
  ASSUME ToolFinds, UNCHANGED <<spool, spooling, video, clean>>,
         marked' \in [Camera -> BOOLEAN],
         \/ tool.at # "delete" /\ UNCHANGED cut
         \/ tool.at = "delete" /\ cut' = TRUE,
         tool' \in ToolType, tool'.at \in {"off", "look"},
         verdict' \in {"none", "finalized", "skipped", "failed"},
         verdict' = "failed" => verdict = "failed" \/ ~clean
  PROVE  ToolKeeps
<1>1. ToolInv'
  BY DEF ToolInv
<1>2. CleanIsFinalized'
  BY ToolHas DEF CleanIsFinalized
<1>3. ASSUME NEW d \in Camera PROVE CleanChunksInv(d)' /\ ShownInv(d)' /\ VideoInv(d)'
  <2>1. Shown(d)' = Shown(d)
    BY DEF Shown
  <2>2. ~cut' => ~cut /\ (Deleted(d) => Deleted(d)')
    BY ToolHas DEF Deleted
  <2>3. CleanChunksInv(d)'
    BY <2>2, ToolHas DEF CleanChunksInv
  <2>4. ShownInv(d)'
    BY <2>1, <2>2, ToolHas DEF ShownInv
  <2>5. VideoInv(d)'
    BY <2>2, ToolHas DEF VideoInv, Encoded
  <2> QED BY <2>3, <2>4, <2>5
<1>4. cut' \in BOOLEAN
  BY ToolHas DEF TypeOK
<1> QED BY <1>1, <1>2, <1>3, <1>4, ToolHas DEF ToolKeeps, TypeOK

LEMMA PassStep ==
  ASSUME ToolFinds, NEW c \in Camera, SkipCamera(c) \/ AttributesMissing(c)
  PROVE  ToolKeeps
<1>1. CASE SkipCamera(c)
  <2>1. /\ tool.at = "look" /\ tool.camera = c /\ tool' = NextCamera
        /\ UNCHANGED <<spool, spooling, video, marked, verdict, clean, cut>>
    BY <1>1 DEF SkipCamera, AtCamera
  <2>2. tool' \in ToolType /\ tool'.at = "look"
    BY <2>1, ToolHas, ToolTypes
  <2> QED BY <2>1, <2>2, ToolHas, ToolPasses DEF TypeOK
<1>2. CASE AttributesMissing(c)
  <2>1. /\ tool.at = "look" /\ store[c] = "bare" /\ tool' = Idle /\ verdict' = "failed"
        /\ UNCHANGED <<spool, spooling, video, marked, clean, cut>>
    BY <1>2 DEF AttributesMissing, Ends
  <2>2. ~clean
    BY <2>1, ToolHas DEF CameraInv, CleanInv
  <2>3. tool' \in ToolType /\ tool'.at = "off"
    BY <2>1, ToolHas, ToolTypes
  <2> QED BY <2>1, <2>2, <2>3, ToolHas, ToolPasses DEF TypeOK
<1> QED BY <1>1, <1>2

LEMMA StartOrEndStep ==
  ASSUME ToolFinds, ToolStarts \/ ToolEnds \/ ToolInterrupted
  PROVE  ToolKeeps
<1>1. CASE ToolStarts
  <2>1. /\ tool.at = "off" /\ verdict' = "none"
        /\ \E keep \in BOOLEAN : tool' = [Idle EXCEPT !.at = "look", !.keep = keep]
        /\ UNCHANGED <<spool, spooling, video, marked, clean, cut>>
    BY <1>1 DEF ToolStarts
  <2>2. tool' \in ToolType /\ tool'.at = "look"
    BY <2>1, ToolHas, ToolTypes
  <2> QED BY <2>1, <2>2, ToolHas, ToolPasses DEF TypeOK
<1>2. CASE ToolEnds
  <2>1. /\ tool.at = "look" /\ verdict' \in {"finalized", "skipped"} /\ tool' = Idle
        /\ UNCHANGED <<spool, spooling, video, marked, clean, cut>>
    BY <1>2 DEF ToolEnds, Ends
  <2>2. tool' \in ToolType /\ tool'.at = "off"
    BY <2>1, ToolHas, ToolTypes
  <2> QED BY <2>1, <2>2, ToolHas, ToolPasses DEF TypeOK
<1>3. CASE ToolInterrupted
  <2>1. /\ tool' = Idle /\ cut' = (cut \/ tool.at = "delete")
        /\ UNCHANGED <<spool, spooling, video, marked, verdict, clean>>
    BY <1>3 DEF ToolInterrupted
  <2>2. tool' \in ToolType /\ tool'.at = "off"
    BY <2>1, ToolHas, ToolTypes
  <2>3. CASE tool.at = "delete"
    <3>1. cut' = TRUE
      BY <2>1, <2>3
    <3> QED BY <2>1, <2>2, <2>3, <3>1, ToolHas, ToolPasses DEF TypeOK
  <2>4. CASE tool.at # "delete"
    <3>1. cut' = cut
      <4>1. cut \in BOOLEAN
        BY ToolHas DEF TypeOK
      <4>2. (cut \/ tool.at = "delete") <=> cut
        BY <2>4
      <4> QED BY <2>1, <4>1, <4>2
    <3> QED BY <2>1, <2>2, <2>4, <3>1, ToolHas, ToolPasses DEF TypeOK
  <2> QED BY <2>3, <2>4
<1> QED BY <1>1, <1>2, <1>3

\* A camera of which a step changes nothing but what the tool is doing.
LEMMA OtherCamera ==
  ASSUME ToolFinds, NEW d \in Camera, spool'[d] = spool[d], spooling'[d] = spooling[d],
         video'[d] = video[d], UNCHANGED cut, clean' => clean,
         tool.camera # d \/ tool.at # "delete"
  PROVE  CleanChunksInv(d)' /\ ShownInv(d)' /\ VideoInv(d)'
<1>1. Shown(d)' = Shown(d)
  BY DEF Shown
<1>2. Deleted(d) => Deleted(d)'
  BY ToolHas DEF Deleted
<1>3. CleanChunksInv(d)'
  BY <1>2, ToolHas DEF CleanChunksInv
<1>4. ShownInv(d)'
  BY <1>1, <1>2, ToolHas DEF ShownInv
<1>5. VideoInv(d)'
  BY ToolHas DEF VideoInv, Encoded
<1> QED BY <1>3, <1>4, <1>5

LEMMA BeginStep ==
  ASSUME ToolFinds, NEW c \in Camera, BeginEncoding(c)
  PROVE  ToolKeeps
<1>1. /\ tool.at = "look" /\ tool.camera = c /\ store[c] = "ready" /\ spooling[c]
      /\ tool' = [tool EXCEPT !.at = "encode"] /\ video' = [video EXCEPT ![c] = Partial]
      /\ UNCHANGED <<spool, spooling, marked, verdict, clean, cut>>
  BY DEF BeginEncoding, AtCamera
<1>2. tool' \in ToolType /\ tool'.at = "encode" /\ tool'.camera = c
  BY <1>1, ToolHas, ToolTypes
<1>3. video' \in [Camera -> Seq(Frame) \cup {None, Partial}] /\ video'[c] = Partial
      /\ \A d \in Camera : d # c => video'[d] = video[d]
  BY <1>1, ToolHas DEF TypeOK
<1>4. ToolInv'
  BY <1>1, <1>2, ToolHas DEF ToolInv
<1>5. CleanIsFinalized'
  BY <1>1, ToolHas DEF CleanIsFinalized
<1>6. CleanChunksInv(c)' /\ ShownInv(c)' /\ VideoInv(c)'
  <2>1. Shown(c)' = Shown(c)
    BY <1>1 DEF Shown
  <2>2. ~Deleted(c)
    BY <1>1 DEF Deleted
  <2>3. CleanChunksInv(c)'
    BY <1>1, <2>2, ToolHas DEF CleanChunksInv
  <2>4. ShownInv(c)'
    BY <1>1, <2>1, <2>2, ToolHas DEF ShownInv
  <2> QED BY <1>3, <2>3, <2>4 DEF VideoInv, Encoded
<1>7. ASSUME NEW d \in Camera PROVE CleanChunksInv(d)' /\ ShownInv(d)' /\ VideoInv(d)'
  <2>1. CASE d = c
    BY <1>6, <2>1
  <2>2. CASE d # c
    BY <1>1, <1>3, <2>2, OtherCamera
  <2> QED BY <2>1, <2>2
<1> QED BY <1>1, <1>2, <1>3, <1>4, <1>5, <1>7, ToolHas DEF ToolKeeps, TypeOK

LEMMA EncodeStep ==
  ASSUME ToolFinds, NEW c \in Camera, EncodeCamera(c)
  PROVE  ToolKeeps
<1>1. /\ tool.at = "encode" /\ tool.camera = c /\ Acceptable(c)
      /\ tool' = [tool EXCEPT !.at = "mark"] /\ video' = [video EXCEPT ![c] = Shown(c)]
      /\ UNCHANGED <<spool, spooling, marked, verdict, clean, cut>>
  BY DEF EncodeCamera, AtCamera
<1>2. tool' \in ToolType /\ tool'.at = "mark" /\ tool'.camera = c
  BY <1>1, ToolHas, ToolTypes
<1>3. spooling[c] /\ store[c] = "ready" /\ ~Deleted(c)
  BY <1>1, ToolHas DEF ToolInv, Deleted
<1>4. video' \in [Camera -> Seq(Frame) \cup {None, Partial}] /\ video'[c] = Shown(c)
      /\ \A d \in Camera : d # c => video'[d] = video[d]
  BY <1>1, ToolHas, CameraTypes DEF TypeOK
<1>5. ~cut => Shown(c) = spooled[c]
  BY <1>3, ToolHas DEF ShownInv
<1>6. dumped[c] # None => dumped[c] = Len(Shown(c)) /\ Shown(c) = spooled[c]
  <2> SUFFICES ASSUME dumped[c] # None
               PROVE  dumped[c] = Len(Shown(c)) /\ Shown(c) = spooled[c]
    OBVIOUS
  <2>1. dumped[c] = Len(Shown(c))
    BY <1>1 DEF Acceptable
  <2>2. Len(spooled[c]) <= dumped[c] /\ Len(Shown(c)) <= Len(spooled[c])
    BY ToolHas DEF StampsInv, ShownInv
  <2>3. Len(Shown(c)) = Len(spooled[c])
    BY <2>1, <2>2, ToolHas, CameraTypes
  <2> QED BY <2>1, <2>3, ToolHas DEF ShownInv
<1>7. ToolInv'
  BY <1>1, <1>2, <1>3, <1>4, <1>5, ToolHas DEF ToolInv
<1>8. CleanIsFinalized'
  BY <1>1, ToolHas DEF CleanIsFinalized
<1>9. CleanChunksInv(c)' /\ ShownInv(c)' /\ VideoInv(c)'
  <2>1. Shown(c)' = Shown(c)
    BY <1>1 DEF Shown
  <2>2. CleanChunksInv(c)'
    BY <1>1, <1>3, ToolHas DEF CleanChunksInv
  <2>3. ShownInv(c)'
    BY <1>1, <1>5, <2>1, ToolHas DEF ShownInv
  <2>4. VideoInv(c)'
    BY <1>1, <1>4, <1>5, <1>6, ToolHas DEF VideoInv
  <2> QED BY <2>2, <2>3, <2>4
<1>10. ASSUME NEW d \in Camera PROVE CleanChunksInv(d)' /\ ShownInv(d)' /\ VideoInv(d)'
  <2>1. CASE d = c
    BY <1>9, <2>1
  <2>2. CASE d # c
    BY <1>1, <1>4, <2>2, OtherCamera
  <2> QED BY <2>1, <2>2
<1> QED BY <1>1, <1>2, <1>4, <1>7, <1>8, <1>10, ToolHas DEF ToolKeeps, TypeOK

\* A spool of which nothing has failed or been deleted is acceptable, or it
\* holds no frame.
LEMMA CleanIsAcceptable ==
  ASSUME ToolFinds, NEW c \in Camera, clean, ~cut, ~Deleted(c), ~Acceptable(c)
  PROVE  spooled[c] = <<>>
<1>1. /\ \A i \in 1 .. Len(spool[c]) :
           /\ HasBin(spool[c][i])
           /\ i < Len(spool[c]) \/ file[c] # "open" => Encodable(spool[c][i])
      /\ Shown(c) = spooled[c]
  BY ToolHas DEF CleanChunksInv, ShownInv
<1>2. file[c] # "open"
  BY ToolHas DEF CameraInv, CleanInv, Over
<1>3. /\ dumped[c] # None => dumped[c] = Len(Shown(c))
      /\ spool[c] \in Seq(Chunk) /\ DOMAIN spool[c] = 1 .. Len(spool[c]) /\ Len(spool[c]) \in Nat
  <2>1. dumped[c] # None => dumped[c] = Len(Shown(c))
    BY <1>1, ToolHas DEF CameraInv, CleanInv
  <2> QED BY <2>1, ToolHas, CameraTypes, LenProperties
<1>4. Readable(c) = {}
  <2>1. \A i \in Readable(c) : Encodable(spool[c][i])
    BY <1>1, <1>2, <1>3 DEF Readable
  <2> QED BY <1>3, <2>1 DEF Acceptable
<1>5. Len(spool[c]) = 0
  <2> SUFFICES ASSUME Len(spool[c]) # 0 PROVE FALSE
    OBVIOUS
  <2>1. Len(spool[c]) \in 1 .. Len(spool[c])
    BY <1>3
  <2> QED BY <1>1, <1>3, <1>4, <2>1 DEF Readable
<1> QED BY <1>1, <1>3, <1>5, ShownIs, FramesInNone

LEMMA EncodingRaisesStep ==
  ASSUME ToolFinds, NEW c \in Camera, EncodingRaises(c)
  PROVE  ToolKeeps
<1>1. /\ tool.at = "encode" /\ tool.camera = c /\ tool' = Idle /\ verdict' = "failed"
      /\ video' = [video EXCEPT ![c] = None] /\ clean' = (clean /\ ~Acceptable(c))
      /\ UNCHANGED <<spool, spooling, marked, cut>>
  BY DEF EncodingRaises, AtCamera, Ends
<1>2. tool' \in ToolType /\ tool'.at = "off"
  BY <1>1, ToolHas, ToolTypes
<1>3. spooling[c] /\ store[c] = "ready" /\ ~Deleted(c)
  BY <1>1, ToolHas DEF ToolInv, Deleted
<1>4. video' \in [Camera -> Seq(Frame) \cup {None, Partial}] /\ video'[c] = None
      /\ \A d \in Camera : d # c => video'[d] = video[d]
  BY <1>1, ToolHas DEF TypeOK
<1>5. clean' \in BOOLEAN /\ (clean' => clean /\ ~Acceptable(c))
  BY <1>1
<1>6. ToolInv'
  BY <1>2 DEF ToolInv
<1>7. CleanIsFinalized'
  <2>1. clean' /\ ~cut => store[c] = "ready" /\ spooled[c] = <<>>
    BY <1>3, <1>5, CleanIsAcceptable
  <2> QED BY <1>1, <2>1, ToolHas DEF CleanIsFinalized
<1>8. CleanChunksInv(c)' /\ ShownInv(c)' /\ VideoInv(c)'
  <2>1. Shown(c)' = Shown(c)
    BY <1>1 DEF Shown
  <2>2. CleanChunksInv(c)'
    BY <1>1, <1>3, <1>5, ToolHas DEF CleanChunksInv
  <2>3. ShownInv(c)'
    BY <1>1, <1>3, <2>1, ToolHas DEF ShownInv
  <2> QED BY <1>4, <2>2, <2>3 DEF VideoInv, Encoded
<1>9. ASSUME NEW d \in Camera PROVE CleanChunksInv(d)' /\ ShownInv(d)' /\ VideoInv(d)'
  <2>1. CASE d = c
    BY <1>8, <2>1
  <2>2. CASE d # c
    BY <1>1, <1>4, <1>5, <2>2, OtherCamera
  <2> QED BY <2>1, <2>2
<1> QED BY <1>1, <1>2, <1>4, <1>5, <1>6, <1>7, <1>9, ToolHas DEF ToolKeeps, TypeOK

LEMMA MarkStep ==
  ASSUME ToolFinds, NEW c \in Camera, MarkFinalized(c)
  PROVE  ToolKeeps
<1>1. /\ tool.at = "mark" /\ tool.camera = c /\ marked' = [marked EXCEPT ![c] = TRUE]
      /\ tool' = IF tool.keep THEN [NextCamera EXCEPT !.encoded = TRUE]
                 ELSE [tool EXCEPT !.at = "delete"]
      /\ UNCHANGED <<spool, spooling, video, verdict, clean, cut>>
  BY DEF MarkFinalized, AtCamera
<1>2. marked' \in [Camera -> BOOLEAN]
  BY <1>1, ToolHas DEF TypeOK
<1>3. CASE tool.keep
  <2>1. tool' \in ToolType /\ tool'.at = "look"
    BY <1>1, <1>3, ToolHas, ToolTypes
  <2> QED BY <1>1, <1>2, <2>1, ToolHas, ToolPasses DEF TypeOK
<1>4. CASE ~tool.keep
  <2>1. tool' \in ToolType /\ tool'.at = "delete" /\ tool'.camera = c
    BY <1>1, <1>4, ToolHas, ToolTypes
  <2>2. ToolInv'
    BY <1>1, <2>1, ToolHas DEF ToolInv
  <2>3. CleanIsFinalized'
    BY <1>1, ToolHas DEF CleanIsFinalized
  <2>4. ASSUME NEW d \in Camera PROVE CleanChunksInv(d)' /\ ShownInv(d)' /\ VideoInv(d)'
    BY <1>1, OtherCamera
  <2> QED BY <1>1, <1>2, <2>1, <2>2, <2>3, <2>4, ToolHas DEF ToolKeeps, TypeOK
<1> QED BY <1>3, <1>4

\* What deleting a file of a chunk leaves of what the spool shows.
LEMMA DeletedFacts ==
  ASSUME NEW old \in Seq(Chunk), NEW new \in Seq(Chunk), Len(new) = Len(old),
         NEW i \in 1 .. Len(old), \A k \in 1 .. Len(old) : k # i => new[k] = old[k],
         FramesOf(new[i]) \in {FramesOf(old[i]), <<>>},
         NEW written \in Seq(Frame),
         Len(FramesIn(old)) <= Len(written),
         Len(FramesIn(old)) = Len(written) => FramesIn(old) = written
  PROVE  /\ Len(FramesIn(new)) <= Len(written)
         /\ Len(FramesIn(new)) = Len(written) => FramesIn(new) = written
<1>1. CASE FramesOf(new[i]) = FramesOf(old[i])
  <2>1. \A k \in 1 .. Len(old) : FramesOf(new[k]) = FramesOf(old[k])
    BY <1>1
  <2>2. FramesIn(new) = FramesIn(old)
    BY <2>1, FramesInSame
  <2> QED BY <2>2
<1>2. CASE FramesOf(new[i]) # FramesOf(old[i])
  <2>1. /\ FramesOf(new[i]) = <<>>
        /\ \A k \in 1 .. Len(old) : k # i => FramesOf(new[k]) = FramesOf(old[k])
    BY <1>2
  <2>2. Len(FramesIn(new)) + Len(FramesOf(old[i])) = Len(FramesIn(old))
    BY <2>1, FramesInDeleted
  <2>3. Len(FramesOf(old[i])) \in Nat /\ Len(FramesOf(old[i])) # 0
    <3>1. old[i] \in Chunk
      BY ElementOfSeq
    <3>2. FramesOf(old[i]) \in Seq(Frame) /\ FramesOf(old[i]) # <<>>
      BY <1>2, <2>1, <3>1, ChunkFacts
    <3> QED BY <3>2, EmptySeq, LenProperties
  <2>4. Len(FramesIn(new)) \in Nat /\ Len(FramesIn(old)) \in Nat /\ Len(written) \in Nat
    BY FramesInTyped, LenProperties
  <2> DEFINE shown == Len(FramesIn(new))
             before == Len(FramesIn(old))
             lost == Len(FramesOf(old[i]))
             all == Len(written)
  <2>5. /\ shown + lost = before /\ lost \in Nat /\ lost # 0 /\ shown \in Nat /\ before \in Nat
        /\ before <= all /\ all \in Nat
    BY <2>2, <2>3, <2>4
  <2> HIDE DEF shown, before, lost, all
  <2>6. shown <= all /\ shown # all
    BY <2>5
  <2> QED BY <2>6 DEF shown, all
<1> QED BY <1>1, <1>2

LEMMA DeleteFileStep ==
  ASSUME ToolFinds, NEW c \in Camera, DeleteFile(c)
  PROVE  ToolKeeps
<1>1. /\ tool.at = "delete" /\ tool.camera = c
      /\ UNCHANGED <<tool, spooling, video, marked, verdict, clean, cut>>
  BY DEF DeleteFile, AtCamera
<1>2. PICK i \in DOMAIN spool[c] : \/ spool' = [spool EXCEPT ![c][i].bin = None]
                                   \/ spool' = [spool EXCEPT ![c][i].ts = None]
  BY DEF DeleteFile
<1>3. /\ spool[c] \in Seq(Chunk) /\ i \in 1 .. Len(spool[c]) /\ spooled[c] \in Seq(Frame)
      /\ spool \in [Camera -> Seq(Chunk)]
  <2>1. spool[c] \in Seq(Chunk) /\ spooled[c] \in Seq(Frame)
    BY ToolHas, CameraTypes
  <2>2. i \in 1 .. Len(spool[c])
    BY <1>2, <2>1, LenProperties
  <2>3. spool \in [Camera -> Seq(Chunk)]
    BY ToolHas DEF TypeOK
  <2> QED BY <2>1, <2>2, <2>3
<1>4. /\ \A d \in Camera : d # c => spool'[d] = spool[d]
      /\ spool' = [d \in Camera |-> spool'[d]]
  BY <1>2, <1>3
<1> DEFINE old == spool[c]
           new == spool'[c]
<1>5. /\ new \in Seq(Chunk) /\ Len(new) = Len(old)
      /\ \A k \in 1 .. Len(old) : k # i => new[k] = old[k]
      /\ FramesOf(new[i]) \in {FramesOf(old[i]), <<>>}
  <2>1. PICK chunk \in Chunk :
          /\ new = [k \in 1 .. Len(old) |-> IF k = i THEN chunk ELSE old[k]]
          /\ FramesOf(chunk) \in {FramesOf(old[i]), <<>>}
    <3>0. /\ DOMAIN old = 1 .. Len(old) /\ old[i] \in Chunk
          /\ new = [old EXCEPT ![i].bin = None] \/ new = [old EXCEPT ![i].ts = None]
      BY <1>2, <1>3, LenProperties, ElementOfSeq
    <3> HIDE DEF old, new
    <3>1. CASE new = [old EXCEPT ![i].bin = None]
      <4> DEFINE chunk == [old[i] EXCEPT !.bin = None]
      <4>1. chunk \in Chunk /\ chunk.bin = None
        BY <3>0 DEF Chunk
      <4>2. FramesOf(chunk) = <<>>
        BY <4>1 DEF FramesOf, HasBin
      <4>3. new = [k \in 1 .. Len(old) |-> IF k = i THEN chunk ELSE old[k]]
        BY <3>0, <3>1
      <4> QED BY <4>1, <4>2, <4>3
    <3>2. CASE new = [old EXCEPT ![i].ts = None]
      <4> DEFINE chunk == [old[i] EXCEPT !.ts = None]
      <4>1. chunk \in Chunk /\ chunk.bin = old[i].bin
        BY <3>0 DEF Chunk
      <4>2. FramesOf(chunk) = FramesOf(old[i])
        BY <4>1 DEF FramesOf, HasBin
      <4>3. new = [k \in 1 .. Len(old) |-> IF k = i THEN chunk ELSE old[k]]
        BY <3>0, <3>2
      <4> QED BY <4>1, <4>2, <4>3
    <3> QED BY <3>0, <3>1, <3>2
  <2>2. /\ Len(old) \in Nat /\ \A k \in 1 .. Len(old) : old[k] \in Chunk
        /\ i \in 1 .. Len(old)
    BY <1>3, LenProperties, ElementOfSeq
  <2> HIDE DEF old, new
  <2>3. new \in [1 .. Len(old) -> Chunk]
    BY <2>1, <2>2
  <2> QED BY <2>1, <2>2, <2>3, FunctionIsSeq
<1>6. /\ spool'[c] \in Seq(Chunk)
      /\ Len(FramesIn(spool'[c])) <= Len(spooled[c])
      /\ Len(FramesIn(spool'[c])) = Len(spooled[c]) => FramesIn(spool'[c]) = spooled[c]
  <2>1. /\ old \in Seq(Chunk) /\ i \in 1 .. Len(old)
        /\ Len(FramesIn(old)) <= Len(spooled[c])
        /\ Len(FramesIn(old)) = Len(spooled[c]) => FramesIn(old) = spooled[c]
    BY <1>3, ToolHas, ShownIs DEF ShownInv
  <2> HIDE DEF old, new
  <2>2. /\ Len(FramesIn(new)) <= Len(spooled[c])
        /\ Len(FramesIn(new)) = Len(spooled[c]) => FramesIn(new) = spooled[c]
    BY <1>3, <1>5, <2>1, DeletedFacts
  <2> QED BY <1>5, <2>2 DEF new
<1> HIDE DEF old, new
<1>7. spool' \in [Camera -> Seq(Chunk)]
  BY <1>3, <1>4, <1>6
<1>8. Deleted(c)'
  BY <1>1, ToolHas DEF Deleted
<1>9. ToolInv' /\ CleanIsFinalized'
  BY <1>1, ToolHas DEF ToolInv, CleanIsFinalized
<1>10. CleanChunksInv(c)' /\ ShownInv(c)' /\ VideoInv(c)'
  <2>1. CleanChunksInv(c)'
    BY <1>8 DEF CleanChunksInv
  <2>2. ~cut => video[c] = spooled[c]
    BY <1>1, ToolHas DEF ToolInv
  <2>3. Shown(c)' = FramesIn(spool'[c])
    BY DEF Shown, FramesIn, Shows
  <2>4. ShownInv(c)'
    BY <1>1, <1>6, <1>8, <2>2, <2>3, ToolHas DEF ShownInv
  <2>5. VideoInv(c)'
    BY <1>1, ToolHas DEF VideoInv, Encoded
  <2> QED BY <2>1, <2>4, <2>5
<1>11. ASSUME NEW d \in Camera PROVE CleanChunksInv(d)' /\ ShownInv(d)' /\ VideoInv(d)'
  <2>1. CASE d = c
    BY <1>10, <2>1
  <2>2. CASE d # c
    BY <1>1, <1>4, <2>2, OtherCamera
  <2> QED BY <2>1, <2>2
<1> QED BY <1>1, <1>7, <1>9, <1>11, ToolHas, ToolTypes DEF ToolKeeps, TypeOK

LEMMA DeleteDirectoryStep ==
  ASSUME ToolFinds, NEW c \in Camera, DeleteDirectory(c)
  PROVE  ToolKeeps
<1>1. /\ tool.at = "delete" /\ tool.camera = c
      /\ spooling' = [spooling EXCEPT ![c] = FALSE] /\ tool' = [NextCamera EXCEPT !.encoded = TRUE]
      /\ UNCHANGED <<spool, video, marked, verdict, clean, cut>>
  BY DEF DeleteDirectory, AtCamera
<1>2. tool' \in ToolType /\ tool'.at = "look"
  BY <1>1, ToolHas, ToolTypes
<1>3. /\ spooling' \in [Camera -> BOOLEAN] /\ ~spooling'[c]
      /\ \A d \in Camera : d # c => spooling'[d] = spooling[d]
  BY <1>1, ToolHas DEF TypeOK
<1>4. ToolInv' /\ CleanIsFinalized'
  BY <1>1, <1>2, ToolHas DEF ToolInv, CleanIsFinalized
<1>5. Deleted(c)'
  BY <1>3, ToolHas DEF Deleted
<1>6. CleanChunksInv(c)' /\ ShownInv(c)' /\ VideoInv(c)'
  <2>1. Shown(c)' = Shown(c)
    BY <1>1 DEF Shown
  <2> QED BY <1>1, <1>5, <2>1, ToolHas DEF CleanChunksInv, ShownInv, VideoInv, Encoded
<1>7. ASSUME NEW d \in Camera PROVE CleanChunksInv(d)' /\ ShownInv(d)' /\ VideoInv(d)'
  <2>1. CASE d = c
    BY <1>6, <2>1
  <2>2. CASE d # c
    BY <1>1, <1>3, <2>2, OtherCamera
  <2> QED BY <2>1, <2>2
<1> QED BY <1>1, <1>2, <1>3, <1>4, <1>7, ToolHas DEF ToolKeeps, TypeOK

LEMMA ToolStep ==
  ASSUME TypeOK, SpoolInv, Tool
  PROVE  TypeOK' /\ SpoolInv'
<1>1. /\ OffInv
      /\ \A d \in Camera : CameraInv(d)
  BY DEF SpoolInv
<1>2. /\ UNCHANGED <<mode, command, up, loggerVars, store, dumped>>
      /\ clean' => clean
      /\ Over' <=> Over
      /\ tool.at = "off" => Over
  BY ToolFrame
<1>3. Over /\ Over'
  BY <1>1, <1>2 DEF OffInv
<1>4. UNCHANGED <<working, at, rec, held, stamps, file, count, taken, spooled>>
  BY <1>2 DEF loggerVars
<1>5. ToolFinds
  BY <1>2, <1>3, <1>4 DEF ToolFinds
<1>6. ToolKeeps
  BY <1>5, PassStep, StartOrEndStep, BeginStep, EncodeStep, EncodingRaisesStep, MarkStep,
     DeleteFileStep, DeleteDirectoryStep DEF Tool
<1>7. TypeOK'
  BY <1>2, <1>4, <1>6 DEF ToolKeeps, ToolType, TypeOK
<1>8. OffInv'
  BY <1>3 DEF OffInv
<1>9. ASSUME NEW d \in Camera PROVE CameraInv(d)'
  <2>1. ThreadInv(d)' /\ StampsInv(d)'
    BY <1>1, <1>2, <1>4 DEF CameraInv, ThreadInv, StampsInv, Recording
  <2>2. ChunksInv(d)'
    BY <1>3 DEF ChunksInv
  <2>3. CleanInv(d)'
    BY <1>1, <1>2, <1>4 DEF CameraInv, CleanInv, Recording
  <2> QED BY <1>6, <2>1, <2>2, <2>3 DEF ToolKeeps, CameraInv
<1> QED BY <1>6, <1>7, <1>8, <1>9 DEF SpoolInv, ToolKeeps

-----------------------------------------------------------------------------
LEMMA SpoolInit == Init => TypeOK /\ SpoolInv
<1> SUFFICES ASSUME Init PROVE TypeOK /\ SpoolInv
  OBVIOUS
<1>1. /\ <<>> \in Seq(Frame) /\ <<>> \in Seq(Chunk) /\ Len(<<>>) = 0
      /\ 1 \in 1 .. Cameras + 1 /\ 0 \in 0 .. ChunkFrames /\ 0 < ChunkFrames
  BY EmptySeq, CamerasAssumption, FramesAssumption
<1>2. Idle \in ToolType
  BY <1>1 DEF Idle, ToolType
<1>3. TypeOK
  BY <1>1, <1>2 DEF Init, OnCameras, TypeOK, ToolType
<1>4. OffInv /\ ToolInv /\ CleanIsFinalized
  BY DEF Init, Idle, OffInv, ToolInv, CleanIsFinalized
<1>5. ASSUME NEW c \in Camera PROVE CameraInv(c) /\ ShownInv(c) /\ VideoInv(c)
  <2>1. /\ spooled[c] = <<>> /\ spool[c] = <<>> /\ video[c] = None /\ dumped[c] = None
        /\ command[c] = "none" /\ working[c] /\ at[c] = "poll" /\ ~rec[c] /\ ~held[c]
        /\ stamps[c] = 0 /\ count[c] = 0 /\ file[c] = "none" /\ store[c] = "absent"
        /\ mode = "idle" /\ up
    BY DEF Init, OnCameras
  <2>2. Shown(c) = <<>>
    BY <1>1, <2>1, ShownIs, FramesInNone
  <2>3. ThreadInv(c) /\ StampsInv(c) /\ CleanInv(c)
    BY <1>1, <2>1 DEF ThreadInv, StampsInv, CleanInv, Recording
  <2>4. ChunksInv(c) /\ CleanChunksInv(c)
    BY <1>1, <2>1 DEF ChunksInv, CleanChunksInv
  <2>5. ShownInv(c) /\ VideoInv(c)
    BY <1>1, <2>1, <2>2 DEF ShownInv, VideoInv, Encoded
  <2> QED BY <2>3, <2>4, <2>5 DEF CameraInv
<1> QED BY <1>3, <1>4, <1>5 DEF SpoolInv

LEMMA SpoolStep == TypeOK /\ SpoolInv /\ [Next]_vars => TypeOK' /\ SpoolInv'
<1> SUFFICES ASSUME TypeOK, SpoolInv, [Next]_vars PROVE TypeOK' /\ SpoolInv'
  OBVIOUS
<1>1. CASE Command
  BY <1>1, CommandStep
<1>2. CASE Killed
  BY <1>2, KilledStep
<1>3. ASSUME NEW c \in Camera, PollCamera(c) PROVE TypeOK' /\ SpoolInv'
  BY <1>3, PollStep
<1>4. CASE Tool
  BY <1>4, ToolStep
<1>5. CASE UNCHANGED vars
  <2>1. UNCHANGED <<mode, command, up, working, at, rec, held, stamps, file, count, taken, spooled,
                    store, dumped, spool, spooling, video, marked, tool, verdict, cut, clean>>
    BY <1>5 DEF vars, loggerVars, diskVars, toolVars
  <2>2. TypeOK'
    BY <2>1 DEF TypeOK
  <2>3. /\ Over' <=> Over
        /\ \A c \in Camera : (Deleted(c)' <=> Deleted(c)) /\ Shown(c)' = Shown(c)
    BY <2>1 DEF Over, Deleted, Shown
  <2>4. OffInv' /\ ToolInv' /\ CleanIsFinalized'
    BY <2>1, <2>3 DEF SpoolInv, OffInv, ToolInv, CleanIsFinalized
  <2>5. ASSUME NEW c \in Camera PROVE CameraInv(c)' /\ ShownInv(c)' /\ VideoInv(c)'
    <3>1. CameraInv(c) /\ ShownInv(c) /\ VideoInv(c)
      BY DEF SpoolInv
    <3>2. ThreadInv(c)' /\ StampsInv(c)' /\ CleanInv(c)'
      BY <2>1, <3>1 DEF CameraInv, ThreadInv, StampsInv, CleanInv, Recording
    <3>3. ChunksInv(c)' /\ CleanChunksInv(c)'
      BY <2>1, <2>3, <3>1 DEF CameraInv, ChunksInv, CleanChunksInv
    <3>4. ShownInv(c)' /\ VideoInv(c)'
      BY <2>1, <2>3, <3>1 DEF ShownInv, VideoInv, Encoded
    <3> QED BY <3>2, <3>3, <3>4 DEF CameraInv
  <2> QED BY <2>2, <2>4, <2>5 DEF SpoolInv
<1> QED BY <1>1, <1>2, <1>3, <1>4, <1>5 DEF Next

\* Every reachable state of the logger process and the tool is well typed.
THEOREM SpoolIsTyped == Spec => []TypeOK
  BY SpoolInit, SpoolStep, PTL DEF Spec

\* Whatever failed while the episode was recorded, wherever the logger or the
\* tool was stopped, an .mp4 that is left shows as many frames as its store has
\* timestamps, and exactly the frames that were written, in order.
THEOREM VideosAreRecordings == Spec => []VideoIsTheRecording
<1>1. SpoolInv => VideoIsTheRecording
  BY DEF SpoolInv, VideoInv, VideoIsTheRecording
<1> QED BY <1>1, SpoolInit, SpoolStep, PTL DEF Spec

\* Until the deletion of a spool is interrupted the frames that were written
\* are in the spool or in the .mp4.
THEOREM NoFrameIsLost == Spec => []FramesAreKept
<1>1. SpoolInv => FramesAreKept
  BY DEF SpoolInv, ShownInv, FramesAreKept
<1> QED BY <1>1, SpoolInit, SpoolStep, PTL DEF Spec

\* The tool refuses no episode of which nothing has failed and each camera has
\* recorded something.
THEOREM CleanEpisodesAreFinalized == Spec => []CleanIsFinalized
<1>1. SpoolInv => CleanIsFinalized
  BY DEF SpoolInv
<1> QED BY <1>1, SpoolInit, SpoolStep, PTL DEF Spec

=============================================================================
