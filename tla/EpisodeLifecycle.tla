-------------------------- MODULE EpisodeLifecycle --------------------------
(***************************************************************************)
(* What the operator is promised about episodes, without loggers, commands *)
(* or directories: a station is idle, recording or paused; each recording  *)
(* gets a number above every earlier one; an episode that was ended, or    *)
(* that was cut short by a shutdown, is written out before the next one    *)
(* starts and in the end.  What is not promised is an episode that a       *)
(* signal catches in the very act of starting, pausing or stopping.        *)
(***************************************************************************)
EXTENDS Integers

CONSTANT MaxEpisodes   \* bound: a number, as in EpisodeManager

VARIABLES
  mode,      \* what the operator sees
  current,   \* the episode being recorded, or None
  used,      \* every number given out so far
  closing,   \* the ended episodes still being written out
  given_up   \* has a signal cost the episode it caught?

lifecycleVars == <<mode, current, used, closing, given_up>>

None == -1
Episode == 0 .. MaxEpisodes - 1

Init ==
  /\ mode = "idle"
  /\ current = None
  /\ used \in SUBSET Episode
  /\ closing = {}
  /\ given_up = FALSE

Start ==
  /\ mode = "idle" /\ closing = {}
  /\ mode' = "recording"
  /\ current' \in Episode
  /\ \A u \in used : u < current'
  /\ used' = used \cup {current'}
  /\ UNCHANGED <<closing, given_up>>

Pause ==
  /\ mode = "recording"
  /\ mode' = "paused"
  /\ UNCHANGED <<current, used, closing, given_up>>

Resume ==
  /\ mode = "paused"
  /\ mode' = "recording"
  /\ UNCHANGED <<current, used, closing, given_up>>

Stop ==
  /\ mode = "recording"
  /\ mode' = "idle"
  /\ current' = None
  /\ closing' = closing \cup {current}
  /\ UNCHANGED <<used, given_up>>

\* A shutdown ends the episode it interrupts.
Off ==
  /\ mode # "off"
  /\ mode' = "off"
  /\ current' = None
  /\ closing' = closing \cup ({current} \ {None})
  /\ UNCHANGED <<used, given_up>>

\* A signal catches the start, the pause or the stop of an episode: that episode
\* is given up, and no other, because every earlier one has been written out.  A
\* resume never costs an episode.
GiveUp ==
  /\ mode \in {"idle", "recording"} /\ closing = {}
  /\ mode' = "off"
  /\ current' = None
  /\ given_up' = TRUE
  /\ \/ UNCHANGED used
     \/ mode = "idle" /\ \E n \in Episode : (\A u \in used : u < n) /\ used' = used \cup {n}
  /\ UNCHANGED closing

WriteOut ==
  /\ closing # {}
  /\ \E e \in closing : closing' = closing \ {e}
  /\ UNCHANGED <<mode, current, used, given_up>>

Next == Start \/ Pause \/ Resume \/ Stop \/ Off \/ GiveUp \/ WriteOut

Spec == Init /\ [][Next]_lifecycleVars /\ WF_lifecycleVars(WriteOut)

=============================================================================
