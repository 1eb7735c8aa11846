------------------------------ MODULE TapInput ------------------------------
(***************************************************************************)
(* The keyboard of a coordinator: how run_input_loop, _process_input and   *)
(* the two buttons (modpack/orchestration/coordinator.py) turn presses of  *)
(* `s` and `v` into gestures.                                              *)
(*                                                                         *)
(* Time is in ticks of 1/8 s; the loop polls 30 times a second, so in each *)
(* tick it polls until nothing is left to read, unless the handler of an   *)
(* activation gesture keeps it busy (_vp_activation sleeps for 5 s).       *)
(* select() sees the terminal only, but read(1) takes all there is into    *)
(* the buffer of sys.stdin and returns the first character of that.        *)
(***************************************************************************)
EXTENDS Integers, Sequences

CONSTANTS
  Window,       \* _release_window and _double_tap_window, both 0.5 s
  LongPress,    \* _long_press_threshold, 0.75 s
  Slow,         \* the numbers of `v` taps whose handler blocks the loop
  BlockTicks,   \* for how long it does
  MaxKeys,      \* bound: keys the operator types
  MaxRaises     \* bound: handlers of gestures that raise

ASSUME TimingAssumption ==
  /\ Window \in Nat \ {0} /\ LongPress \in Nat /\ Window + 1 < LongPress
  /\ BlockTicks \in Nat /\ MaxKeys \in Nat /\ MaxRaises \in Nat
  /\ Slow \subseteq 1 .. MaxKeys

VARIABLES
  terminal,    \* typed, not yet read from the terminal
  stdin,       \* read from the terminal, not yet returned by read(1)
  char,        \* the key being processed
  pc,          \* where in an iteration the loop is
  running,     \* self.running
  polled,      \* has an iteration ended since the last tick and key?
  blocked,     \* ticks until the handler of an activation gesture returns
  press,       \* per button: the taps collected, the age of the first and last
  handled,     \* per button: the gestures handled so far (history)
  typed,       \* per button: what the operator typed, as tap counts (history)
  typed_age,   \* per button: ticks since the operator's last press (history)
  keys,        \* how many keys were typed
  raises,      \* how many handlers raised
  dropped,     \* per button: keys read, but dropped by an exception (history)
  late         \* was the loop ever blocked, behind, or in `except`? (history)

loopVars == <<char, pc, running, polled>>
operatorVars == <<typed, typed_age, keys>>
raiseVars == <<raises, dropped>>
vars == <<terminal, stdin, loopVars, blocked, press, handled, operatorVars, raiseVars, late>>

Button == {"s", "v"}
Key == {"s", "v", "q"}
NoKey == "none"
Event == {"SINGLE_TAP", "DOUBLE_TAP", "TRIPLE_TAP", "LONG_PRESS", "ACTIVATION"}
Age == 0 .. LongPress
NotPressed == [taps |-> 0, first |-> 0, last |-> 0]

TypeOK ==
  /\ terminal \in Seq(Key) /\ stdin \in Seq(Key)
  /\ char \in Key \cup {NoKey}
  /\ pc \in {"poll", "first", "key", "last"}
  /\ running \in BOOLEAN /\ polled \in BOOLEAN /\ late \in BOOLEAN
  /\ blocked \in 0 .. BlockTicks
  /\ press \in [Button -> [taps : 0 .. MaxKeys, first : Age, last : Age]]
  /\ handled \in [Button -> Seq([taps : 1 .. MaxKeys, event : Event])]
  /\ typed \in [Button -> Seq(1 .. MaxKeys)]
  /\ typed_age \in [Button -> Age]
  /\ keys \in 0 .. MaxKeys
  /\ raises \in 0 .. MaxRaises /\ dropped \in [Button -> Nat]

Init ==
  /\ terminal = <<>> /\ stdin = <<>>
  /\ char = NoKey /\ pc = "poll" /\ running = TRUE /\ polled = FALSE
  /\ blocked = 0
  /\ press = [b \in Button |-> NotPressed]
  /\ handled = [b \in Button |-> <<>>]
  /\ typed = [b \in Button |-> <<>>]
  /\ typed_age = [b \in Button |-> 0]
  /\ keys = 0
  /\ raises = 0 /\ dropped = [b \in Button |-> 0]
  /\ late = FALSE

-----------------------------------------------------------------------------
(* The operator and the clock.                                             *)

\* Seeded fault: the age of a press is not capped.
OlderUncapped(age) == age + 1

\* Ages are told apart up to the long-press threshold only.
Older(age) == IF age < LongPress THEN age + 1 ELSE age

\* Two presses belong to one gesture when they are at most the window apart.
Typed(b) ==
  LET groups == typed[b]
  IN  IF groups # <<>> /\ typed_age[b] <= Window
      THEN [groups EXCEPT ![Len(groups)] = @ + 1]
      ELSE Append(groups, 1)

Type(k) ==
  /\ running /\ keys < MaxKeys
  /\ terminal' = Append(terminal, k)
  /\ keys' = keys + 1
  /\ polled' = FALSE
  /\ late' = (late \/ pc # "poll" \/ terminal # <<>> \/ stdin # <<>>)
  /\ IF k \in Button
     THEN typed' = [typed EXCEPT ![k] = Typed(k)] /\ typed_age' = [typed_age EXCEPT ![k] = 0]
     ELSE UNCHANGED <<typed, typed_age>>
  /\ UNCHANGED <<stdin, char, pc, running, blocked, press, handled, raiseVars>>

Tick ==
  /\ \/ blocked > 0
     \/ running /\ pc = "poll" /\ terminal = <<>> /\ polled
  /\ blocked' = IF blocked > 0 THEN blocked - 1 ELSE 0
  /\ late' = (late \/ blocked > 0)
  /\ press' = [b \in Button |-> IF press[b].taps = 0 THEN NotPressed
                                ELSE [press[b] EXCEPT !.first = Older(@), !.last = Older(@)]]
  /\ typed_age' = [b \in Button |-> Older(typed_age[b])]
  /\ polled' = FALSE
  /\ UNCHANGED <<terminal, stdin, char, pc, running, handled, typed, keys, raiseVars>>

-----------------------------------------------------------------------------
(* Collecting presses and handling what they make.                         *)

Pending(b) == press[b].taps > 0

\* Seeded fault: the window's last instant belongs to the gesture no more.
ExpiredEarly(b) == Pending(b) /\ press[b].last >= Window

Expired(b) == Pending(b) /\ press[b].last > Window

EventOf(b) ==
  IF b = "v" THEN "ACTIVATION"
  ELSE IF press[b].taps >= 3 THEN "TRIPLE_TAP"
  ELSE IF press[b].taps = 2 THEN "DOUBLE_TAP"
  ELSE IF press[b].first >= LongPress THEN "LONG_PRESS"
  ELSE "SINGLE_TAP"

Handled(b) == Append(handled[b], [taps |-> press[b].taps, event |-> EventOf(b)])

BlocksFor(finalized) ==
  IF "v" \in finalized /\ press["v"].taps \in Slow THEN BlockTicks ELSE blocked

\* _finalize_episode_button, then _finalize_activation_button.
Finalized(finalized) ==
  /\ handled' = [b \in Button |-> IF b \in finalized THEN Handled(b) ELSE handled[b]]
  /\ press' = [b \in Button |-> IF b \in finalized THEN NotPressed ELSE press[b]]
  /\ blocked' = BlocksFor(finalized)

WithPress(b) ==
  IF Pending(b) /\ ~Expired(b)
  THEN [taps |-> press[b].taps + 1, first |-> press[b].first, last |-> 0]
  ELSE [taps |-> 1, first |-> 0, last |-> 0]

\* Seeded fault: a press after the window replaces the gesture it finds.
PressedForgetting(b) ==
  /\ press' = [press EXCEPT ![b] = WithPress(b)]
  /\ UNCHANGED <<handled, blocked>>

\* A press that comes too late for the pending gesture finalizes that first.
\* Its time is taken before, so a handler that blocks makes it look older.
Pressed(b) ==
  /\ press' = [press EXCEPT ![b] = WithPress(b)]
  /\ IF Expired(b)
     THEN /\ handled' = [handled EXCEPT ![b] = Handled(b)]
          /\ blocked' = BlocksFor({b})
     ELSE UNCHANGED <<handled, blocked>>

-----------------------------------------------------------------------------
(* One iteration of run_input_loop.                                        *)

NothingToRead ==
  /\ running /\ pc = "poll" /\ blocked = 0 /\ terminal = <<>> /\ ~polled
  /\ pc' = "last"
  /\ UNCHANGED <<terminal, stdin, char, running, polled, blocked, press, handled,
                 operatorVars, raiseVars, late>>

ReadKey ==
  /\ running /\ pc = "poll" /\ blocked = 0 /\ terminal # <<>>
  /\ LET chars == IF stdin = <<>> THEN terminal ELSE stdin
     IN  /\ char' = Head(chars)
         /\ stdin' = Tail(chars)
  /\ terminal' = IF stdin = <<>> THEN <<>> ELSE terminal
  /\ pc' = "first"
  /\ UNCHANGED <<running, polled, blocked, press, handled, operatorVars,
                 raiseVars, late>>

FinalizeBeforeKey ==
  /\ pc = "first" /\ blocked = 0
  /\ pc' = "key"
  /\ Finalized({b \in Button : Expired(b)})
  /\ UNCHANGED <<terminal, stdin, char, running, polled, operatorVars, raiseVars, late>>

ProcessKey ==
  /\ pc = "key" /\ blocked = 0
  /\ pc' = "last"
  /\ char' = NoKey
  /\ \/ char \in Button /\ Pressed(char) /\ UNCHANGED running
     \/ char = "q" /\ running' = FALSE /\ UNCHANGED <<press, handled, blocked>>
  /\ UNCHANGED <<terminal, stdin, polled, operatorVars, raiseVars, late>>

\* Seeded fault: gestures are finalized only when a key is read.
IterationEnds ==
  /\ pc = "last" /\ blocked = 0
  /\ pc' = "poll"
  /\ polled' = TRUE
  /\ UNCHANGED <<terminal, stdin, char, running, blocked, press, handled, operatorVars,
                 raiseVars, late>>

FinalizeAfterKey ==
  /\ pc = "last" /\ blocked = 0
  /\ pc' = "poll"
  /\ polled' = TRUE
  /\ Finalized({b \in Button : Expired(b)})
  /\ UNCHANGED <<terminal, stdin, char, running, operatorVars, raiseVars, late>>

InProcess(b) == IF char = b THEN 1 ELSE 0

\* What is finalized when the handler of b's gesture raises: _finalize_episode_button
\* clears its tap after the handler, so that `s` stays pending and `v` is not
\* looked at; _finalize_activation_button clears its own before the handler.
Cleared(b, overdue) == IF b = "s" THEN {} ELSE overdue

\* A handler raises, before the key read, in its press or after it: `except`
\* prints, sleeps 0.1 s and goes on, and the key in process is dropped.
HandlerRaises(b) ==
  /\ blocked = 0 /\ Expired(b) /\ raises < MaxRaises
  /\ \/ pc \in {"first", "last"} /\ Finalized(Cleared(b, {c \in Button : Expired(c)}))
     \/ pc = "key" /\ char = b /\ Finalized(Cleared(b, {b}))
  /\ dropped' = [c \in Button |-> dropped[c] + InProcess(c)]
  /\ raises' = raises + 1
  /\ char' = NoKey /\ pc' = "poll" /\ polled' = TRUE /\ late' = TRUE
  /\ UNCHANGED <<terminal, stdin, running, operatorVars>>

Iterate ==
  \/ NothingToRead \/ ReadKey \/ FinalizeBeforeKey \/ ProcessKey \/ FinalizeAfterKey
  \/ \E b \in Button : HandlerRaises(b)

\* The loop is left with the first iteration after `q`.
Stopped == ~running /\ pc = "poll" /\ blocked = 0 /\ UNCHANGED vars

Next == (\E k \in Key : Type(k)) \/ Tick \/ Iterate \/ Stopped

\* The loop and the clock go on; the operator need not type.
Spec == Init /\ [][Next]_vars /\ WF_vars(Tick) /\ WF_vars(Iterate)

-----------------------------------------------------------------------------
(* Properties.                                                             *)

EventFor(b, taps) ==
  IF b = "v" THEN "ACTIVATION"
  ELSE IF taps = 1 THEN "SINGLE_TAP"
  ELSE IF taps = 2 THEN "DOUBLE_TAP" ELSE "TRIPLE_TAP"

\* While the loop keeps up and no handler raises, the gestures handled are those the operator made,
\* in order, with the presses of the two buttons interleaved in any way: no
\* gesture is split, merged, or taken for a long press.
GesturesAreTyped ==
  ~late => \A b \in Button :
    /\ Len(handled[b]) <= Len(typed[b])
    /\ \A i \in DOMAIN handled[b] :
         /\ handled[b][i].taps = typed[b][i]
         /\ handled[b][i].event = EventFor(b, typed[b][i])

\* The sum of a sequence of numbers.
Total(s) ==
  LET sum[n \in 0 .. Len(s)] == IF n = 0 THEN 0 ELSE sum[n - 1] + s[n]
  IN  sum[Len(s)]

TapsOf(gestures) == [i \in 1 .. Len(gestures) |-> gestures[i].taps]
PressesOf(b, chars) == [i \in 1 .. Len(chars) |-> IF chars[i] = b THEN 1 ELSE 0]
Unread(b) == Total(PressesOf(b, stdin \o terminal)) + InProcess(b)

\* However long the loop was blocked and however the keys bunched up, every
\* press is in exactly one place: unread, in the pending gesture, handled, or
\* the one key that an iteration cut short by a raising handler had read.
PressesConserved ==
  /\ \A b \in Button :
       Total(typed[b]) = Total(TapsOf(handled[b])) + press[b].taps + Unread(b) + dropped[b]
  /\ dropped["s"] + dropped["v"] <= raises

\* A gesture begun is handled, even while the other button keeps the loop busy
\* and although handlers raise a number of times.
PendingIsHandled ==
  \A b \in Button : Pending(b) ~> (~Pending(b) \/ ~running)

=============================================================================
