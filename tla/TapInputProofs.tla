--------------------------- MODULE TapInputProofs ---------------------------
(***************************************************************************)
(* Proofs about TapInput, for every window, every long-press threshold     *)
(* above it, every handler that blocks and every number of keys.           *)
(***************************************************************************)
EXTENDS TapInput, SequenceTheorems, WellFoundedInduction, TLAPS

-----------------------------------------------------------------------------
(* Type correctness.  A button cannot have collected more presses than     *)
(* were typed: each key is in the terminal, in the buffer of standard      *)
(* input, being processed, or among the presses of one button.             *)

Processed == IF char = NoKey THEN 0 ELSE 1

KeysInv ==
  press["s"].taps + press["v"].taps + Len(terminal) + Len(stdin) + Processed <= keys

GroupsInv == \A b \in Button : \A i \in 1 .. Len(typed[b]) : typed[b][i] <= keys

CharInv == char # NoKey <=> pc \in {"first", "key"}

TypeInv == TypeOK /\ KeysInv /\ GroupsInv /\ CharInv

LEMMA AgeIs ==
  /\ Age \subseteq Nat /\ 0 \in Age
  /\ \A age \in Age : Older(age) \in Age
  BY TimingAssumption DEF Age, Older

LEMMA ButtonIsKey == Button \subseteq Key /\ NoKey \notin Key /\ "s" \in Button /\ "v" \in Button
  BY DEF Button, Key, NoKey

LEMMA NumbersAre ==
  ASSUME TypeOK
  PROVE  /\ keys \in Nat /\ keys <= MaxKeys /\ MaxKeys \in Nat
         /\ Window \in Nat /\ LongPress \in Nat /\ Window + 1 < LongPress
         /\ BlockTicks \in Nat /\ blocked \in Nat /\ blocked <= BlockTicks
         /\ Processed \in 0 .. 1
<1>1. keys \in 0 .. MaxKeys /\ blocked \in 0 .. BlockTicks
  BY DEF TypeOK
<1>2. Processed \in 0 .. 1
  BY DEF Processed
<1> QED BY <1>1, <1>2, TimingAssumption

LEMMA PressTyped ==
  ASSUME TypeOK, NEW b \in Button
  PROVE  /\ press[b] \in [taps : 0 .. MaxKeys, first : Age, last : Age]
         /\ press[b].taps \in 0 .. MaxKeys /\ press[b].first \in Age /\ press[b].last \in Age
         /\ press[b].taps \in Nat /\ press[b].first \in Nat /\ press[b].last \in Nat
<1>1. press[b] \in [taps : 0 .. MaxKeys, first : Age, last : Age]
  BY DEF TypeOK
<1>2. press[b].taps \in 0 .. MaxKeys /\ press[b].first \in Age /\ press[b].last \in Age
  BY <1>1
<1>3. press[b].taps \in Nat
  BY <1>2, NumbersAre
<1> QED BY <1>1, <1>2, <1>3, AgeIs

LEMMA SequencesAre ==
  ASSUME TypeOK
  PROVE  /\ terminal \in Seq(Key) /\ Len(terminal) \in Nat
         /\ stdin \in Seq(Key) /\ Len(stdin) \in Nat
         /\ \A b \in Button :
              /\ typed[b] \in Seq(1 .. MaxKeys) /\ Len(typed[b]) \in Nat
              /\ \A i \in 1 .. Len(typed[b]) : typed[b][i] \in 1 .. MaxKeys /\ typed[b][i] \in Nat
              /\ handled[b] \in Seq([taps : 1 .. MaxKeys, event : Event])
              /\ Len(handled[b]) \in Nat
<1>1. terminal \in Seq(Key) /\ stdin \in Seq(Key)
  BY DEF TypeOK
<1>2. Len(terminal) \in Nat /\ Len(stdin) \in Nat
  BY <1>1, LenProperties
<1>3. ASSUME NEW b \in Button
      PROVE  /\ typed[b] \in Seq(1 .. MaxKeys) /\ Len(typed[b]) \in Nat
             /\ \A i \in 1 .. Len(typed[b]) : typed[b][i] \in 1 .. MaxKeys /\ typed[b][i] \in Nat
             /\ handled[b] \in Seq([taps : 1 .. MaxKeys, event : Event])
             /\ Len(handled[b]) \in Nat
  <2>1. typed[b] \in Seq(1 .. MaxKeys) /\ handled[b] \in Seq([taps : 1 .. MaxKeys, event : Event])
    BY DEF TypeOK
  <2>2. Len(typed[b]) \in Nat /\ Len(handled[b]) \in Nat
    BY <2>1, LenProperties
  <2>3. \A i \in 1 .. Len(typed[b]) : typed[b][i] \in 1 .. MaxKeys
    BY <2>1, ElementOfSeq
  <2>4. 1 .. MaxKeys \subseteq Nat
    BY NumbersAre
  <2> QED BY <2>1, <2>2, <2>3, <2>4
<1> QED BY <1>1, <1>2, <1>3

\* The terms of the sum in KeysInv.
LEMMA KeysAddUp ==
  ASSUME TypeOK, KeysInv
  PROVE  /\ press["s"].taps + press["v"].taps + Len(terminal) + Len(stdin) + Processed <= keys
         /\ press["s"].taps \in Nat /\ press["v"].taps \in Nat
         /\ Len(terminal) \in Nat /\ Len(stdin) \in Nat
         /\ Processed \in Int /\ keys \in Nat /\ MaxKeys \in Nat /\ keys <= MaxKeys
<1>1. press["s"].taps \in Nat /\ press["v"].taps \in Nat
  BY PressTyped, ButtonIsKey
<1>2. Len(terminal) \in Nat /\ Len(stdin) \in Nat
  BY SequencesAre
<1>3. Processed \in Int /\ keys \in Nat /\ MaxKeys \in Nat /\ keys <= MaxKeys
  <2>1. 0 .. 1 \subseteq Int
    OBVIOUS
  <2> QED BY <2>1, NumbersAre
<1> QED BY <1>1, <1>2, <1>3 DEF KeysInv

\* A press typed is the next of the last gesture, or the first of a new one.
LEMMA TypedGroups ==
  ASSUME TypeInv, NEW b \in Button, keys < MaxKeys
  PROVE  /\ Typed(b) \in Seq(1 .. MaxKeys)
         /\ IF typed[b] # <<>> /\ typed_age[b] <= Window
            THEN /\ Len(typed[b]) > 0
                 /\ Len(Typed(b)) = Len(typed[b])
                 /\ Typed(b)[Len(typed[b])] = typed[b][Len(typed[b])] + 1
                 /\ \A i \in 1 .. Len(typed[b]) - 1 : Typed(b)[i] = typed[b][i]
            ELSE /\ Len(Typed(b)) = Len(typed[b]) + 1
                 /\ Typed(b)[Len(typed[b]) + 1] = 1
                 /\ \A i \in 1 .. Len(typed[b]) : Typed(b)[i] = typed[b][i]
<1> DEFINE s == typed[b]
           n == Len(s)
<1>0. TypeOK
  BY DEF TypeInv
<1>1. s \in Seq(1 .. MaxKeys) /\ n \in Nat /\ keys \in Nat /\ MaxKeys \in Nat
  BY <1>0, SequencesAre, NumbersAre
<1>2. CASE s # <<>> /\ typed_age[b] <= Window
  <2>1. n \in 1 .. n /\ n > 0
    BY <1>1, <1>2, EmptySeq
  <2>2. s[n] \in 1 .. MaxKeys /\ s[n] <= keys
    BY <1>0, <2>1, SequencesAre DEF TypeInv, GroupsInv
  <2>3. s[n] + 1 \in 1 .. MaxKeys
    BY <1>1, <2>2
  <2>4. Typed(b) = [s EXCEPT ![n] = s[n] + 1]
    BY <1>2 DEF Typed
  <2>5. Typed(b) \in Seq(1 .. MaxKeys) /\ Len(Typed(b)) = n
    BY <1>1, <2>1, <2>3, <2>4, ExceptSeq
  <2>6. \A j \in 1 .. n : Typed(b)[j] = IF j = n THEN s[n] + 1 ELSE s[j]
    <3> HIDE DEF s
    <3> DEFINE e == s[n] + 1
    <3> HIDE DEF n, e
    <3>1. Typed(b) = [s EXCEPT ![n] = e]
      BY <2>4 DEF e
    <3>2. DOMAIN s = 1 .. n
      BY <1>1, LenProperties DEF n
    <3>3. \A j \in 1 .. n : Typed(b)[j] = IF j = n THEN e ELSE s[j]
      BY <3>1, <3>2
    <3> QED BY <3>3 DEF e
  <2>7. Typed(b)[n] = s[n] + 1 /\ \A i \in 1 .. n - 1 : Typed(b)[i] = s[i]
    <3> HIDE DEF s, n
    <3>1. Typed(b)[n] = s[n] + 1
      BY <2>1, <2>6
    <3>2. ASSUME NEW i \in 1 .. n - 1 PROVE Typed(b)[i] = s[i]
      <4>1. i \in 1 .. n /\ i # n
        BY <1>1
      <4> QED BY <2>6, <4>1
    <3> QED BY <3>1, <3>2
  <2> QED BY <1>2, <2>1, <2>5, <2>7
<1>3. CASE ~(s # <<>> /\ typed_age[b] <= Window)
  <2>1. Typed(b) = Append(s, 1) /\ 1 \in 1 .. MaxKeys
    BY <1>1, <1>3 DEF Typed
  <2> QED BY <1>1, <1>3, <2>1, AppendProperties
<1> QED BY <1>2, <1>3

\* A gesture that is over joins the gestures handled.
LEMMA HandledGestures ==
  ASSUME TypeOK, NEW b \in Button, Pending(b)
  PROVE  /\ Handled(b) \in Seq([taps : 1 .. MaxKeys, event : Event])
         /\ Len(Handled(b)) = Len(handled[b]) + 1
         /\ \A i \in 1 .. Len(handled[b]) : Handled(b)[i] = handled[b][i]
         /\ Handled(b)[Len(handled[b]) + 1].taps = press[b].taps
         /\ Handled(b)[Len(handled[b]) + 1].event = EventOf(b)
<1> DEFINE g == [taps |-> press[b].taps, event |-> EventOf(b)]
<1>1. EventOf(b) \in Event
  BY DEF EventOf, Event
<1>2. press[b].taps \in 1 .. MaxKeys
  BY PressTyped DEF Pending
<1>3. g \in [taps : 1 .. MaxKeys, event : Event]
  BY <1>1, <1>2
<1>4. g.taps = press[b].taps /\ g.event = EventOf(b)
  OBVIOUS
<1>5. handled[b] \in Seq([taps : 1 .. MaxKeys, event : Event])
  BY DEF TypeOK
<1>6. Handled(b) = Append(handled[b], g)
  BY DEF Handled
<1> HIDE DEF g
<1> QED BY <1>3, <1>4, <1>5, <1>6, AppendProperties

LEMMA TypeInit == Init => TypeInv
<1> SUFFICES ASSUME Init PROVE TypeInv
  OBVIOUS
<1> USE TimingAssumption
<1>1. <<>> \in Seq(Key) /\ <<>> \in Seq([taps : 1 .. MaxKeys, event : Event])
      /\ <<>> \in Seq(1 .. MaxKeys) /\ Len(<<>>) = 0
  BY EmptySeq
<1>2. NotPressed \in [taps : 0 .. MaxKeys, first : Age, last : Age] /\ NotPressed.taps = 0
  BY AgeIs DEF NotPressed
<1>3. TypeOK
  <2>1. press \in [Button -> [taps : 0 .. MaxKeys, first : Age, last : Age]]
    BY <1>2 DEF Init
  <2>2. /\ handled \in [Button -> Seq([taps : 1 .. MaxKeys, event : Event])]
        /\ typed \in [Button -> Seq(1 .. MaxKeys)]
        /\ typed_age \in [Button -> Age]
    BY <1>1, AgeIs DEF Init
  <2>3. /\ keys \in 0 .. MaxKeys /\ blocked \in 0 .. BlockTicks
        /\ raises \in 0 .. MaxRaises /\ dropped \in [Button -> Nat]
    BY DEF Init
  <2> QED BY <1>1, <2>1, <2>2, <2>3 DEF Init, TypeOK
<1>4. KeysInv
  BY <1>1, <1>2, ButtonIsKey DEF Init, KeysInv, Processed
<1>5. GroupsInv
  BY <1>1 DEF Init, GroupsInv
<1>6. CharInv
  BY DEF Init, CharInv
<1> QED BY <1>3, <1>4, <1>5, <1>6 DEF TypeInv

LEMMA TypeTyping ==
  ASSUME TypeInv, NEW k \in Key, Type(k)
  PROVE  TypeInv'
<1>0. TypeOK /\ KeysInv /\ GroupsInv /\ CharInv /\ keys < MaxKeys
  BY DEF TypeInv, Type
<1>1. terminal' \in Seq(Key) /\ Len(terminal') = Len(terminal) + 1
  BY <1>0, SequencesAre, AppendProperties DEF Type
<1>2. keys' \in 0 .. MaxKeys /\ keys' = keys + 1
  BY <1>0, NumbersAre DEF Type
<1>3. KeysInv'
  <2>1. /\ press["s"].taps + press["v"].taps + Len(terminal) + Len(stdin) + Processed <= keys
        /\ press["s"].taps \in Nat /\ press["v"].taps \in Nat
        /\ Len(terminal) \in Nat /\ Len(stdin) \in Nat
        /\ Processed \in Int /\ keys \in Nat
    BY <1>0, KeysAddUp
  <2>2. press' = press /\ stdin' = stdin /\ Processed' = Processed
    BY DEF Type, Processed
  <2> DEFINE ps == press["s"].taps
             pv == press["v"].taps
             lt == Len(terminal)
             ls == Len(stdin)
  <2>3. /\ ps + pv + lt + ls + Processed <= keys /\ Processed \in Int
        /\ ps \in Nat /\ pv \in Nat /\ lt \in Nat /\ ls \in Nat /\ keys \in Nat
    BY <2>1
  <2>4. SUFFICES ps + pv + (lt + 1) + ls + Processed <= keys + 1
    BY <1>1, <1>2, <2>2 DEF KeysInv
  <2> HIDE DEF ps, pv, lt, ls
  <2> QED BY <2>3
<1>4. CharInv'
  BY <1>0 DEF Type, CharInv
<1>5. CASE k \in Button
  <2>1. typed' = [typed EXCEPT ![k] = Typed(k)] /\ typed_age' = [typed_age EXCEPT ![k] = 0]
    BY <1>5 DEF Type
  <2>2. Typed(k) \in Seq(1 .. MaxKeys)
    BY <1>0, <1>5, TypedGroups
  <2>3. typed \in [Button -> Seq(1 .. MaxKeys)] /\ typed_age \in [Button -> Age]
    BY <1>0 DEF TypeOK
  <2>4. typed' \in [Button -> Seq(1 .. MaxKeys)] /\ typed_age' \in [Button -> Age]
    BY <1>5, <2>1, <2>2, <2>3, AgeIs
  <2>5. TypeOK'
    BY <1>0, <1>1, <1>2, <2>4 DEF Type, raiseVars, TypeOK
  <2>6. GroupsInv'
    <3> SUFFICES ASSUME NEW b \in Button, NEW i \in 1 .. Len(typed'[b])
                 PROVE  typed'[b][i] <= keys + 1
      BY <1>2 DEF GroupsInv
    <3>0. keys \in Nat /\ Len(typed[b]) \in Nat
          /\ \A j \in 1 .. Len(typed[b]) : typed[b][j] \in Nat /\ typed[b][j] <= keys
      BY <1>0, NumbersAre, SequencesAre DEF GroupsInv
    <3>1. CASE b # k
      <4>1. typed'[b] = typed[b]
        BY <2>1, <2>3, <3>1
      <4> QED BY <3>0, <4>1
    <3>2. CASE b = k
      <4>1. typed'[b] = Typed(b)
        BY <2>1, <2>3, <3>2
      <4>2. CASE typed[b] # <<>> /\ typed_age[b] <= Window
        <5>1. /\ Len(typed[b]) > 0 /\ Len(Typed(b)) = Len(typed[b])
              /\ Typed(b)[Len(typed[b])] = typed[b][Len(typed[b])] + 1
              /\ \A j \in 1 .. Len(typed[b]) - 1 : Typed(b)[j] = typed[b][j]
          BY <1>0, <4>2, TypedGroups
        <5> QED BY <3>0, <4>1, <5>1
      <4>3. CASE ~(typed[b] # <<>> /\ typed_age[b] <= Window)
        <5>1. /\ Len(Typed(b)) = Len(typed[b]) + 1
              /\ Typed(b)[Len(typed[b]) + 1] = 1
              /\ \A j \in 1 .. Len(typed[b]) : Typed(b)[j] = typed[b][j]
          BY <1>0, <4>3, TypedGroups
        <5> QED BY <3>0, <4>1, <5>1
      <4> QED BY <4>2, <4>3
    <3> QED BY <3>1, <3>2
  <2> QED BY <1>3, <1>4, <2>5, <2>6 DEF TypeInv
<1>6. CASE k \notin Button
  <2>1. typed' = typed /\ typed_age' = typed_age
    BY <1>6 DEF Type
  <2>2. TypeOK'
    BY <1>0, <1>1, <1>2, <2>1 DEF Type, raiseVars, TypeOK
  <2>3. GroupsInv'
    <3>1. \A b \in Button : \A i \in 1 .. Len(typed[b]) :
            typed[b][i] \in Nat /\ typed[b][i] <= keys /\ keys \in Nat
      BY <1>0, NumbersAre, SequencesAre DEF GroupsInv
    <3> QED BY <1>2, <2>1, <3>1 DEF GroupsInv
  <2> QED BY <1>3, <1>4, <2>2, <2>3 DEF TypeInv
<1> QED BY <1>5, <1>6

LEMMA TypeTick ==
  ASSUME TypeInv, Tick
  PROVE  TypeInv'
<1>0. TypeOK /\ KeysInv /\ GroupsInv /\ CharInv
  BY DEF TypeInv
<1>1. \A b \in Button : /\ press'[b] \in [taps : 0 .. MaxKeys, first : Age, last : Age]
                        /\ press'[b].taps = press[b].taps
  BY <1>0, PressTyped, AgeIs, NumbersAre DEF Tick, NotPressed
<1>2. press' \in [Button -> [taps : 0 .. MaxKeys, first : Age, last : Age]]
  BY <1>1 DEF Tick
<1>3. typed_age' \in [Button -> Age]
  BY <1>0, AgeIs DEF Tick, raiseVars, TypeOK
<1>4. blocked' \in 0 .. BlockTicks
  <2>1. blocked \in Nat /\ blocked <= BlockTicks /\ BlockTicks \in Nat
    BY <1>0, NumbersAre
  <2>2. blocked' = IF blocked > 0 THEN blocked - 1 ELSE 0
    BY DEF Tick
  <2> QED BY <2>1, <2>2
<1>5. TypeOK'
  BY <1>0, <1>2, <1>3, <1>4 DEF Tick, raiseVars, TypeOK
<1>6. KeysInv' /\ GroupsInv' /\ CharInv'
  BY <1>0, <1>1, ButtonIsKey DEF Tick, KeysInv, GroupsInv, CharInv, Processed
<1> QED BY <1>5, <1>6 DEF TypeInv

\* What the end of gestures leaves: every other button's press as it was.
LEMMA FinalizedPresses ==
  ASSUME TypeInv, NEW D \in SUBSET Button, \A b \in D : Pending(b), Finalized(D)
  PROVE  /\ press' \in [Button -> [taps : 0 .. MaxKeys, first : Age, last : Age]]
         /\ press'["s"].taps \in Nat /\ press'["v"].taps \in Nat
         /\ press'["s"].taps <= press["s"].taps /\ press'["v"].taps <= press["v"].taps
         /\ handled' \in [Button -> Seq([taps : 1 .. MaxKeys, event : Event])]
         /\ blocked' \in 0 .. BlockTicks
<1>0. TypeOK
  BY DEF TypeInv
<1>1. NotPressed \in [taps : 0 .. MaxKeys, first : Age, last : Age] /\ NotPressed.taps = 0
  BY <1>0, AgeIs, NumbersAre DEF NotPressed
<1>2. ASSUME NEW b \in Button
      PROVE  /\ press'[b] \in [taps : 0 .. MaxKeys, first : Age, last : Age]
             /\ press'[b].taps \in Nat /\ press'[b].taps <= press[b].taps
             /\ handled'[b] \in Seq([taps : 1 .. MaxKeys, event : Event])
  <2>1. press'[b] = (IF b \in D THEN NotPressed ELSE press[b])
        /\ handled'[b] = (IF b \in D THEN Handled(b) ELSE handled[b])
    BY DEF Finalized
  <2>2. press'[b] \in [taps : 0 .. MaxKeys, first : Age, last : Age]
        /\ press'[b].taps \in Nat /\ press'[b].taps <= press[b].taps
    BY <1>0, <1>1, <2>1, PressTyped
  <2>3. b \in D => Handled(b) \in Seq([taps : 1 .. MaxKeys, event : Event])
    BY <1>0, HandledGestures
  <2>4. handled[b] \in Seq([taps : 1 .. MaxKeys, event : Event])
    BY <1>0, SequencesAre
  <2> QED BY <2>1, <2>2, <2>3, <2>4
<1>3. blocked' \in 0 .. BlockTicks
  BY <1>0, NumbersAre DEF Finalized, BlocksFor
<1>4. press' \in [Button -> [taps : 0 .. MaxKeys, first : Age, last : Age]]
      /\ handled' \in [Button -> Seq([taps : 1 .. MaxKeys, event : Event])]
  <2>1. press' = [b \in Button |-> press'[b]] /\ handled' = [b \in Button |-> handled'[b]]
    BY DEF Finalized
  <2> QED BY <1>2, <2>1
<1> QED BY <1>2, <1>3, <1>4, ButtonIsKey

LEMMA TypeReadKey ==
  ASSUME TypeInv, ReadKey
  PROVE  TypeInv'
<1>0. TypeOK /\ KeysInv /\ GroupsInv /\ CharInv
  BY DEF TypeInv
<1> DEFINE chars == IF stdin = <<>> THEN terminal ELSE stdin
<1>1. chars \in Seq(Key) /\ chars # <<>>
  BY <1>0, SequencesAre DEF ReadKey
<1>2. char' = Head(chars) /\ stdin' = Tail(chars)
      /\ terminal' = IF stdin = <<>> THEN <<>> ELSE terminal
  BY DEF ReadKey
<1>3. char' \in Key /\ stdin' \in Seq(Key) /\ Len(stdin') = Len(chars) - 1
  <2> HIDE DEF chars
  <2> QED BY <1>1, <1>2, HeadTailProperties
<1>4. terminal' \in Seq(Key) /\ Len(terminal') + Len(chars) = Len(terminal) + Len(stdin)
  <2>1. Len(<<>>) = 0 /\ <<>> \in Seq(Key)
    BY EmptySeq
  <2>2. Len(terminal) \in Nat /\ Len(stdin) \in Nat /\ terminal \in Seq(Key)
    BY <1>0, SequencesAre
  <2>3. CASE stdin = <<>>
    BY <1>2, <2>1, <2>2, <2>3
  <2>4. CASE stdin # <<>>
    BY <1>2, <2>1, <2>2, <2>4
  <2> QED BY <2>3, <2>4
<1>5. /\ pc = "poll" /\ pc' = "first"
      /\ UNCHANGED <<running, polled, blocked, press, handled, typed, typed_age, keys, late>>
      /\ raises' = raises /\ dropped' = dropped
  BY DEF ReadKey, operatorVars, raiseVars
<1> HIDE DEF chars
<1>6. TypeOK'
  <2>1. /\ press' \in [Button -> [taps : 0 .. MaxKeys, first : Age, last : Age]]
        /\ handled' \in [Button -> Seq([taps : 1 .. MaxKeys, event : Event])]
        /\ typed' \in [Button -> Seq(1 .. MaxKeys)]
        /\ typed_age' \in [Button -> Age]
    BY <1>0, <1>5 DEF TypeOK
  <2>2. /\ running' \in BOOLEAN /\ polled' \in BOOLEAN /\ late' \in BOOLEAN
        /\ blocked' \in 0 .. BlockTicks /\ keys' \in 0 .. MaxKeys
    BY <1>0, <1>5 DEF TypeOK
  <2>3. raises' \in 0 .. MaxRaises /\ dropped' \in [Button -> Nat]
    BY <1>0, <1>5 DEF TypeOK
  <2> QED BY <1>3, <1>4, <1>5, <2>1, <2>2, <2>3 DEF TypeOK
<1>7. char = NoKey /\ char' # NoKey
  <2>1. char = NoKey
    BY <1>0, <1>5 DEF CharInv
  <2>2. char' # NoKey
    BY <1>3, ButtonIsKey
  <2> QED BY <2>1, <2>2
<1>8. KeysInv'
  <2>1. /\ press["s"].taps + press["v"].taps + Len(terminal) + Len(stdin) + Processed <= keys
        /\ press["s"].taps \in Nat /\ press["v"].taps \in Nat
        /\ Len(terminal) \in Nat /\ Len(stdin) \in Nat /\ keys \in Nat
    BY <1>0, KeysAddUp
  <2>2. Processed' = 1 /\ Processed = 0
    BY <1>7 DEF Processed
  <2>3. Len(terminal') \in Nat /\ Len(stdin') \in Nat /\ Len(chars) \in Nat
    BY <1>1, <1>3, <1>4, LenProperties
  <2>4. press["s"].taps + press["v"].taps + Len(terminal') + Len(stdin') + Processed' <= keys
    <3> DEFINE ps == press["s"].taps
               pv == press["v"].taps
               lt == Len(terminal)
               ls == Len(stdin)
               lc == Len(chars)
               lt1 == Len(terminal')
               ls1 == Len(stdin')
    <3>1. /\ ps + pv + lt + ls + 0 <= keys
          /\ ps \in Nat /\ pv \in Nat /\ lt \in Nat /\ ls \in Nat /\ keys \in Nat
      BY <2>1, <2>2
    <3>2. lt1 \in Nat /\ ls1 \in Nat /\ lc \in Nat /\ ls1 = lc - 1 /\ lt1 + lc = lt + ls
      BY <1>3, <1>4, <2>3
    <3> HIDE DEF ps, pv, lt, ls, lc, lt1, ls1
    <3>3. ps + pv + lt1 + ls1 + 1 <= keys
      BY <3>1, <3>2
    <3> QED BY <2>2, <3>3 DEF ps, pv, lt1, ls1
  <2> QED BY <1>5, <2>4 DEF KeysInv
<1>9. GroupsInv' /\ CharInv'
  BY <1>0, <1>5, <1>7 DEF GroupsInv, CharInv
<1> QED BY <1>6, <1>8, <1>9 DEF TypeInv

\* The presses of no button grow, so the keys still add up.
LEMMA TypeFinalized ==
  ASSUME TypeInv, NEW D \in SUBSET Button, \A b \in D : Expired(b), Finalized(D),
         CharInv', pc' \in {"poll", "first", "key", "last"},
         polled' \in BOOLEAN, late' \in BOOLEAN, char' \in {char, NoKey},
         raises' \in 0 .. MaxRaises, dropped' \in [Button -> Nat],
         UNCHANGED <<terminal, stdin, running, operatorVars>>
  PROVE  TypeInv'
<1>0. TypeOK /\ KeysInv /\ GroupsInv
  BY DEF TypeInv
<1>1. \A b \in D : Pending(b)
  BY DEF Expired
<1>2. /\ press' \in [Button -> [taps : 0 .. MaxKeys, first : Age, last : Age]]
      /\ press'["s"].taps \in Nat /\ press'["v"].taps \in Nat
      /\ press'["s"].taps <= press["s"].taps /\ press'["v"].taps <= press["v"].taps
      /\ handled' \in [Button -> Seq([taps : 1 .. MaxKeys, event : Event])]
      /\ blocked' \in 0 .. BlockTicks
  BY <1>1, FinalizedPresses
<1>3. TypeOK'
  BY <1>0, <1>2 DEF TypeOK, operatorVars
<1>4. KeysInv'
  <2>1. /\ press["s"].taps + press["v"].taps + Len(terminal) + Len(stdin) + Processed <= keys
        /\ press["s"].taps \in Nat /\ press["v"].taps \in Nat
        /\ Len(terminal) \in Nat /\ Len(stdin) \in Nat /\ keys \in Nat
    BY <1>0, KeysAddUp
  <2>2. press'["s"].taps + press'["v"].taps + Len(terminal) + Len(stdin) + Processed' <= keys
    <3>1. Processed \in 0 .. 1 /\ Processed' \in 0 .. 1 /\ Processed' <= Processed
      BY DEF Processed
    <3>2. /\ press'["s"].taps \in Nat /\ press'["v"].taps \in Nat
          /\ press'["s"].taps <= press["s"].taps /\ press'["v"].taps <= press["v"].taps
      BY <1>2
    <3> DEFINE ps == press["s"].taps
               pv == press["v"].taps
               ps1 == press'["s"].taps
               pv1 == press'["v"].taps
               lt == Len(terminal)
               ls == Len(stdin)
               one == Processed
               one1 == Processed'
    <3>3. /\ ps + pv + lt + ls + one <= keys
          /\ one \in Int /\ one1 \in Int /\ one1 <= one
          /\ ps \in Nat /\ pv \in Nat /\ lt \in Nat /\ ls \in Nat /\ keys \in Nat
          /\ ps1 \in Nat /\ pv1 \in Nat /\ ps1 <= ps /\ pv1 <= pv
      BY <2>1, <3>1, <3>2
    <3> HIDE DEF ps, pv, ps1, pv1, lt, ls, one, one1
    <3>4. ps1 + pv1 + lt + ls + one1 <= keys
      BY <3>3
    <3> QED BY <3>4 DEF ps1, pv1, lt, ls, one1
  <2>3. terminal' = terminal /\ stdin' = stdin /\ keys' = keys
    BY DEF operatorVars
  <2> QED BY <2>2, <2>3 DEF KeysInv
<1>5. GroupsInv'
  BY <1>0 DEF GroupsInv, operatorVars
<1> QED BY <1>3, <1>4, <1>5 DEF TypeInv

LEMMA TypeProcessKey ==
  ASSUME TypeInv, ProcessKey
  PROVE  TypeInv'
<1>0. TypeOK /\ KeysInv /\ GroupsInv /\ CharInv
  BY DEF TypeInv
<1>1. /\ pc = "key" /\ pc' = "last" /\ char' = NoKey
      /\ UNCHANGED <<terminal, stdin, polled, typed, typed_age, keys, raises, dropped, late>>
  BY DEF ProcessKey, operatorVars, raiseVars
<1>2. char # NoKey
  BY <1>0, <1>1 DEF CharInv
<1>3. Processed = 1 /\ Processed' = 0
  BY <1>1, <1>2 DEF Processed
<1>4. GroupsInv' /\ CharInv'
  BY <1>0, <1>1 DEF GroupsInv, CharInv
<1>5. /\ press["s"].taps + press["v"].taps + Len(terminal) + Len(stdin) + 1 <= keys
      /\ press["s"].taps \in Nat /\ press["v"].taps \in Nat /\ keys <= MaxKeys
      /\ Len(terminal) \in Nat /\ Len(stdin) \in Nat /\ keys \in Nat /\ MaxKeys \in Nat
  BY <1>0, <1>3, KeysAddUp
<1>6. CASE char \in Button /\ Pressed(char) /\ UNCHANGED running
  <2> DEFINE p == WithPress(char)
  <2>1. press' = [press EXCEPT ![char] = p]
    BY <1>6 DEF Pressed
  <2>2. press[char] \in [taps : 0 .. MaxKeys, first : Age, last : Age] /\ press[char].taps \in Nat
        /\ press[char].taps + 1 <= keys
    <3>1. press[char] \in [taps : 0 .. MaxKeys, first : Age, last : Age] /\ press[char].taps \in Nat
      BY <1>0, <1>6, PressTyped
    <3>2. press["s"].taps + 1 <= keys /\ press["v"].taps + 1 <= keys
      <4> DEFINE ps == press["s"].taps
                 pv == press["v"].taps
                 lt == Len(terminal)
                 ls == Len(stdin)
      <4>1. /\ ps + pv + lt + ls + 1 <= keys /\ keys \in Nat
            /\ ps \in Nat /\ pv \in Nat /\ lt \in Nat /\ ls \in Nat
        BY <1>5
      <4> HIDE DEF ps, pv, lt, ls
      <4>2. ps + 1 <= keys /\ pv + 1 <= keys
        BY <4>1
      <4> QED BY <4>2 DEF ps, pv
    <3>3. char = "s" \/ char = "v"
      BY <1>6 DEF Button
    <3> QED BY <3>1, <3>2, <3>3
  <2>3. p \in [taps : 0 .. MaxKeys, first : Age, last : Age]
        /\ p.taps \in Nat /\ p.taps <= press[char].taps + 1
    <3>1. CASE Pending(char) /\ ~Expired(char)
      <4>1. p = [taps |-> press[char].taps + 1, first |-> press[char].first, last |-> 0]
        BY <3>1 DEF WithPress
      <4>2. press[char].taps + 1 \in 0 .. MaxKeys /\ 0 \in Age
        <5> DEFINE collected == press[char].taps
        <5>1. /\ collected \in Nat /\ collected + 1 <= keys
              /\ keys \in Nat /\ keys <= MaxKeys /\ MaxKeys \in Nat
          BY <1>0, <2>2, NumbersAre
        <5> HIDE DEF collected
        <5>2. collected + 1 \in 0 .. MaxKeys
          BY <5>1
        <5> QED BY <5>2, AgeIs DEF collected
      <4>3. p.taps = press[char].taps + 1 /\ p \in [taps : 0 .. MaxKeys, first : Age, last : Age]
        BY <2>2, <4>1, <4>2
      <4> QED BY <2>2, <4>3
    <3>2. CASE ~(Pending(char) /\ ~Expired(char))
      BY <1>5, <2>2, <3>2, AgeIs DEF WithPress
    <3> QED BY <3>1, <3>2
  <2> HIDE DEF p
  <2>4. press \in [Button -> [taps : 0 .. MaxKeys, first : Age, last : Age]]
    BY <1>0 DEF TypeOK
  <2>5. press' \in [Button -> [taps : 0 .. MaxKeys, first : Age, last : Age]]
    BY <1>6, <2>1, <2>3, <2>4
  <2>6. \A b \in Button : press'[b] = IF b = char THEN p ELSE press[b]
    BY <2>1, <2>4
  <2>7. press'["s"].taps + press'["v"].taps <= press["s"].taps + press["v"].taps + 1
        /\ press'["s"].taps \in Nat /\ press'["v"].taps \in Nat
    <3>1. CASE char = "s"
      <4>1. press'["s"] = p /\ press'["v"] = press["v"]
        BY <2>6, <3>1, ButtonIsKey
      <4> QED BY <1>5, <2>3, <3>1, <4>1
    <3>2. CASE char = "v"
      <4>1. press'["v"] = p /\ press'["s"] = press["s"]
        BY <2>6, <3>2, ButtonIsKey
      <4> QED BY <1>5, <2>3, <3>2, <4>1
    <3> QED BY <1>6, <3>1, <3>2 DEF Button
  <2>8. handled' \in [Button -> Seq([taps : 1 .. MaxKeys, event : Event])]
    <3>1. handled \in [Button -> Seq([taps : 1 .. MaxKeys, event : Event])]
      BY <1>0 DEF TypeOK
    <3>2. CASE Expired(char)
      <4>1. handled' = [handled EXCEPT ![char] = Handled(char)]
        BY <1>6, <3>2 DEF Pressed
      <4>2. Handled(char) \in Seq([taps : 1 .. MaxKeys, event : Event])
        BY <1>0, <1>6, <3>2, HandledGestures DEF Expired
      <4> QED BY <1>6, <3>1, <4>1, <4>2
    <3>3. CASE ~Expired(char)
      BY <1>6, <3>1, <3>3 DEF Pressed
    <3> QED BY <3>2, <3>3
  <2>9. blocked' \in 0 .. BlockTicks
    <3>1. blocked \in 0 .. BlockTicks /\ BlockTicks \in 0 .. BlockTicks
      BY <1>0, NumbersAre
    <3>2. blocked' = blocked \/ blocked' = BlockTicks
      BY <1>6 DEF Pressed, BlocksFor
    <3> QED BY <3>1, <3>2
  <2>10. TypeOK'
    BY <1>0, <1>1, <1>6, <2>5, <2>8, <2>9 DEF TypeOK
  <2>11. KeysInv'
    <3> DEFINE ps == press["s"].taps
               pv == press["v"].taps
               ps1 == press'["s"].taps
               pv1 == press'["v"].taps
               lt == Len(terminal)
               ls == Len(stdin)
    <3>1. /\ ps + pv + lt + ls + 1 <= keys /\ ps1 + pv1 <= ps + pv + 1
          /\ ps \in Nat /\ pv \in Nat /\ lt \in Nat /\ ls \in Nat /\ keys \in Nat
          /\ ps1 \in Nat /\ pv1 \in Nat
      BY <1>5, <2>7
    <3>2. SUFFICES ps1 + pv1 + lt + ls + 0 <= keys
      BY <1>1, <1>3 DEF KeysInv
    <3> HIDE DEF ps, pv, ps1, pv1, lt, ls
    <3> QED BY <3>1
  <2> QED BY <1>4, <2>10, <2>11 DEF TypeInv
<1>7. CASE running' = FALSE /\ UNCHANGED <<press, handled, blocked>>
  <2>1. TypeOK'
    BY <1>0, <1>1, <1>7 DEF TypeOK
  <2>2. KeysInv'
    BY <1>1, <1>3, <1>5, <1>7 DEF KeysInv
  <2> QED BY <1>4, <2>1, <2>2 DEF TypeInv
<1> QED BY <1>6, <1>7 DEF ProcessKey

\* What a raising handler leaves finalized is some of what was overdue.
LEMMA RaisingFinalizes ==
  ASSUME NEW b \in Button, HandlerRaises(b)
  PROVE  \E D \in SUBSET Button : (\A c \in D : Expired(c)) /\ Finalized(D)
<1> DEFINE all == {c \in Button : Expired(c)}
<1>1. Cleared(b, all) \in SUBSET Button /\ \A c \in Cleared(b, all) : Expired(c)
  BY DEF Cleared
<1>2. Cleared(b, {b}) \in SUBSET Button /\ \A c \in Cleared(b, {b}) : Expired(c)
  BY DEF Cleared, HandlerRaises
<1>3. Finalized(Cleared(b, all)) \/ Finalized(Cleared(b, {b}))
  BY DEF HandlerRaises
<1> QED BY <1>1, <1>2, <1>3

LEMMA TypeRaises ==
  ASSUME TypeInv, NEW b \in Button, HandlerRaises(b)
  PROVE  TypeInv'
<1>0. TypeOK /\ CharInv
  BY DEF TypeInv
<1>1. PICK D \in SUBSET Button : (\A c \in D : Expired(c)) /\ Finalized(D)
  BY RaisingFinalizes
<1>2. raises' \in 0 .. MaxRaises
  <2>1. raises \in 0 .. MaxRaises /\ MaxRaises \in Nat
    BY <1>0, TimingAssumption DEF TypeOK
  <2> QED BY <2>1 DEF HandlerRaises
<1>3. dropped' \in [Button -> Nat]
  <2>1. \A c \in Button : dropped[c] + InProcess(c) \in Nat
    BY <1>0 DEF TypeOK, InProcess
  <2> QED BY <2>1 DEF HandlerRaises
<1>4. CharInv' /\ pc' \in {"poll", "first", "key", "last"}
  BY <1>0 DEF HandlerRaises, CharInv
<1>5. /\ polled' \in BOOLEAN /\ late' \in BOOLEAN /\ char' \in {char, NoKey}
      /\ UNCHANGED <<terminal, stdin, running, operatorVars>>
  BY DEF HandlerRaises
<1> QED BY <1>1, <1>2, <1>3, <1>4, <1>5, TypeFinalized

LEMMA TypeStep ==
  ASSUME TypeInv, [Next]_vars
  PROVE  TypeInv'
<1>0. TypeOK /\ KeysInv /\ GroupsInv /\ CharInv
  BY DEF TypeInv
<1>1. ASSUME NEW k \in Key, Type(k) PROVE TypeInv'
  BY <1>1, TypeTyping
<1>2. CASE Tick
  BY <1>2, TypeTick
<1>3. CASE NothingToRead
  <2>1. TypeOK' /\ CharInv'
    BY <1>0, <1>3 DEF NothingToRead, operatorVars, raiseVars, TypeOK, CharInv
  <2>2. KeysInv' /\ GroupsInv'
    BY <1>0, <1>3 DEF NothingToRead, operatorVars, KeysInv, GroupsInv, Processed
  <2> QED BY <2>1, <2>2 DEF TypeInv
<1>4. CASE ReadKey
  BY <1>4, TypeReadKey
<1>5. CASE FinalizeBeforeKey
  <2> DEFINE D == {b \in Button : Expired(b)}
  <2>1. /\ CharInv' /\ pc' \in {"poll", "first", "key", "last"}
        /\ polled' \in BOOLEAN /\ late' \in BOOLEAN /\ char' \in {char, NoKey}
        /\ raises' \in 0 .. MaxRaises /\ dropped' \in [Button -> Nat]
        /\ UNCHANGED <<terminal, stdin, running, operatorVars>>
    BY <1>0, <1>5 DEF FinalizeBeforeKey, raiseVars, CharInv, TypeOK
  <2>2. D \in SUBSET Button /\ (\A b \in D : Expired(b)) /\ Finalized(D)
    BY <1>5 DEF FinalizeBeforeKey
  <2> HIDE DEF D
  <2> QED BY <2>1, <2>2, TypeFinalized
<1>6. CASE ProcessKey
  BY <1>6, TypeProcessKey
<1>7. CASE FinalizeAfterKey
  <2> DEFINE D == {b \in Button : Expired(b)}
  <2>1. /\ CharInv' /\ pc' \in {"poll", "first", "key", "last"}
        /\ polled' \in BOOLEAN /\ late' \in BOOLEAN /\ char' \in {char, NoKey}
        /\ raises' \in 0 .. MaxRaises /\ dropped' \in [Button -> Nat]
        /\ UNCHANGED <<terminal, stdin, running, operatorVars>>
    BY <1>0, <1>7 DEF FinalizeAfterKey, raiseVars, CharInv, TypeOK
  <2>2. D \in SUBSET Button /\ (\A b \in D : Expired(b)) /\ Finalized(D)
    BY <1>7 DEF FinalizeAfterKey
  <2> HIDE DEF D
  <2> QED BY <2>1, <2>2, TypeFinalized
<1>8. CASE UNCHANGED vars
  <2>1. TypeOK' /\ CharInv'
    BY <1>0, <1>8 DEF vars, loopVars, operatorVars, raiseVars, TypeOK, CharInv
  <2>2. KeysInv' /\ GroupsInv'
    BY <1>0, <1>8 DEF vars, loopVars, operatorVars, KeysInv, GroupsInv, Processed
  <2> QED BY <2>1, <2>2 DEF TypeInv
<1>9. ASSUME NEW b \in Button, HandlerRaises(b) PROVE TypeInv'
  BY <1>9, TypeRaises
<1> QED BY <1>1, <1>2, <1>3, <1>4, <1>5, <1>6, <1>7, <1>8, <1>9 DEF Next, Iterate, Stopped

LEMMA TypeInvariant == Spec => []TypeInv
<1>1. TypeInv /\ [Next]_vars => TypeInv'
  BY TypeStep
<1> QED BY TypeInit, <1>1, PTL DEF Spec

\* No history of keys, blocked handlers and late polls leads a button, the
\* buffers or the loop out of their types: in particular a button never holds
\* more presses than were typed (EpisodeButtonState, ActivationButtonState).
THEOREM TypeCorrect == Spec => []TypeOK
<1>1. TypeInv => TypeOK
  BY DEF TypeInv
<1> QED BY TypeInvariant, <1>1, PTL

-----------------------------------------------------------------------------
(* Gestures.  As long as the loop is neither blocked nor behind, at most   *)
(* one key is on its way, and what the operator typed on a button is what  *)
(* was handled, followed by the pending gesture and the key on its way.    *)
(* The pending gesture is as old as the last press, and it is over before  *)
(* a first press could look like a long one.                               *)

OneKeyInv ==
  /\ stdin = <<>>
  /\ terminal # <<>> => pc = "poll" /\ Len(terminal) = 1
  /\ polled => pc = "poll" /\ terminal = <<>>

\* The key on its way is b.
Waiting(b) == (terminal # <<>> /\ Head(terminal) = b) \/ char = b

HandledAsTyped(b) ==
  \A i \in 1 .. Len(handled[b]) :
    /\ i <= Len(typed[b])
    /\ handled[b][i].taps = typed[b][i]
    /\ handled[b][i].event = EventFor(b, typed[b][i])

LeftToHandle(b) ==
  LET n == Len(handled[b])
  IN  /\ ~Pending(b) /\ ~Waiting(b) =>
           Len(typed[b]) = n /\ (n > 0 => typed_age[b] > Window)
      /\ ~Pending(b) /\ Waiting(b) =>
           Len(typed[b]) = n + 1 /\ typed[b][n + 1] = 1
      /\ Pending(b) /\ ~Waiting(b) =>
           /\ Len(typed[b]) = n + 1 /\ typed[b][n + 1] = press[b].taps
           /\ typed_age[b] = press[b].last
      /\ Pending(b) /\ Waiting(b) /\ ~Expired(b) =>
           Len(typed[b]) = n + 1 /\ typed[b][n + 1] = press[b].taps + 1
      /\ Pending(b) /\ Waiting(b) /\ Expired(b) =>
           Len(typed[b]) = n + 2 /\ typed[b][n + 1] = press[b].taps /\ typed[b][n + 2] = 1

Timely(b) ==
  /\ Waiting(b) => typed_age[b] = 0
  /\ Pending(b) => /\ press[b].last <= Window + 1
                   /\ press[b].taps = 1 => press[b].first = press[b].last
                   /\ polled => press[b].last <= Window

KeepsUp(b) == HandledAsTyped(b) /\ LeftToHandle(b) /\ Timely(b)

GestureInv == ~late => OneKeyInv /\ \A b \in Button : KeepsUp(b)

\* A gesture cannot look longer or shorter than it was.
LEMMA EventIsFor ==
  ASSUME TypeOK, NEW b \in Button, Pending(b), Timely(b)
  PROVE  EventOf(b) = EventFor(b, press[b].taps)
<1>1. /\ press[b].taps \in Nat /\ press[b].taps > 0
      /\ press[b].first \in Nat /\ press[b].last \in Nat
      /\ press[b].last <= Window + 1 /\ (press[b].taps = 1 => press[b].first = press[b].last)
      /\ Window \in Nat /\ LongPress \in Nat /\ Window + 1 < LongPress
  BY PressTyped, NumbersAre DEF Pending, Timely
<1>2. press[b].taps = 1 => ~(press[b].first >= LongPress)
  BY <1>1
<1>3. CASE b = "v"
  BY <1>3 DEF EventOf, EventFor
<1>4. CASE b # "v" /\ press[b].taps = 1
  BY <1>2, <1>4 DEF EventOf, EventFor
<1>5. CASE b # "v" /\ press[b].taps = 2
  BY <1>5 DEF EventOf, EventFor
<1>6. CASE b # "v" /\ press[b].taps >= 3
  BY <1>1, <1>6 DEF EventOf, EventFor
<1> QED BY <1>1, <1>3, <1>4, <1>5, <1>6

\* The facts about one button the steps below keep needing.
LEMMA ButtonFacts ==
  ASSUME TypeOK, NEW b \in Button
  PROVE  /\ Len(handled[b]) \in Nat /\ Len(typed[b]) \in Nat
         /\ press[b].taps \in Nat /\ press[b].first \in Nat /\ press[b].last \in Nat
         /\ typed_age[b] \in Nat
         /\ Window \in Nat /\ LongPress \in Nat /\ Window + 1 < LongPress
<1>1. typed_age[b] \in Age
  BY DEF TypeOK
<1> QED BY <1>1, AgeIs, PressTyped, SequencesAre, NumbersAre

LEMMA LeftAlone ==
  ASSUME NEW b \in Button, KeepsUp(b),
         typed'[b] = typed[b], typed_age'[b] = typed_age[b],
         handled'[b] = handled[b], press'[b] = press[b],
         Waiting(b)' <=> Waiting(b),
         polled' => polled \/ (Pending(b) => press[b].last <= Window)
  PROVE  KeepsUp(b)'
<1>1. HandledAsTyped(b)'
  BY DEF KeepsUp, HandledAsTyped
<1>2. (Pending(b)' <=> Pending(b)) /\ (Expired(b)' <=> Expired(b))
  BY DEF Pending, Expired
<1>3. LeftToHandle(b)'
  BY <1>2 DEF KeepsUp, LeftToHandle
<1>4. Timely(b)'
  BY <1>2 DEF KeepsUp, Timely
<1> QED BY <1>1, <1>3, <1>4 DEF KeepsUp

\* A gesture over joins those handled as the operator typed it.
LEMMA OverIsHandled ==
  ASSUME TypeOK, NEW b \in Button, KeepsUp(b), Expired(b),
         handled'[b] = Handled(b), typed'[b] = typed[b]
  PROVE  /\ HandledAsTyped(b)' /\ Len(handled'[b]) = Len(handled[b]) + 1
         /\ ~Waiting(b) => Len(typed[b]) = Len(handled'[b]) /\ typed_age[b] > Window
         /\ Waiting(b) => /\ Len(typed[b]) = Len(handled'[b]) + 1
                          /\ typed[b][Len(handled'[b]) + 1] = 1
<1> DEFINE n == Len(handled[b])
<1>1. Pending(b) /\ Timely(b) /\ n \in Nat /\ Len(typed[b]) \in Nat
  BY ButtonFacts DEF Expired, KeepsUp
<1>2. /\ Len(handled'[b]) = n + 1
      /\ \A i \in 1 .. n : handled'[b][i] = handled[b][i]
      /\ handled'[b][n + 1].taps = press[b].taps
      /\ handled'[b][n + 1].event = EventFor(b, press[b].taps)
  BY <1>1, HandledGestures, EventIsFor
<1>3. /\ typed[b][n + 1] = press[b].taps /\ n + 1 <= Len(typed[b])
      /\ ~Waiting(b) => Len(typed[b]) = n + 1 /\ typed_age[b] > Window
      /\ Waiting(b) => Len(typed[b]) = n + 2 /\ typed[b][n + 2] = 1
  <2>1. press[b].last > Window
    BY DEF Expired
  <2>2. CASE Waiting(b)
    BY <1>1, <2>2 DEF KeepsUp, LeftToHandle
  <2>3. CASE ~Waiting(b)
    BY <1>1, <2>1, <2>3 DEF KeepsUp, LeftToHandle
  <2> QED BY <2>2, <2>3
<1>4. HandledAsTyped(b)'
  <2> SUFFICES ASSUME NEW i \in 1 .. n + 1
               PROVE  /\ i <= Len(typed[b])
                      /\ handled'[b][i].taps = typed[b][i]
                      /\ handled'[b][i].event = EventFor(b, typed[b][i])
    BY <1>2 DEF HandledAsTyped
  <2>1. CASE i = n + 1
    BY <1>2, <1>3, <2>1
  <2>2. CASE i # n + 1
    <3>1. i \in 1 .. n
      BY <1>1, <2>2
    <3> QED BY <1>2, <3>1 DEF KeepsUp, HandledAsTyped
  <2> QED BY <2>1, <2>2
<1> QED BY <1>1, <1>2, <1>3, <1>4

\* What the end of an iteration, and of its first half, does to one button.
LEMMA KeepsUpFinalized ==
  ASSUME TypeOK, NEW b \in Button, KeepsUp(b), Finalized({d \in Button : Expired(d)}),
         typed' = typed, typed_age' = typed_age, Waiting(b)' <=> Waiting(b)
  PROVE  KeepsUp(b)'
<1>1. handled'[b] = (IF Expired(b) THEN Handled(b) ELSE handled[b])
      /\ press'[b] = (IF Expired(b) THEN NotPressed ELSE press[b])
  BY DEF Finalized
<1>2. CASE ~Expired(b)
  <2>1. Pending(b) => press[b].last <= Window
    BY <1>2, ButtonFacts DEF Expired
  <2> QED BY <1>1, <1>2, <2>1, LeftAlone
<1>3. CASE Expired(b)
  <2>1. /\ HandledAsTyped(b)' /\ Len(handled'[b]) = Len(handled[b]) + 1
        /\ ~Waiting(b) => Len(typed[b]) = Len(handled'[b]) /\ typed_age[b] > Window
        /\ Waiting(b) => /\ Len(typed[b]) = Len(handled'[b]) + 1
                         /\ typed[b][Len(handled'[b]) + 1] = 1
    BY <1>1, <1>3, OverIsHandled
  <2>2. ~Pending(b)'
    BY <1>1, <1>3 DEF Pending, NotPressed
  <2>3. LeftToHandle(b)'
    BY <2>1, <2>2 DEF LeftToHandle
  <2>4. Timely(b)'
    BY <2>2 DEF KeepsUp, Timely
  <2> QED BY <2>1, <2>3, <2>4 DEF KeepsUp
<1> QED BY <1>2, <1>3

\* A key typed while none is on its way.
LEMMA KeepsUpTyping ==
  ASSUME TypeInv, NEW b \in Button, KeepsUp(b), Type(b), terminal = <<>>, char = NoKey
  PROVE  KeepsUp(b)'
<1> DEFINE n == Len(handled[b])
           grows == typed[b] # <<>> /\ typed_age[b] <= Window
<1>0. TypeOK /\ keys < MaxKeys
  BY DEF TypeInv, Type
<1>1. /\ typed'[b] = Typed(b) /\ typed_age'[b] = 0
      /\ handled' = handled /\ press' = press /\ polled' = FALSE
  <2>1. typed' = [typed EXCEPT ![b] = Typed(b)] /\ typed_age' = [typed_age EXCEPT ![b] = 0]
    BY DEF Type
  <2>2. typed'[b] = Typed(b) /\ typed_age'[b] = 0
    BY <1>0, <2>1 DEF TypeOK
  <2> QED BY <2>2 DEF Type
<1>2. ~Waiting(b) /\ Waiting(b)'
  <2>1. terminal' # <<>> /\ Head(terminal') = b
    BY DEF Type
  <2>2. ~Waiting(b)
    BY ButtonIsKey DEF Waiting
  <2> QED BY <2>1, <2>2 DEF Waiting
<1>3. (Pending(b)' <=> Pending(b)) /\ (Expired(b)' <=> Expired(b))
  BY <1>1 DEF Pending, Expired
<1>4. /\ n \in Nat /\ Len(typed[b]) \in Nat /\ typed_age[b] \in Nat /\ Window \in Nat
      /\ press[b].last \in Nat /\ press[b].taps \in Nat
      /\ typed[b] # <<>> <=> Len(typed[b]) > 0
  <2>1. typed[b] \in Seq(1 .. MaxKeys)
    BY <1>0, SequencesAre
  <2>2. typed[b] # <<>> <=> Len(typed[b]) > 0
    BY <2>1, EmptySeq
  <2> QED BY <1>0, <2>2, ButtonFacts
<1>5. Timely(b)'
  BY <1>1, <1>2, <1>3 DEF KeepsUp, Timely
<1>6. CASE grows
  <2>1. /\ Len(typed'[b]) = Len(typed[b])
        /\ typed'[b][Len(typed[b])] = typed[b][Len(typed[b])] + 1
        /\ \A i \in 1 .. Len(typed[b]) - 1 : typed'[b][i] = typed[b][i]
    BY <1>0, <1>1, <1>6, TypedGroups
  <2>2. Pending(b)
    BY <1>2, <1>4, <1>6 DEF KeepsUp, LeftToHandle
  <2>3. /\ Len(typed[b]) = n + 1 /\ typed[b][n + 1] = press[b].taps
        /\ typed_age[b] = press[b].last
    BY <1>2, <2>2 DEF KeepsUp, LeftToHandle
  <2>4. ~Expired(b)
    BY <1>4, <1>6, <2>3 DEF Expired
  <2>5. LeftToHandle(b)'
    BY <1>1, <1>2, <1>3, <2>1, <2>2, <2>3, <2>4 DEF LeftToHandle
  <2>6. HandledAsTyped(b)'
    <3>1. n + 1 - 1 = n /\ Len(typed'[b]) = n + 1 /\ \A i \in 1 .. n : typed'[b][i] = typed[b][i]
      BY <1>4, <2>1, <2>3
    <3> QED BY <1>1, <2>3, <3>1 DEF KeepsUp, HandledAsTyped
  <2> QED BY <1>5, <2>5, <2>6 DEF KeepsUp
<1>7. CASE ~grows
  <2>1. /\ Len(typed'[b]) = Len(typed[b]) + 1
        /\ typed'[b][Len(typed[b]) + 1] = 1
        /\ \A i \in 1 .. Len(typed[b]) : typed'[b][i] = typed[b][i]
    BY <1>0, <1>1, <1>7, TypedGroups
  <2>2. n <= Len(typed[b])
    BY <1>2, <1>4 DEF KeepsUp, LeftToHandle
  <2>3. HandledAsTyped(b)'
    <3>1. \A i \in 1 .. n : i \in 1 .. Len(typed[b]) /\ i <= Len(typed'[b])
      BY <1>4, <2>1, <2>2
    <3> QED BY <1>1, <2>1, <3>1 DEF KeepsUp, HandledAsTyped
  <2>4. CASE Pending(b)
    <3>1. /\ Len(typed[b]) = n + 1 /\ typed[b][n + 1] = press[b].taps
          /\ typed_age[b] = press[b].last
      BY <1>2, <2>4 DEF KeepsUp, LeftToHandle
    <3>2. Expired(b)
      BY <1>4, <1>7, <2>4, <3>1 DEF Expired
    <3>3. /\ Len(typed'[b]) = n + 2 /\ typed'[b][n + 1] = press[b].taps
          /\ typed'[b][n + 2] = 1
      BY <1>4, <2>1, <3>1
    <3>4. LeftToHandle(b)'
      BY <1>1, <1>2, <1>3, <2>4, <3>2, <3>3 DEF LeftToHandle
    <3> QED BY <1>5, <2>3, <3>4 DEF KeepsUp
  <2>5. CASE ~Pending(b)
    <3>1. Len(typed[b]) = n
      BY <1>2, <2>5 DEF KeepsUp, LeftToHandle
    <3>2. LeftToHandle(b)'
      BY <1>1, <1>2, <1>3, <2>1, <2>5, <3>1 DEF LeftToHandle
    <3> QED BY <1>5, <2>3, <3>2 DEF KeepsUp
  <2> QED BY <2>4, <2>5
<1> QED BY <1>6, <1>7

\* The key on its way becomes a press.
LEMMA KeepsUpPressed ==
  ASSUME TypeOK, NEW b \in Button, KeepsUp(b), Waiting(b), Pressed(b), ~polled,
         typed' = typed, typed_age' = typed_age, ~(Waiting(b)'), polled' = polled
  PROVE  KeepsUp(b)'
<1> DEFINE n == Len(handled[b])
<1>1. press'[b] = WithPress(b)
  <2>1. press' = [press EXCEPT ![b] = WithPress(b)]
    BY DEF Pressed
  <2> QED BY <2>1 DEF TypeOK
<1>2. typed_age[b] = 0
  BY DEF KeepsUp, Timely
<1>3. /\ n \in Nat /\ press[b].taps \in Nat /\ Window \in Nat
      /\ Pending(b) => press[b].taps > 0
  BY ButtonFacts DEF Pending
<1>4. CASE Expired(b)
  <2>1. handled'[b] = Handled(b)
    <3>1. handled' = [handled EXCEPT ![b] = Handled(b)]
      BY <1>4 DEF Pressed
    <3> QED BY <3>1 DEF TypeOK
  <2>2. /\ HandledAsTyped(b)'
        /\ Len(typed[b]) = Len(handled'[b]) + 1
        /\ typed[b][Len(handled'[b]) + 1] = 1
    BY <1>4, <2>1, OverIsHandled
  <2>3. press'[b] = [taps |-> 1, first |-> 0, last |-> 0]
    BY <1>1, <1>4 DEF WithPress
  <2>4. Pending(b)'
    BY <2>3 DEF Pending
  <2>5. LeftToHandle(b)'
    BY <1>2, <2>2, <2>3, <2>4 DEF LeftToHandle
  <2>6. Timely(b)'
    BY <1>3, <2>3 DEF Timely
  <2> QED BY <2>2, <2>5, <2>6 DEF KeepsUp
<1>5. CASE ~Expired(b)
  <2>1. handled' = handled
    BY <1>5 DEF Pressed
  <2>2. HandledAsTyped(b)'
    BY <2>1 DEF KeepsUp, HandledAsTyped
  <2>3. CASE Pending(b)
    <3>1. /\ press'[b].taps = press[b].taps + 1 /\ press'[b].last = 0
      BY <1>1, <1>5, <2>3 DEF WithPress
    <3>2. Pending(b)' /\ press'[b].taps # 1
      BY <1>3, <2>3, <3>1 DEF Pending
    <3>3. Len(typed[b]) = n + 1 /\ typed[b][n + 1] = press[b].taps + 1
      BY <1>5, <2>3 DEF KeepsUp, LeftToHandle
    <3>4. LeftToHandle(b)'
      BY <1>2, <2>1, <3>1, <3>2, <3>3 DEF LeftToHandle
    <3>5. Timely(b)'
      BY <1>3, <3>1, <3>2 DEF Timely
    <3> QED BY <2>2, <3>4, <3>5 DEF KeepsUp
  <2>4. CASE ~Pending(b)
    <3>1. press'[b] = [taps |-> 1, first |-> 0, last |-> 0]
      BY <1>1, <2>4 DEF WithPress
    <3>2. Pending(b)'
      BY <3>1 DEF Pending
    <3>3. Len(typed[b]) = n + 1 /\ typed[b][n + 1] = 1
      BY <2>4 DEF KeepsUp, LeftToHandle
    <3>4. LeftToHandle(b)'
      BY <1>2, <2>1, <3>1, <3>2, <3>3 DEF LeftToHandle
    <3>5. Timely(b)'
      BY <1>3, <3>1, <3>2 DEF Timely
    <3> QED BY <2>2, <3>4, <3>5 DEF KeepsUp
  <2> QED BY <2>3, <2>4
<1> QED BY <1>4, <1>5

\* Time passes for a pending gesture as it does for the operator's.
LEMMA KeepsUpTick ==
  ASSUME TypeOK, NEW b \in Button, KeepsUp(b), ~Waiting(b), polled, Tick, ~(Waiting(b)')
  PROVE  KeepsUp(b)'
<1> DEFINE n == Len(handled[b])
<1>1. /\ handled' = handled /\ typed' = typed /\ polled' = FALSE
      /\ typed_age'[b] = Older(typed_age[b])
      /\ press'[b] = IF press[b].taps = 0 THEN NotPressed
                     ELSE [press[b] EXCEPT !.first = Older(@), !.last = Older(@)]
  BY DEF Tick
<1>2. /\ n \in Nat /\ press[b].taps \in Nat /\ press[b].first \in Nat /\ press[b].last \in Nat
      /\ typed_age[b] \in Nat
      /\ Window \in Nat /\ LongPress \in Nat /\ Window + 1 < LongPress
  BY ButtonFacts
<1>3. HandledAsTyped(b)'
  BY <1>1 DEF KeepsUp, HandledAsTyped
<1>4. CASE Pending(b)
  <2>1. /\ press'[b].taps = press[b].taps
        /\ press'[b].first = Older(press[b].first)
        /\ press'[b].last = Older(press[b].last)
    <3>1. press[b] \in [taps : 0 .. MaxKeys, first : Age, last : Age]
      BY PressTyped
    <3>2. press[b].taps # 0
      BY <1>4 DEF Pending
    <3>3. press'[b] = [press[b] EXCEPT !.first = Older(press[b].first),
                                       !.last = Older(press[b].last)]
      BY <1>1, <3>2
    <3> QED BY <3>1, <3>3
  <2>2. Pending(b)'
    BY <1>4, <2>1 DEF Pending
  <2>3. press[b].last <= Window
    BY <1>4 DEF KeepsUp, Timely
  <2>4. press'[b].last <= Window + 1
    BY <1>2, <2>1, <2>3 DEF Older
  <2>5. /\ Len(typed[b]) = n + 1 /\ typed[b][n + 1] = press[b].taps
        /\ typed_age[b] = press[b].last
    BY <1>4 DEF KeepsUp, LeftToHandle
  <2>6. press[b].taps = 1 => press[b].first = press[b].last
    BY <1>4 DEF KeepsUp, Timely
  <2>7. LeftToHandle(b)'
    BY <1>1, <2>1, <2>2, <2>5 DEF LeftToHandle
  <2>8. Timely(b)'
    BY <1>1, <2>1, <2>4, <2>6 DEF Timely
  <2> QED BY <1>3, <2>7, <2>8 DEF KeepsUp
<1>5. CASE ~Pending(b)
  <2>1. press'[b].taps = 0
    BY <1>1, <1>2, <1>5 DEF Pending, NotPressed
  <2>2. ~(Pending(b)')
    BY <2>1 DEF Pending
  <2>3. Len(typed[b]) = n /\ (n > 0 => typed_age[b] > Window)
    BY <1>5 DEF KeepsUp, LeftToHandle
  <2>4. typed_age[b] > Window => Older(typed_age[b]) > Window
    BY <1>2 DEF Older
  <2>5. LeftToHandle(b)'
    BY <1>1, <2>2, <2>3, <2>4 DEF LeftToHandle
  <2>6. Timely(b)'
    BY <2>2 DEF Timely
  <2> QED BY <1>3, <2>5, <2>6 DEF KeepsUp
<1> QED BY <1>4, <1>5

LEMMA GestureInit == Init => GestureInv
<1> SUFFICES ASSUME Init PROVE OneKeyInv /\ \A b \in Button : KeepsUp(b)
  BY DEF GestureInv
<1>1. OneKeyInv
  BY DEF Init, OneKeyInv
<1>2. ASSUME NEW b \in Button PROVE KeepsUp(b)
  <2>1. handled[b] = <<>> /\ typed[b] = <<>> /\ press[b].taps = 0 /\ Len(<<>>) = 0
    BY EmptySeq DEF Init, NotPressed
  <2>2. ~Pending(b) /\ ~Waiting(b)
    BY <2>1, ButtonIsKey DEF Init, Pending, Waiting
  <2>3. HandledAsTyped(b)
    BY <2>1 DEF HandledAsTyped
  <2>4. LeftToHandle(b)
    BY <2>1, <2>2 DEF LeftToHandle
  <2>5. Timely(b)
    BY <2>2 DEF Timely
  <2> QED BY <2>3, <2>4, <2>5 DEF KeepsUp
<1> QED BY <1>1, <1>2

LEMMA GestureStep ==
  ASSUME TypeInv, GestureInv, [Next]_vars
  PROVE  GestureInv'
<1> SUFFICES ASSUME ~late' PROVE OneKeyInv' /\ \A b \in Button : KeepsUp(b)'
  BY DEF GestureInv
<1>0. TypeOK /\ CharInv
  BY DEF TypeInv
<1>1. ASSUME NEW k \in Key, Type(k)
      PROVE  OneKeyInv' /\ \A b \in Button : KeepsUp(b)'
  <2>1. ~late /\ pc = "poll" /\ terminal = <<>> /\ stdin = <<>>
    BY <1>1 DEF Type
  <2>2. (\A b \in Button : KeepsUp(b)) /\ char = NoKey
    BY <1>0, <2>1 DEF GestureInv, CharInv
  <2>3. terminal' # <<>> /\ Len(terminal') = 1 /\ Head(terminal') = k
    BY <1>1, <2>1 DEF Type
  <2>4. OneKeyInv'
    BY <1>1, <2>1, <2>3 DEF Type, OneKeyInv
  <2>5. ASSUME NEW b \in Button PROVE KeepsUp(b)'
    <3>1. CASE b = k
      BY <1>1, <2>1, <2>2, <3>1, KeepsUpTyping
    <3>2. CASE b # k
      <4>1. ~Waiting(b) /\ ~(Waiting(b)')
        <5>1. char' = char /\ b # NoKey
          BY <1>1, ButtonIsKey DEF Type
        <5> QED BY <2>1, <2>2, <2>3, <3>2, <5>1 DEF Waiting
      <4>2. typed'[b] = typed[b] /\ typed_age'[b] = typed_age[b]
        <5>1. CASE k \in Button
          <6>1. typed' = [typed EXCEPT ![k] = Typed(k)] /\ typed_age' = [typed_age EXCEPT ![k] = 0]
            BY <1>1, <5>1 DEF Type
          <6> QED BY <1>0, <3>2, <6>1 DEF TypeOK
        <5>2. CASE k \notin Button
          BY <1>1, <5>2 DEF Type
        <5> QED BY <5>1, <5>2
      <4>3. handled' = handled /\ press' = press /\ polled' = FALSE
        BY <1>1 DEF Type
      <4> QED BY <2>2, <4>1, <4>2, <4>3, LeftAlone
    <3> QED BY <3>1, <3>2
  <2> QED BY <2>4, <2>5
<1>2. CASE Tick
  <2>1. ~late /\ pc = "poll" /\ terminal = <<>> /\ polled /\ char = NoKey
    <3>1. ~late /\ ~(blocked > 0)
      BY <1>2 DEF Tick
    <3> QED BY <1>0, <1>2, <3>1 DEF Tick, CharInv
  <2>2. OneKeyInv /\ \A b \in Button : KeepsUp(b)
    BY <2>1 DEF GestureInv
  <2>3. terminal' = terminal /\ stdin' = stdin /\ char' = char /\ pc' = pc /\ polled' = FALSE
    BY <1>2 DEF Tick
  <2>4. OneKeyInv'
    BY <2>1, <2>2, <2>3 DEF OneKeyInv
  <2>5. \A b \in Button : ~Waiting(b) /\ ~(Waiting(b)')
    BY <2>1, <2>3, ButtonIsKey DEF Waiting
  <2> QED BY <1>0, <1>2, <2>1, <2>2, <2>4, <2>5, KeepsUpTick
<1>3. CASE NothingToRead
  <2>1. /\ UNCHANGED <<terminal, stdin, char, polled, press, handled, typed, typed_age, late>>
        /\ terminal = <<>> /\ ~polled
    BY <1>3 DEF NothingToRead, operatorVars
  <2>2. OneKeyInv /\ \A b \in Button : KeepsUp(b)
    BY <2>1 DEF GestureInv
  <2>3. OneKeyInv'
    BY <2>1, <2>2 DEF OneKeyInv
  <2>4. \A b \in Button : Waiting(b)' <=> Waiting(b)
    BY <2>1 DEF Waiting
  <2> QED BY <2>1, <2>2, <2>3, <2>4, LeftAlone
<1>4. CASE ReadKey
  <2>1. /\ UNCHANGED <<polled, press, handled, typed, typed_age, late>>
        /\ terminal # <<>> /\ pc = "poll" /\ pc' = "first"
    BY <1>4 DEF ReadKey, operatorVars
  <2>2. OneKeyInv /\ \A b \in Button : KeepsUp(b)
    BY <2>1 DEF GestureInv
  <2>3. stdin = <<>> /\ Len(terminal) = 1 /\ ~polled /\ char = NoKey
    BY <1>0, <2>1, <2>2 DEF OneKeyInv, CharInv
  <2>4. char' = Head(terminal) /\ stdin' = Tail(terminal) /\ terminal' = <<>>
    BY <1>4, <2>3 DEF ReadKey
  <2>5. stdin' = <<>>
    <3>1. terminal \in Seq(Key)
      BY <1>0, SequencesAre
    <3>2. stdin' \in Seq(Key) /\ Len(stdin') = 0
      BY <2>1, <2>3, <2>4, <3>1, HeadTailProperties
    <3> QED BY <3>2, EmptySeq
  <2>6. OneKeyInv'
    BY <2>1, <2>3, <2>4, <2>5 DEF OneKeyInv
  <2>7. \A b \in Button : Waiting(b)' <=> Waiting(b)
    BY <2>1, <2>3, <2>4, ButtonIsKey DEF Waiting
  <2> QED BY <2>1, <2>2, <2>3, <2>6, <2>7, LeftAlone
<1>5. CASE FinalizeBeforeKey
  <2>1. /\ UNCHANGED <<terminal, stdin, char, polled, typed, typed_age, late>>
        /\ pc = "first" /\ Finalized({d \in Button : Expired(d)})
    BY <1>5 DEF FinalizeBeforeKey, operatorVars
  <2>2. OneKeyInv /\ \A b \in Button : KeepsUp(b)
    BY <2>1 DEF GestureInv
  <2>3. OneKeyInv'
    BY <2>1, <2>2 DEF OneKeyInv
  <2>4. \A b \in Button : Waiting(b)' <=> Waiting(b)
    BY <2>1 DEF Waiting
  <2> QED BY <1>0, <2>1, <2>2, <2>3, <2>4, KeepsUpFinalized
<1>6. CASE ProcessKey
  <2>1. /\ UNCHANGED <<terminal, stdin, polled, typed, typed_age, late>>
        /\ pc = "key" /\ char' = NoKey
    BY <1>6 DEF ProcessKey, operatorVars
  <2>2. OneKeyInv /\ \A b \in Button : KeepsUp(b)
    BY <2>1 DEF GestureInv
  <2>3. terminal = <<>> /\ ~polled
    BY <2>1, <2>2 DEF OneKeyInv
  <2>4. OneKeyInv'
    BY <2>1, <2>2, <2>3 DEF OneKeyInv
  <2>5. ASSUME NEW b \in Button PROVE KeepsUp(b)'
    <3>1. ~(Waiting(b)') /\ (Waiting(b) <=> char = b)
      BY <2>1, <2>3, ButtonIsKey DEF Waiting
    <3>2. CASE char = b
      <4>1. Pressed(b)
        BY <1>6, <3>2 DEF ProcessKey, Button
      <4> QED BY <1>0, <2>1, <2>2, <2>3, <3>1, <3>2, <4>1, KeepsUpPressed
    <3>3. CASE char # b
      <4>1. press'[b] = press[b] /\ handled'[b] = handled[b]
        <5>1. CASE char \in Button /\ Pressed(char)
          <6>1. press' = [press EXCEPT ![char] = WithPress(char)]
                /\ (handled' = [handled EXCEPT ![char] = Handled(char)] \/ handled' = handled)
            BY <5>1 DEF Pressed
          <6> QED BY <1>0, <3>3, <6>1 DEF TypeOK
        <5>2. CASE UNCHANGED <<press, handled>>
          BY <5>2
        <5> QED BY <1>6, <5>1, <5>2 DEF ProcessKey
      <4> QED BY <2>1, <2>2, <2>3, <3>1, <3>3, <4>1, LeftAlone
    <3> QED BY <3>2, <3>3
  <2> QED BY <2>4, <2>5
<1>7. CASE FinalizeAfterKey
  <2>1. /\ UNCHANGED <<terminal, stdin, char, typed, typed_age, late>>
        /\ pc = "last" /\ pc' = "poll" /\ Finalized({d \in Button : Expired(d)})
    BY <1>7 DEF FinalizeAfterKey, operatorVars
  <2>2. OneKeyInv /\ \A b \in Button : KeepsUp(b)
    BY <2>1 DEF GestureInv
  <2>3. OneKeyInv'
    BY <2>1, <2>2 DEF OneKeyInv
  <2>4. \A b \in Button : Waiting(b)' <=> Waiting(b)
    BY <2>1 DEF Waiting
  <2> QED BY <1>0, <2>1, <2>2, <2>3, <2>4, KeepsUpFinalized
<1>8. CASE UNCHANGED vars
  <2>1. UNCHANGED <<terminal, stdin, char, pc, polled, press, handled, typed, typed_age, late>>
    BY <1>8 DEF vars, loopVars, operatorVars
  <2>2. OneKeyInv /\ \A b \in Button : KeepsUp(b)
    BY <2>1 DEF GestureInv
  <2>3. OneKeyInv'
    BY <2>1, <2>2 DEF OneKeyInv
  <2>4. \A b \in Button : Waiting(b)' <=> Waiting(b)
    BY <2>1 DEF Waiting
  <2> QED BY <2>1, <2>2, <2>3, <2>4, LeftAlone
<1>9. ASSUME NEW b \in Button, HandlerRaises(b) PROVE FALSE
  BY <1>9 DEF HandlerRaises
<1> QED BY <1>1, <1>2, <1>3, <1>4, <1>5, <1>6, <1>7, <1>8, <1>9 DEF Next, Iterate, Stopped

LEMMA GestureInvariant == Spec => []GestureInv
<1>1. TypeInv /\ GestureInv /\ [Next]_vars => GestureInv'
  BY GestureStep
<1> QED BY GestureInit, TypeInvariant, <1>1, PTL DEF Spec

\* While the loop keeps up with the operator and no handler raises, every gesture
\* it handles is the one typed, press for press and in order, whatever the
\* window and however the presses of the two buttons are interleaved.
THEOREM HandlesWhatIsTyped == Spec => []GesturesAreTyped
<1>1. TypeInv /\ GestureInv => GesturesAreTyped
  <2> SUFFICES ASSUME TypeInv, GestureInv, ~late, NEW b \in Button
               PROVE  /\ Len(handled[b]) <= Len(typed[b])
                      /\ \A i \in DOMAIN handled[b] :
                           /\ handled[b][i].taps = typed[b][i]
                           /\ handled[b][i].event = EventFor(b, typed[b][i])
    BY DEF GesturesAreTyped
  <2>1. TypeOK /\ HandledAsTyped(b) /\ LeftToHandle(b)
    BY DEF TypeInv, GestureInv, KeepsUp
  <2>2. Len(handled[b]) \in Nat /\ Len(typed[b]) \in Nat
        /\ DOMAIN handled[b] = 1 .. Len(handled[b])
    BY <2>1, SequencesAre, LenProperties
  <2>3. Len(handled[b]) <= Len(typed[b])
    BY <2>1, <2>2 DEF LeftToHandle
  <2> QED BY <2>1, <2>2, <2>3 DEF HandledAsTyped
<1> QED BY TypeInvariant, GestureInvariant, <1>1, PTL

-----------------------------------------------------------------------------
(* Sums.  The library's induction theorems take an operator, which the     *)
(* provers cannot instantiate; this one takes a set of numbers.            *)

LEMMA NatSetInduction ==
  ASSUME NEW S, 0 \in S, \A n \in Nat : n \in S => n + 1 \in S
  PROVE  Nat \subseteq S
<1> DEFINE T == Nat \ S
           R == {ss \in Nat \X Nat : ss[1] < ss[2]}
<1> SUFFICES ASSUME T # {} PROVE FALSE
  OBVIOUS
<1>1. IsWellFoundedOn(R, Nat)
  BY NatLessThanWellFounded DEF OpToRel
<1> HIDE DEF R, T
<1>2. T \subseteq Nat
  BY DEF T
<1>3. PICK x \in T : \A y \in T : ~(<<y, x>> \in R)
  BY <1>1, <1>2, WFMin
<1>4. x \in Nat \ S /\ x # 0
  BY DEF T
<1>5. x - 1 \in Nat /\ x - 1 < x /\ (x - 1) + 1 = x
  BY <1>4
<1>6. x - 1 \in T
  BY <1>4, <1>5 DEF T
<1>7. <<x - 1, x>> \in R
  BY <1>4, <1>5 DEF R
<1> QED BY <1>3, <1>6, <1>7

LEMMA FunctionIsSeq ==
  ASSUME NEW n \in Nat, NEW S, NEW f \in [1 .. n -> S]
  PROVE  f \in Seq(S) /\ Len(f) = n
<1>1. f \in Seq(S)
  BY SeqDef
<1>2. DOMAIN f = 1 .. n /\ DOMAIN f = 1 .. Len(f) /\ Len(f) \in Nat
  BY <1>1, LenProperties
<1> QED BY <1>1, <1>2

\* f is the function of the partial sums of the first m elements of s.
Sums(s, m, f) ==
  /\ f \in [0 .. m -> Int]
  /\ f[0] = 0
  /\ \A n \in 1 .. m : f[n] = f[n - 1] + s[n]

LEMMA SumsExist ==
  ASSUME NEW s \in Seq(Int)
  PROVE  \E f : Sums(s, Len(s), f)
<1> DEFINE S == {m \in Nat : m <= Len(s) => \E f : Sums(s, m, f)}
<1>0. Len(s) \in Nat
  BY LenProperties
<1>1. 0 \in S
  <2> DEFINE f == [n \in 0 .. 0 |-> 0]
  <2>1. Sums(s, 0, f)
    BY DEF Sums
  <2> QED BY <2>1
<1>2. ASSUME NEW m \in Nat, m \in S PROVE m + 1 \in S
  <2> SUFFICES ASSUME m + 1 <= Len(s) PROVE \E g : Sums(s, m + 1, g)
    OBVIOUS
  <2>1. PICK f : Sums(s, m, f)
    BY <1>0, <1>2
  <2>2. m + 1 \in 1 .. Len(s)
    BY <1>0
  <2>3. s[m + 1] \in Int
    BY <2>2, ElementOfSeq
  <2> DEFINE g == [n \in 0 .. m + 1 |-> IF n = m + 1 THEN f[m] + s[m + 1] ELSE f[n]]
  <2>4. g \in [0 .. m + 1 -> Int] /\ g[0] = 0
    BY <2>1, <2>3 DEF Sums
  <2>5. ASSUME NEW n \in 1 .. m + 1 PROVE g[n] = g[n - 1] + s[n]
    BY <2>1 DEF Sums
  <2> HIDE DEF g
  <2>6. Sums(s, m + 1, g)
    BY <2>4, <2>5 DEF Sums
  <2> QED BY <2>6
<1> HIDE DEF S
<1>3. Nat \subseteq S
  BY <1>1, <1>2, NatSetInduction
<1> QED BY <1>0, <1>3 DEF S

LEMMA TotalIs ==
  ASSUME NEW s \in Seq(Int), NEW f, Sums(s, Len(s), f)
  PROVE  Total(s) = f[Len(s)] /\ Total(s) \in Int
<1>0. Len(s) \in Nat
  BY LenProperties
<1> DEFINE Prefixes(g) == [n \in 0 .. Len(s) |-> IF n = 0 THEN 0 ELSE g[n - 1] + s[n]]
           sum == CHOOSE g : g = Prefixes(g)
<1>1. f = Prefixes(f)
  <2>1. f = [n \in 0 .. Len(s) |-> f[n]]
    BY DEF Sums
  <2>2. \A n \in 0 .. Len(s) : f[n] = IF n = 0 THEN 0 ELSE f[n - 1] + s[n]
    BY <1>0 DEF Sums
  <2> QED BY <2>1, <2>2
<1>2. sum = Prefixes(sum)
  <2> HIDE DEF Next
  <2> QED BY <1>1
<1>3. Total(s) = sum[Len(s)]
  BY DEF Total
<1> HIDE DEF sum
<1>4. sum[0] = 0 /\ \A n \in 1 .. Len(s) : sum[n] = sum[n - 1] + s[n]
  <2>1. \A n \in 0 .. Len(s) : sum[n] = IF n = 0 THEN 0 ELSE sum[n - 1] + s[n]
    BY <1>2
  <2> QED BY <1>0, <2>1
<1> DEFINE S == {m \in Nat : m <= Len(s) => sum[m] = f[m]}
<1>5. 0 \in S
  BY <1>4 DEF Sums
<1>6. ASSUME NEW m \in Nat, m \in S PROVE m + 1 \in S
  <2> SUFFICES ASSUME m + 1 <= Len(s) PROVE sum[m + 1] = f[m + 1]
    OBVIOUS
  <2>1. m + 1 \in 1 .. Len(s) /\ (m + 1) - 1 = m /\ sum[m] = f[m]
    BY <1>0, <1>6
  <2> QED BY <1>4, <2>1 DEF Sums
<1> HIDE DEF S
<1>7. Nat \subseteq S
  BY <1>5, <1>6, NatSetInduction
<1>8. sum[Len(s)] = f[Len(s)]
  BY <1>0, <1>7 DEF S
<1> QED BY <1>0, <1>3, <1>8 DEF Sums

LEMMA TotalEmpty ==
  ASSUME NEW s \in Seq(Int), Len(s) = 0
  PROVE  Total(s) = 0
<1>1. PICK f : Sums(s, Len(s), f)
  BY SumsExist
<1> QED BY <1>1, TotalIs DEF Sums

\* What a number at the end adds.
LEMMA TotalGrows ==
  ASSUME NEW s \in Seq(Int), NEW t \in Seq(Int), Len(t) = Len(s) + 1,
         \A i \in 1 .. Len(s) : t[i] = s[i]
  PROVE  Total(t) = Total(s) + t[Len(t)] /\ Total(s) \in Int /\ Total(t) \in Int
<1>0. Len(s) \in Nat
  BY LenProperties
<1>1. PICK f : Sums(s, Len(s), f)
  BY SumsExist
<1>2. PICK g : Sums(t, Len(t), g)
  BY SumsExist
<1> DEFINE h == [n \in 0 .. Len(s) |-> g[n]]
<1>3. h \in [0 .. Len(s) -> Int] /\ h[0] = 0 /\ h[Len(s)] = g[Len(s)]
  BY <1>0, <1>2 DEF Sums
<1>4. ASSUME NEW n \in 1 .. Len(s) PROVE h[n] = h[n - 1] + s[n]
  <2>1. n \in 1 .. Len(t) /\ n - 1 \in 0 .. Len(s)
    BY <1>0
  <2> QED BY <1>2, <2>1 DEF Sums
<1> HIDE DEF h
<1>5. Sums(s, Len(s), h)
  BY <1>3, <1>4 DEF Sums
<1>6. Total(s) = g[Len(s)] /\ Total(s) \in Int
  BY <1>3, <1>5, TotalIs
<1>7. Total(t) = g[Len(t)] /\ Total(t) \in Int
  BY <1>2, TotalIs
<1>8. g[Len(t)] = g[Len(s)] + t[Len(t)]
  <2>1. Len(t) \in 1 .. Len(t) /\ Len(t) - 1 = Len(s)
    BY <1>0
  <2> QED BY <1>2, <2>1 DEF Sums
<1> QED BY <1>6, <1>7, <1>8

\* What another number at the end makes of the sum.
LEMMA TotalChanges ==
  ASSUME NEW s \in Seq(Int), NEW t \in Seq(Int), Len(t) = Len(s), Len(s) > 0,
         \A i \in 1 .. Len(s) - 1 : t[i] = s[i]
  PROVE  Total(t) = Total(s) - s[Len(s)] + t[Len(s)]
<1>0. Len(s) \in Nat /\ Len(s) - 1 \in Nat
  BY LenProperties
<1> DEFINE r == [i \in 1 .. Len(s) - 1 |-> s[i]]
<1>1. r \in Seq(Int) /\ Len(r) = Len(s) - 1
  <2>1. \A i \in 1 .. Len(s) - 1 : s[i] \in Int
    BY <1>0, ElementOfSeq
  <2>2. r \in [1 .. Len(s) - 1 -> Int]
    BY <2>1
  <2> QED BY <1>0, <2>2, FunctionIsSeq
<1>2. \A i \in 1 .. Len(r) : r[i] = s[i] /\ r[i] = t[i]
  BY <1>1
<1> HIDE DEF r
<1>6. Len(s) = Len(r) + 1 /\ Len(t) = Len(r) + 1
  BY <1>0, <1>1
<1>3. Total(s) = Total(r) + s[Len(s)] /\ Total(r) \in Int
  BY <1>1, <1>2, <1>6, TotalGrows
<1>4. Total(t) = Total(r) + t[Len(s)]
  BY <1>1, <1>2, <1>6, TotalGrows
<1>5. s[Len(s)] \in Int /\ t[Len(s)] \in Int
  <2>1. Len(s) \in 1 .. Len(s)
    BY <1>0
  <2> QED BY <2>1, ElementOfSeq
<1> QED BY <1>3, <1>4, <1>5

\* What a number at the front adds.
LEMMA TotalOfTail ==
  ASSUME NEW s \in Seq(Int), NEW t \in Seq(Int), Len(t) = Len(s) - 1,
         \A i \in 1 .. Len(t) : t[i] = s[i + 1]
  PROVE  Total(s) = s[1] + Total(t) /\ Total(s) \in Int /\ Total(t) \in Int
<1>0. Len(s) \in Nat /\ Len(t) \in Nat /\ Len(s) = Len(t) + 1
  BY LenProperties
<1>1. PICK f : Sums(s, Len(s), f)
  BY SumsExist
<1>2. s[1] \in Int
  <2>1. 1 \in 1 .. Len(s)
    BY <1>0
  <2> QED BY <2>1, ElementOfSeq
<1> DEFINE g == [n \in 0 .. Len(t) |-> f[n + 1] - s[1]]
<1>3. f \in [0 .. Len(s) -> Int] /\ f[0] = 0
      /\ \A n \in 1 .. Len(s) : f[n] = f[n - 1] + s[n]
  BY <1>1 DEF Sums
<1>4. g \in [0 .. Len(t) -> Int]
  BY <1>0, <1>2, <1>3
<1>5. g[0] = 0 /\ g[Len(t)] = f[Len(s)] - s[1]
  <2>1. 1 \in 1 .. Len(s) /\ 1 - 1 = 0
    BY <1>0
  <2>2. f[1] = s[1]
    BY <1>2, <1>3, <2>1
  <2> QED BY <1>0, <1>2, <2>2
<1>6. ASSUME NEW n \in 1 .. Len(t) PROVE g[n] = g[n - 1] + t[n]
  <2>1. n + 1 \in 1 .. Len(s) /\ (n + 1) - 1 = n /\ n \in 0 .. Len(s)
    BY <1>0
  <2>2. f[n + 1] = f[n] + s[n + 1] /\ f[n] \in Int /\ f[n + 1] \in Int
    <3>1. f[n + 1] = f[(n + 1) - 1] + s[n + 1]
      BY <1>3, <2>1
    <3>2. n + 1 \in 0 .. Len(s)
      BY <2>1
    <3> QED BY <1>3, <2>1, <3>1, <3>2
  <2>3. g[n] = f[n + 1] - s[1] /\ g[n - 1] = f[n] - s[1]
    BY <1>0
  <2>4. t[n] = s[n + 1] /\ t[n] \in Int
    BY ElementOfSeq
  <2>5. g[n] = (f[n] + t[n]) - s[1] /\ f[n] \in Int
    BY <2>2, <2>3, <2>4
  <2> DEFINE x == f[n]
             y == t[n]
             z == s[1]
  <2>6. x \in Int /\ y \in Int /\ z \in Int
    BY <1>2, <2>2, <2>4
  <2> HIDE DEF x, y, z
  <2>7. (x + y) - z = (x - z) + y
    BY <2>6
  <2> QED BY <2>3, <2>5, <2>7 DEF x, y, z
<1> HIDE DEF g
<1>7. Sums(t, Len(t), g)
  BY <1>4, <1>5, <1>6 DEF Sums
<1>8. Total(t) = f[Len(s)] - s[1] /\ Total(t) \in Int
  BY <1>5, <1>7, TotalIs
<1>9. Total(s) = f[Len(s)] /\ Total(s) \in Int
  BY <1>1, TotalIs
<1> QED BY <1>2, <1>8, <1>9

-----------------------------------------------------------------------------
(* Presses.  They move from the terminal to the buffer of standard input,  *)
(* into the loop, into a pending gesture and to the gestures handled.      *)

Conserved(b) ==
  Total(typed[b]) = Total(TapsOf(handled[b])) + press[b].taps + Unread(b) + dropped[b]

ConservedInv == (\A b \in Button : Conserved(b)) /\ dropped["s"] + dropped["v"] <= raises

Chars == stdin \o terminal

LEMMA TotalIsInt ==
  ASSUME NEW s \in Seq(Int)
  PROVE  Total(s) \in Int
<1>1. PICK f : Sums(s, Len(s), f)
  BY SumsExist
<1> QED BY <1>1, TotalIs

LEMMA TapsOfGestures ==
  ASSUME NEW h \in Seq([taps : 1 .. MaxKeys, event : Event])
  PROVE  /\ TapsOf(h) \in Seq(Int) /\ Len(TapsOf(h)) = Len(h)
         /\ \A i \in 1 .. Len(h) : TapsOf(h)[i] = h[i].taps
         /\ Total(TapsOf(h)) \in Int
<1>1. Len(h) \in Nat
  BY LenProperties
<1>2. ASSUME NEW i \in 1 .. Len(h) PROVE h[i].taps \in Int
  <2>1. h[i] \in [taps : 1 .. MaxKeys, event : Event]
    BY ElementOfSeq
  <2>2. h[i].taps \in 1 .. MaxKeys /\ MaxKeys \in Nat
    BY <2>1, TimingAssumption
  <2> QED BY <2>2
<1>3. TapsOf(h) \in [1 .. Len(h) -> Int] /\ \A i \in 1 .. Len(h) : TapsOf(h)[i] = h[i].taps
  BY <1>2 DEF TapsOf
<1>4. TapsOf(h) \in Seq(Int) /\ Len(TapsOf(h)) = Len(h)
  BY <1>1, <1>3, FunctionIsSeq
<1> QED BY <1>3, <1>4, TotalIsInt

LEMMA PressesOfChars ==
  ASSUME NEW chars \in Seq(Key), NEW b
  PROVE  /\ PressesOf(b, chars) \in Seq(Int) /\ Len(PressesOf(b, chars)) = Len(chars)
         /\ \A i \in 1 .. Len(chars) : PressesOf(b, chars)[i] = IF chars[i] = b THEN 1 ELSE 0
         /\ Total(PressesOf(b, chars)) \in Int
<1>1. Len(chars) \in Nat
  BY LenProperties
<1>2. /\ PressesOf(b, chars) \in [1 .. Len(chars) -> Int]
      /\ \A i \in 1 .. Len(chars) : PressesOf(b, chars)[i] = IF chars[i] = b THEN 1 ELSE 0
  BY DEF PressesOf
<1>3. PressesOf(b, chars) \in Seq(Int) /\ Len(PressesOf(b, chars)) = Len(chars)
  BY <1>1, <1>2, FunctionIsSeq
<1> QED BY <1>2, <1>3, TotalIsInt

LEMMA CharsTyped ==
  ASSUME TypeOK
  PROVE  /\ Chars \in Seq(Key) /\ Len(Chars) = Len(stdin) + Len(terminal)
         /\ \A i \in 1 .. Len(Chars) :
              Chars[i] = IF i <= Len(stdin) THEN stdin[i] ELSE terminal[i - Len(stdin)]
  BY SequencesAre, ConcatProperties DEF Chars

\* All the terms of the sum are numbers.
LEMMA TermsAre ==
  ASSUME TypeOK, NEW b \in Button
  PROVE  /\ Total(typed[b]) \in Int /\ Total(TapsOf(handled[b])) \in Int
         /\ press[b].taps \in Int /\ Total(PressesOf(b, Chars)) \in Int /\ InProcess(b) \in Int
         /\ Unread(b) = Total(PressesOf(b, Chars)) + InProcess(b)
         /\ dropped[b] \in Int
<1>1. typed[b] \in Seq(Int)
  <2>1. 1 .. MaxKeys \subseteq Int
    OBVIOUS
  <2> QED BY <2>1, SequencesAre, SeqMonotonic
<1>2. InProcess(b) \in Int
  BY DEF InProcess
<1>3. Total(typed[b]) \in Int
  BY <1>1, TotalIsInt
<1>4. Total(TapsOf(handled[b])) \in Int
  BY SequencesAre, TapsOfGestures
<1>5. Total(PressesOf(b, Chars)) \in Int
  BY CharsTyped, PressesOfChars
<1>6. Unread(b) = Total(PressesOf(b, Chars)) + InProcess(b)
  BY DEF Unread, Chars
<1>7. dropped[b] \in Int
  <2>1. dropped[b] \in Nat
    BY DEF TypeOK
  <2> QED BY <2>1
<1> QED BY <1>2, <1>3, <1>4, <1>5, <1>6, <1>7, PressTyped

LEMMA HandledTaps ==
  ASSUME TypeOK, NEW b \in Button, Pending(b)
  PROVE  Total(TapsOf(Handled(b))) = Total(TapsOf(handled[b])) + press[b].taps
<1> DEFINE h == handled[b]
           g == Handled(b)
<1>1. /\ h \in Seq([taps : 1 .. MaxKeys, event : Event]) /\ Len(h) \in Nat
      /\ g \in Seq([taps : 1 .. MaxKeys, event : Event])
      /\ Len(g) = Len(h) + 1 /\ (\A i \in 1 .. Len(h) : g[i] = h[i])
      /\ g[Len(g)].taps = press[b].taps
  BY SequencesAre, HandledGestures
<1> HIDE DEF h, g
<1>2. /\ TapsOf(h) \in Seq(Int) /\ Len(TapsOf(h)) = Len(h)
      /\ \A i \in 1 .. Len(h) : TapsOf(h)[i] = h[i].taps
  BY <1>1, TapsOfGestures
<1>3. /\ TapsOf(g) \in Seq(Int) /\ Len(TapsOf(g)) = Len(g)
      /\ \A i \in 1 .. Len(g) : TapsOf(g)[i] = g[i].taps
  BY <1>1, TapsOfGestures
<1>4. \A i \in 1 .. Len(h) : i \in 1 .. Len(g)
  BY <1>1
<1>5. \A i \in 1 .. Len(h) : TapsOf(g)[i] = TapsOf(h)[i]
  BY <1>1, <1>2, <1>3, <1>4
<1>6. Len(g) \in 1 .. Len(g)
  BY <1>1
<1>7. Total(TapsOf(g)) = Total(TapsOf(h)) + TapsOf(g)[Len(g)]
  <2> DEFINE s == TapsOf(h)
             t == TapsOf(g)
  <2>1. /\ s \in Seq(Int) /\ t \in Seq(Int) /\ Len(t) = Len(s) + 1 /\ Len(t) = Len(g)
        /\ \A i \in 1 .. Len(s) : t[i] = s[i]
    BY <1>1, <1>2, <1>3, <1>5
  <2> HIDE DEF s, t
  <2>2. Total(t) = Total(s) + t[Len(t)]
    BY <2>1, TotalGrows
  <2> QED BY <2>1, <2>2 DEF s, t
<1> QED BY <1>1, <1>3, <1>6, <1>7 DEF h, g

\* Nothing is typed or read: presses move between the key in process, the
\* gestures and what is dropped.
LEMMA ConservedInside ==
  ASSUME TypeOK, TypeOK', NEW b \in Button, Conserved(b),
         typed'[b] = typed[b], stdin' = stdin, terminal' = terminal,
         Total(TapsOf(handled'[b])) + press'[b].taps + InProcess(b)' + dropped'[b]
           = Total(TapsOf(handled[b])) + press[b].taps + InProcess(b) + dropped[b]
  PROVE  Conserved(b)'
<1>1. Chars' = Chars
  BY DEF Chars
<1>2. /\ Total(TapsOf(handled'[b])) \in Int /\ press'[b].taps \in Int /\ InProcess(b)' \in Int
      /\ Unread(b)' = Total(PressesOf(b, Chars)) + InProcess(b)'
      /\ dropped'[b] \in Int
  <2>1. handled'[b] \in Seq([taps : 1 .. MaxKeys, event : Event])
    BY DEF TypeOK
  <2>2. Total(TapsOf(handled'[b])) \in Int
    BY <2>1, TapsOfGestures
  <2>3. press'[b].taps \in 0 .. MaxKeys
    BY DEF TypeOK
  <2>4. press'[b].taps \in Int
    BY <2>3
  <2>5. Unread(b)' = Total(PressesOf(b, Chars')) + InProcess(b)' /\ InProcess(b)' \in Int
    BY DEF Unread, Chars, InProcess
  <2>6. dropped'[b] \in Nat
    BY DEF TypeOK
  <2>7. dropped'[b] \in Int
    BY <2>6
  <2> QED BY <1>1, <2>2, <2>4, <2>5, <2>7
<1> DEFINE t == Total(typed[b])
           h == Total(TapsOf(handled[b]))
           p == press[b].taps
           u == Total(PressesOf(b, Chars))
           i == InProcess(b)
           h1 == Total(TapsOf(handled'[b]))
           p1 == press'[b].taps
           i1 == InProcess(b)'
           d == dropped[b]
           d1 == dropped'[b]
<1>3. /\ t \in Int /\ h \in Int /\ p \in Int /\ u \in Int /\ i \in Int
      /\ h1 \in Int /\ p1 \in Int /\ i1 \in Int /\ d \in Int /\ d1 \in Int
      /\ t = h + p + (u + i) + d /\ h1 + p1 + i1 + d1 = h + p + i + d
  BY <1>2, TermsAre DEF Conserved
<1>4. SUFFICES t = h1 + p1 + (u + i1) + d1
  BY <1>2 DEF Conserved
<1> HIDE DEF t, h, p, u, i, h1, p1, i1, d, d1
<1> QED BY <1>3

\* The case that nothing is dropped.
LEMMA ConservedWithin ==
  ASSUME TypeOK, TypeOK', NEW b \in Button, Conserved(b), dropped' = dropped,
         typed'[b] = typed[b], stdin' = stdin, terminal' = terminal,
         Total(TapsOf(handled'[b])) + press'[b].taps + InProcess(b)'
           = Total(TapsOf(handled[b])) + press[b].taps + InProcess(b)
  PROVE  Conserved(b)'
  BY ConservedInside

\* A key typed is unread.
LEMMA ConservedTyping ==
  ASSUME TypeInv, NEW k \in Key, Type(k), NEW b \in Button, Conserved(b)
  PROVE  Conserved(b)'
<1>0. TypeOK /\ TypeOK' /\ keys < MaxKeys
  BY TypeTyping DEF TypeInv, Type
<1> DEFINE one == IF k = b THEN 1 ELSE 0
<1>1. terminal' = Append(terminal, k) /\ UNCHANGED <<stdin, char, press, handled>>
  BY DEF Type
<1>2. /\ Chars' \in Seq(Key) /\ Len(Chars') = Len(Chars) + 1 /\ Len(Chars) \in Nat
      /\ Chars'[Len(Chars')] = k
      /\ \A i \in 1 .. Len(Chars) : Chars'[i] = Chars[i]
  <2>1. /\ terminal \in Seq(Key) /\ stdin \in Seq(Key)
        /\ Len(terminal) \in Nat /\ Len(stdin) \in Nat
    BY <1>0, SequencesAre
  <2>2. /\ terminal' \in Seq(Key) /\ Len(terminal') = Len(terminal) + 1
        /\ terminal'[Len(terminal) + 1] = k
        /\ \A i \in 1 .. Len(terminal) : terminal'[i] = terminal[i]
    BY <1>1, <2>1, AppendProperties
  <2>3. /\ Chars' \in Seq(Key) /\ Len(Chars') = Len(stdin) + Len(terminal')
        /\ \A i \in 1 .. Len(stdin) + Len(terminal') :
             Chars'[i] = IF i <= Len(stdin) THEN stdin[i] ELSE terminal'[i - Len(stdin)]
    BY <1>1, <2>1, <2>2, ConcatProperties DEF Chars
  <2>4. /\ Len(Chars) = Len(stdin) + Len(terminal)
        /\ \A i \in 1 .. Len(Chars) :
             Chars[i] = IF i <= Len(stdin) THEN stdin[i] ELSE terminal[i - Len(stdin)]
    BY <1>0, CharsTyped
  <2>5. ASSUME NEW i \in 1 .. Len(Chars) PROVE Chars'[i] = Chars[i]
    <3>1. CASE i <= Len(stdin)
      BY <2>1, <2>2, <2>3, <2>4, <3>1
    <3>2. CASE ~(i <= Len(stdin))
      <4>1. i - Len(stdin) \in 1 .. Len(terminal) /\ i \in 1 .. Len(stdin) + Len(terminal')
        BY <2>1, <2>2, <2>4, <3>2
      <4> QED BY <2>2, <2>3, <2>4, <3>2, <4>1
    <3> QED BY <3>1, <3>2
  <2>6. Chars'[Len(Chars')] = k
    <3>1. /\ Len(Chars') \in 1 .. Len(stdin) + Len(terminal')
          /\ ~(Len(Chars') <= Len(stdin)) /\ Len(Chars') - Len(stdin) = Len(terminal) + 1
      BY <2>1, <2>2, <2>3
    <3> QED BY <2>2, <2>3, <3>1
  <2> QED BY <2>1, <2>2, <2>3, <2>4, <2>5, <2>6
<1>3. Total(PressesOf(b, Chars')) = Total(PressesOf(b, Chars)) + one
  <2> DEFINE s == PressesOf(b, Chars)
             t == PressesOf(b, Chars')
  <2>1. /\ s \in Seq(Int) /\ Len(s) = Len(Chars)
        /\ \A i \in 1 .. Len(Chars) : s[i] = IF Chars[i] = b THEN 1 ELSE 0
    BY <1>0, CharsTyped, PressesOfChars
  <2>2. /\ t \in Seq(Int) /\ Len(t) = Len(Chars')
        /\ \A i \in 1 .. Len(Chars') : t[i] = IF Chars'[i] = b THEN 1 ELSE 0
    BY <1>2, PressesOfChars
  <2>3. Len(Chars') \in 1 .. Len(Chars') /\ \A i \in 1 .. Len(Chars) : i \in 1 .. Len(Chars')
    BY <1>2
  <2>4. t[Len(t)] = one /\ \A i \in 1 .. Len(s) : t[i] = s[i]
    BY <1>2, <2>1, <2>2, <2>3
  <2> HIDE DEF s, t
  <2>5. Len(t) = Len(s) + 1
    BY <1>2, <2>1, <2>2
  <2>6. Total(t) = Total(s) + t[Len(t)]
    BY <2>1, <2>2, <2>4, <2>5, TotalGrows
  <2> QED BY <2>4, <2>6 DEF s, t
<1>4. Total(typed'[b]) = Total(typed[b]) + one
  <2>1. CASE k = b
    <3>1. typed'[b] = Typed(b)
      <4>1. typed' = [typed EXCEPT ![b] = Typed(b)]
        BY <2>1 DEF Type
      <4> QED BY <1>0, <4>1 DEF TypeOK
    <3> DEFINE s == typed[b]
               t == typed'[b]
    <3>2. s \in Seq(Int) /\ t \in Seq(Int) /\ Len(s) \in Nat
          /\ \A i \in 1 .. Len(s) : s[i] \in Nat
      <4>1. 1 .. MaxKeys \subseteq Int
        OBVIOUS
      <4>2. s \in Seq(1 .. MaxKeys) /\ t \in Seq(1 .. MaxKeys)
        BY <1>0 DEF TypeOK
      <4> QED BY <1>0, <4>1, <4>2, SeqMonotonic, SequencesAre
    <3>3. CASE typed[b] # <<>> /\ typed_age[b] <= Window
      <4>1. /\ Len(s) > 0 /\ Len(t) = Len(s) /\ t[Len(s)] = s[Len(s)] + 1
            /\ \A i \in 1 .. Len(s) - 1 : t[i] = s[i]
        BY <1>0, <3>1, <3>3, TypedGroups
      <4> HIDE DEF s, t
      <4>2. Total(t) = Total(s) - s[Len(s)] + t[Len(s)]
        BY <3>2, <4>1, TotalChanges
      <4>3. Total(s) \in Int /\ s[Len(s)] \in Nat
        <5>1. Len(s) \in 1 .. Len(s)
          BY <3>2, <4>1
        <5> QED BY <3>2, <5>1, TotalIsInt
      <4>4. Total(t) = Total(s) + 1
        BY <4>1, <4>2, <4>3
      <4> QED BY <2>1, <4>4 DEF s, t
    <3>4. CASE ~(typed[b] # <<>> /\ typed_age[b] <= Window)
      <4>1. /\ Len(t) = Len(s) + 1 /\ t[Len(s) + 1] = 1
            /\ \A i \in 1 .. Len(s) : t[i] = s[i]
        BY <1>0, <3>1, <3>4, TypedGroups
      <4> HIDE DEF s, t
      <4>2. Total(t) = Total(s) + 1
        BY <3>2, <4>1, TotalGrows
      <4> QED BY <2>1, <4>2 DEF s, t
    <3> QED BY <3>3, <3>4
  <2>2. CASE k # b
    <3>1. typed'[b] = typed[b]
      BY <1>0, <2>2 DEF Type, TypeOK
    <3> QED BY <1>0, <2>2, <3>1, TermsAre
  <2> QED BY <2>1, <2>2
<1>5. /\ handled'[b] = handled[b] /\ press'[b] = press[b]
      /\ Unread(b)' = Total(PressesOf(b, Chars')) + InProcess(b) /\ dropped'[b] = dropped[b]
  BY <1>1 DEF Type, raiseVars, Unread, Chars, InProcess
<1> DEFINE t == Total(typed[b])
           h == Total(TapsOf(handled[b]))
           p == press[b].taps
           u == Total(PressesOf(b, Chars))
           i == InProcess(b)
           d == dropped[b]
<1>6. /\ t \in Int /\ h \in Int /\ p \in Int /\ u \in Int /\ i \in Int /\ one \in Int
      /\ d \in Int /\ t = h + p + (u + i) + d
  BY <1>0, TermsAre DEF Conserved
<1>7. SUFFICES t + one = h + p + ((u + one) + i) + d
  BY <1>3, <1>4, <1>5 DEF Conserved
<1> HIDE DEF t, h, p, u, i, d, one
<1> QED BY <1>6

\* A key read is in process.
LEMMA ConservedReadKey ==
  ASSUME TypeInv, ReadKey, NEW b \in Button, Conserved(b)
  PROVE  Conserved(b)'
<1>0. TypeOK /\ TypeOK' /\ CharInv
  BY TypeReadKey DEF TypeInv
<1> DEFINE chars == IF stdin = <<>> THEN terminal ELSE stdin
           one == IF char' = b THEN 1 ELSE 0
<1>1. /\ char' = Head(chars) /\ stdin' = Tail(chars)
      /\ terminal' = (IF stdin = <<>> THEN <<>> ELSE terminal)
      /\ pc = "poll" /\ UNCHANGED <<press, handled, typed>>
      /\ terminal # <<>>
  BY DEF ReadKey, operatorVars
<1>2. /\ terminal \in Seq(Key) /\ stdin \in Seq(Key)
      /\ Len(terminal) \in Nat /\ Len(stdin) \in Nat
  BY <1>0, SequencesAre
<1>3. /\ chars \in Seq(Key) /\ chars # <<>> /\ Len(chars) \in Nat /\ Len(chars) > 0
      /\ chars[1] = Head(chars)
      /\ Tail(chars) \in Seq(Key) /\ Len(Tail(chars)) = Len(chars) - 1
      /\ \A i \in 1 .. Len(chars) - 1 : Tail(chars)[i] = chars[i + 1]
  <2>1. chars \in Seq(Key) /\ chars # <<>>
    BY <1>1, <1>2
  <2> HIDE DEF chars
  <2>2. Len(chars) \in Nat \ {0} /\ chars[1] = Head(chars)
    BY <2>1, EmptySeq
  <2>3. /\ Tail(chars) \in Seq(Key) /\ Len(Tail(chars)) = Len(chars) - 1
        /\ \A i \in 1 .. Len(Tail(chars)) : Tail(chars)[i] = chars[i + 1]
    BY <2>1, HeadTailProperties
  <2> QED BY <2>1, <2>2, <2>3
<1>4. /\ Len(Chars) = Len(stdin) + Len(terminal)
      /\ \A i \in 1 .. Len(Chars) :
           Chars[i] = IF i <= Len(stdin) THEN stdin[i] ELSE terminal[i - Len(stdin)]
  BY <1>0, CharsTyped
<1>5. /\ Chars' \in Seq(Key) /\ Len(Chars') = Len(stdin') + Len(terminal')
      /\ \A i \in 1 .. Len(Chars') :
           Chars'[i] = IF i <= Len(stdin') THEN stdin'[i] ELSE terminal'[i - Len(stdin')]
  <2>1. stdin' \in Seq(Key) /\ terminal' \in Seq(Key)
    BY <1>0 DEF TypeOK
  <2> QED BY <2>1, ConcatProperties DEF Chars
<1>6. /\ Len(Chars) \in Nat /\ Len(Chars) > 0 /\ Len(Chars') = Len(Chars) - 1
      /\ Chars[1] = char'
      /\ \A i \in 1 .. Len(Chars') : Chars'[i] = Chars[i + 1]
  <2>1. CASE stdin = <<>>
    <3>1. chars = terminal /\ Len(stdin) = 0 /\ terminal' = <<>> /\ Len(terminal') = 0
      BY <1>1, <2>1, EmptySeq
    <3>2. Len(stdin') = Len(terminal) - 1
      BY <1>1, <1>3, <3>1
    <3>3. Len(Chars) = Len(terminal) /\ Len(Chars') = Len(terminal) - 1 /\ Len(terminal) > 0
      BY <1>2, <1>3, <1>4, <1>5, <3>1, <3>2
    <3>4. Chars[1] = char'
      BY <1>1, <1>2, <1>3, <1>4, <3>1, <3>3
    <3>5. ASSUME NEW i \in 1 .. Len(Chars') PROVE Chars'[i] = Chars[i + 1]
      <4>1. /\ i <= Len(stdin') /\ i \in 1 .. Len(terminal) - 1
            /\ i + 1 \in 1 .. Len(Chars) /\ ~(i + 1 <= Len(stdin)) /\ (i + 1) - Len(stdin) = i + 1
        BY <1>2, <3>1, <3>2, <3>3
      <4>2. Chars'[i] = stdin'[i] /\ Chars[i + 1] = terminal[i + 1]
        BY <1>4, <1>5, <4>1
      <4> QED BY <1>1, <1>3, <3>1, <4>1, <4>2
    <3> QED BY <1>2, <3>3, <3>4, <3>5
  <2>2. CASE stdin # <<>>
    <3>1. chars = stdin /\ terminal' = terminal /\ Len(stdin') = Len(stdin) - 1 /\ Len(stdin) > 0
      BY <1>1, <1>3, <2>2
    <3>2. Len(Chars') = Len(Chars) - 1 /\ Len(Chars) > 0
      BY <1>2, <1>4, <1>5, <3>1
    <3>3. Chars[1] = char'
      <4>1. 1 \in 1 .. Len(Chars) /\ 1 <= Len(stdin)
        BY <1>2, <1>4, <3>1
      <4> QED BY <1>1, <1>3, <1>4, <3>1, <4>1
    <3>4. ASSUME NEW i \in 1 .. Len(Chars') PROVE Chars'[i] = Chars[i + 1]
      <4>1. i + 1 \in 1 .. Len(Chars)
        BY <1>2, <1>4, <3>2
      <4>2. CASE i <= Len(stdin')
        <5>1. i + 1 <= Len(stdin) /\ i \in 1 .. Len(stdin) - 1
          BY <1>2, <3>1, <4>2
        <5>2. Chars'[i] = stdin'[i] /\ Chars[i + 1] = stdin[i + 1]
          BY <1>4, <1>5, <4>1, <4>2, <5>1
        <5> QED BY <1>1, <1>3, <3>1, <5>1, <5>2
      <4>3. CASE ~(i <= Len(stdin'))
        <5>1. ~(i + 1 <= Len(stdin)) /\ (i + 1) - Len(stdin) = i - Len(stdin')
          BY <1>2, <3>1, <4>3
        <5> QED BY <1>4, <1>5, <3>1, <4>1, <4>3, <5>1
      <4> QED BY <4>2, <4>3
    <3> QED BY <1>2, <1>4, <3>2, <3>3, <3>4
  <2> QED BY <2>1, <2>2
<1> HIDE DEF chars
<1>7. Total(PressesOf(b, Chars)) = one + Total(PressesOf(b, Chars'))
      /\ Total(PressesOf(b, Chars')) \in Int
  <2> DEFINE s == PressesOf(b, Chars)
             t == PressesOf(b, Chars')
  <2>1. /\ s \in Seq(Int) /\ Len(s) = Len(Chars)
        /\ \A i \in 1 .. Len(Chars) : s[i] = IF Chars[i] = b THEN 1 ELSE 0
    BY <1>0, CharsTyped, PressesOfChars
  <2>2. /\ t \in Seq(Int) /\ Len(t) = Len(Chars')
        /\ \A i \in 1 .. Len(Chars') : t[i] = IF Chars'[i] = b THEN 1 ELSE 0
    <3>1. Chars' \in Seq(Key)
      BY <1>5
    <3> QED BY <3>1, PressesOfChars
  <2>3. 1 \in 1 .. Len(Chars) /\ \A i \in 1 .. Len(Chars') : i + 1 \in 1 .. Len(Chars)
    BY <1>6
  <2>4. s[1] = one /\ \A i \in 1 .. Len(t) : t[i] = s[i + 1]
    BY <1>6, <2>1, <2>2, <2>3
  <2> HIDE DEF s, t
  <2>5. Total(s) = s[1] + Total(t) /\ Total(t) \in Int
    BY <1>6, <2>1, <2>2, <2>4, TotalOfTail
  <2> QED BY <2>4, <2>5 DEF s, t
<1>8. InProcess(b) = 0 /\ InProcess(b)' = one
  <2>1. char = NoKey
    BY <1>0, <1>1 DEF CharInv
  <2> QED BY <2>1, ButtonIsKey DEF InProcess
<1>9. /\ typed'[b] = typed[b] /\ handled'[b] = handled[b] /\ press'[b] = press[b]
      /\ Unread(b)' = Total(PressesOf(b, Chars')) + InProcess(b)' /\ dropped'[b] = dropped[b]
  BY <1>1 DEF ReadKey, raiseVars, Unread, Chars
<1> DEFINE t == Total(typed[b])
           h == Total(TapsOf(handled[b]))
           p == press[b].taps
           u == Total(PressesOf(b, Chars'))
           d == dropped[b]
<1>10. /\ t \in Int /\ h \in Int /\ p \in Int /\ u \in Int /\ one \in Int /\ d \in Int
       /\ t = h + p + ((one + u) + 0) + d
  BY <1>0, <1>7, <1>8, TermsAre DEF Conserved
<1>11. SUFFICES t = h + p + (u + one) + d
  BY <1>8, <1>9 DEF Conserved
<1> HIDE DEF t, h, p, u, d, one
<1> QED BY <1>10

\* A gesture handled takes its presses along; a key may be dropped with it.
LEMMA ConservedFinalized ==
  ASSUME TypeOK, TypeOK', NEW D \in SUBSET Button, \A c \in D : Expired(c), Finalized(D),
         UNCHANGED <<terminal, stdin, typed>>, NEW b \in Button, Conserved(b),
         InProcess(b)' + dropped'[b] = InProcess(b) + dropped[b],
         InProcess(b)' \in Int, dropped'[b] \in Int
  PROVE  Conserved(b)'
<1>1. handled'[b] = (IF b \in D THEN Handled(b) ELSE handled[b])
      /\ press'[b] = (IF b \in D THEN NotPressed ELSE press[b])
  BY DEF Finalized
<1>2. Total(TapsOf(handled'[b])) + press'[b].taps = Total(TapsOf(handled[b])) + press[b].taps
  <2>1. CASE b \in D
    <3>1. Total(TapsOf(handled'[b])) = Total(TapsOf(handled[b])) + press[b].taps
      BY <1>1, <2>1, HandledTaps DEF Expired
    <3>2. press'[b].taps = 0
      BY <1>1, <2>1 DEF NotPressed
    <3> QED BY <3>1, <3>2, TermsAre
  <2>2. CASE b \notin D
    BY <1>1, <2>2
  <2> QED BY <2>1, <2>2
<1> DEFINE h == Total(TapsOf(handled[b]))
           p == press[b].taps
           i == InProcess(b)
           d == dropped[b]
           h1 == Total(TapsOf(handled'[b]))
           p1 == press'[b].taps
           i1 == InProcess(b)'
           d1 == dropped'[b]
<1>3. /\ h \in Int /\ p \in Int /\ i \in Int /\ d \in Int
      /\ h1 \in Int /\ p1 \in Int /\ i1 \in Int /\ d1 \in Int
      /\ h1 + p1 = h + p /\ i1 + d1 = i + d
  <2>1. handled'[b] \in Seq([taps : 1 .. MaxKeys, event : Event]) /\ press'[b].taps \in 0 .. MaxKeys
    BY DEF TypeOK
  <2>2. h1 \in Int
    BY <2>1, TapsOfGestures
  <2>3. p1 \in Int
    BY <2>1
  <2> QED BY <1>2, <2>2, <2>3, TermsAre
<1>4. h1 + p1 + i1 + d1 = h + p + i + d
  <2> HIDE DEF h, p, i, d, h1, p1, i1, d1
  <2> QED BY <1>3
<1> QED BY <1>4, ConservedInside

\* The key in process becomes a press of its button.
LEMMA ConservedProcessKey ==
  ASSUME TypeInv, ProcessKey, NEW b \in Button, Conserved(b)
  PROVE  Conserved(b)'
<1>0. TypeOK /\ TypeOK'
  BY TypeProcessKey DEF TypeInv
<1>1. UNCHANGED <<terminal, stdin, typed, dropped>> /\ char' = NoKey
  BY DEF ProcessKey, operatorVars, raiseVars
<1>2. InProcess(b)' = 0
  BY <1>1, ButtonIsKey DEF InProcess
<1>3. CASE char = b
  <2>1. Pressed(b)
    BY <1>3 DEF ProcessKey, Button
  <2>2. press'[b] = WithPress(b)
    <3>1. press' = [press EXCEPT ![b] = WithPress(b)]
      BY <2>1 DEF Pressed
    <3> QED BY <1>0, <3>1 DEF TypeOK
  <2>3. InProcess(b) = 1
    BY <1>3 DEF InProcess
  <2>4. CASE Expired(b)
    <3>1. handled'[b] = Handled(b)
      <4>1. handled' = [handled EXCEPT ![b] = Handled(b)]
        BY <2>1, <2>4 DEF Pressed
      <4> QED BY <1>0, <4>1 DEF TypeOK
    <3>2. Total(TapsOf(handled'[b])) = Total(TapsOf(handled[b])) + press[b].taps
      BY <1>0, <2>4, <3>1, HandledTaps DEF Expired
    <3>3. press'[b].taps = 1
      BY <2>2, <2>4 DEF WithPress
    <3>4. Total(TapsOf(handled'[b])) + press'[b].taps + InProcess(b)'
            = Total(TapsOf(handled[b])) + press[b].taps + InProcess(b)
      BY <1>0, <1>2, <2>3, <3>2, <3>3, TermsAre
    <3> QED BY <1>0, <1>1, <3>4, ConservedWithin
  <2>5. CASE ~Expired(b)
    <3>1. handled'[b] = handled[b]
      BY <2>1, <2>5 DEF Pressed
    <3>2. press'[b].taps = press[b].taps + 1
      <4>1. CASE Pending(b)
        BY <2>2, <2>5, <4>1 DEF WithPress
      <4>2. CASE ~Pending(b)
        <5>1. press[b].taps = 0
          BY <1>0, <4>2, PressTyped DEF Pending
        <5> QED BY <2>2, <4>2, <5>1 DEF WithPress
      <4> QED BY <4>1, <4>2
    <3>3. Total(TapsOf(handled'[b])) + press'[b].taps + InProcess(b)'
            = Total(TapsOf(handled[b])) + press[b].taps + InProcess(b)
      BY <1>0, <1>2, <2>3, <3>1, <3>2, TermsAre
    <3> QED BY <1>0, <1>1, <3>3, ConservedWithin
  <2> QED BY <2>4, <2>5
<1>4. CASE char # b
  <2>1. InProcess(b) = 0
    BY <1>4 DEF InProcess
  <2>2. press'[b] = press[b] /\ handled'[b] = handled[b]
    <3>1. CASE char \in Button /\ Pressed(char)
      <4>1. press' = [press EXCEPT ![char] = WithPress(char)]
            /\ (handled' = [handled EXCEPT ![char] = Handled(char)] \/ handled' = handled)
        BY <3>1 DEF Pressed
      <4> QED BY <1>0, <1>4, <4>1 DEF TypeOK
    <3>2. CASE UNCHANGED <<press, handled>>
      BY <3>2
    <3> QED BY <3>1, <3>2 DEF ProcessKey
  <2> QED BY <1>0, <1>1, <1>2, <2>1, <2>2, ConservedWithin
<1> QED BY <1>3, <1>4

LEMMA ConservedInit == Init => ConservedInv
<1> SUFFICES ASSUME Init
             PROVE  (\A b \in Button : Conserved(b)) /\ dropped["s"] + dropped["v"] <= raises
  BY DEF ConservedInv
<1>a. dropped["s"] + dropped["v"] <= raises
  <2>1. dropped["s"] = 0 /\ dropped["v"] = 0 /\ raises = 0
    BY ButtonIsKey DEF Init
  <2> QED BY <2>1
<1> SUFFICES ASSUME NEW b \in Button PROVE Conserved(b)
  BY <1>a
<1>0. TypeOK
  BY TypeInit DEF TypeInv
<1>1. typed[b] = <<>> /\ handled[b] = <<>> /\ press[b].taps = 0 /\ InProcess(b) = 0
      /\ Len(stdin) = 0 /\ Len(terminal) = 0 /\ Len(typed[b]) = 0 /\ Len(handled[b]) = 0
  <2>1. char # b
    BY ButtonIsKey DEF Init
  <2> QED BY <2>1, EmptySeq DEF Init, NotPressed, InProcess
<1>2. Total(typed[b]) = 0
  <2>1. typed[b] \in Seq(Int)
    BY <1>1, EmptySeq
  <2> QED BY <1>1, <2>1, TotalEmpty
<1>3. Total(TapsOf(handled[b])) = 0
  BY <1>0, <1>1, SequencesAre, TapsOfGestures, TotalEmpty
<1>4. Total(PressesOf(b, Chars)) = 0
  <2>1. Chars \in Seq(Key) /\ Len(Chars) = 0
    BY <1>0, <1>1, CharsTyped
  <2> QED BY <2>1, PressesOfChars, TotalEmpty
<1>5. Unread(b) = 0
  BY <1>0, <1>1, <1>4, TermsAre
<1>6. dropped[b] = 0
  BY DEF Init
<1> QED BY <1>1, <1>2, <1>3, <1>5, <1>6 DEF Conserved

\* One key at most is in process, and is dropped with one raise.
LEMMA DropsAreRaises ==
  ASSUME TypeOK, dropped["s"] + dropped["v"] <= raises, NEW b \in Button, HandlerRaises(b)
  PROVE  dropped'["s"] + dropped'["v"] <= raises'
<1> DEFINE ds == dropped["s"]
           dv == dropped["v"]
           is == InProcess("s")
           iv == InProcess("v")
<1>1. dropped'["s"] = ds + is /\ dropped'["v"] = dv + iv /\ raises' = raises + 1
  BY ButtonIsKey DEF HandlerRaises
<1>2. ds \in Nat /\ dv \in Nat /\ raises \in Nat
  <2>1. raises \in 0 .. MaxRaises /\ MaxRaises \in Nat
    BY TimingAssumption DEF TypeOK
  <2> QED BY <2>1, ButtonIsKey DEF TypeOK
<1>3. is \in Nat /\ iv \in Nat /\ is + iv <= 1
  BY DEF InProcess
<1> HIDE DEF ds, dv, is, iv
<1>4. (ds + is) + (dv + iv) <= raises + 1
  BY <1>2, <1>3, ds + dv <= raises DEF ds, dv
<1> QED BY <1>1, <1>4

LEMMA ConservedStep ==
  ASSUME TypeInv, TypeInv', ConservedInv, [Next]_vars, NEW b \in Button
  PROVE  Conserved(b)'
<1>0. TypeOK /\ TypeOK' /\ Conserved(b)
  BY DEF TypeInv, ConservedInv
<1>1. ASSUME NEW k \in Key, Type(k) PROVE Conserved(b)'
  BY <1>0, <1>1, ConservedTyping
<1>2. CASE Tick
  <2>1. UNCHANGED <<terminal, stdin, char, handled, typed, dropped>>
    BY <1>2 DEF Tick, raiseVars
  <2>2. press'[b].taps = press[b].taps
    BY <1>0, <1>2, PressTyped DEF Tick, NotPressed
  <2>3. InProcess(b)' = InProcess(b)
    BY <2>1 DEF InProcess
  <2> QED BY <1>0, <2>1, <2>2, <2>3, ConservedWithin
<1>3. CASE NothingToRead
  <2>1. UNCHANGED <<terminal, stdin, char, press, handled, typed, dropped>>
    BY <1>3 DEF NothingToRead, operatorVars, raiseVars
  <2>2. InProcess(b)' = InProcess(b)
    BY <2>1 DEF InProcess
  <2> QED BY <1>0, <2>1, <2>2, ConservedWithin
<1>4. CASE ReadKey
  BY <1>0, <1>4, ConservedReadKey
<1>5. CASE FinalizeBeforeKey
  <2> DEFINE D == {d \in Button : Expired(d)}
  <2>1. UNCHANGED <<terminal, stdin, char, typed, dropped>> /\ Finalized(D)
    BY <1>5 DEF FinalizeBeforeKey, operatorVars, raiseVars
  <2>2. D \in SUBSET Button /\ \A c \in D : Expired(c)
    OBVIOUS
  <2>3. InProcess(b)' = InProcess(b) /\ dropped'[b] = dropped[b]
    BY <2>1 DEF InProcess
  <2> HIDE DEF D
  <2> QED BY <1>0, <2>1, <2>2, <2>3, TermsAre, ConservedFinalized
<1>6. CASE ProcessKey
  BY <1>0, <1>6, ConservedProcessKey
<1>7. CASE FinalizeAfterKey
  <2> DEFINE D == {d \in Button : Expired(d)}
  <2>1. UNCHANGED <<terminal, stdin, char, typed, dropped>> /\ Finalized(D)
    BY <1>7 DEF FinalizeAfterKey, operatorVars, raiseVars
  <2>2. D \in SUBSET Button /\ \A c \in D : Expired(c)
    OBVIOUS
  <2>3. InProcess(b)' = InProcess(b) /\ dropped'[b] = dropped[b]
    BY <2>1 DEF InProcess
  <2> HIDE DEF D
  <2> QED BY <1>0, <2>1, <2>2, <2>3, TermsAre, ConservedFinalized
<1>8. CASE UNCHANGED vars
  <2>1. UNCHANGED <<terminal, stdin, char, press, handled, typed, dropped>>
    BY <1>8 DEF vars, loopVars, operatorVars, raiseVars
  <2>2. InProcess(b)' = InProcess(b)
    BY <2>1 DEF InProcess
  <2> QED BY <1>0, <2>1, <2>2, ConservedWithin
<1>9. ASSUME NEW a \in Button, HandlerRaises(a) PROVE Conserved(b)'
  <2>1. PICK D \in SUBSET Button : (\A c \in D : Expired(c)) /\ Finalized(D)
    BY <1>9, RaisingFinalizes
  <2>2. UNCHANGED <<terminal, stdin, typed>>
    BY <1>9 DEF HandlerRaises, operatorVars
  <2>3. InProcess(b)' = 0
    <3>1. char' = NoKey
      BY <1>9 DEF HandlerRaises
    <3> QED BY <3>1, ButtonIsKey DEF InProcess
  <2>4. dropped'[b] = dropped[b] + InProcess(b) /\ dropped[b] \in Int /\ InProcess(b) \in Int
    BY <1>0, <1>9, TermsAre DEF HandlerRaises
  <2>5. InProcess(b)' + dropped'[b] = InProcess(b) + dropped[b] /\ dropped'[b] \in Int
    BY <2>3, <2>4
  <2> QED BY <1>0, <2>1, <2>2, <2>3, <2>5, ConservedFinalized
<1> QED BY <1>1, <1>2, <1>3, <1>4, <1>5, <1>6, <1>7, <1>8, <1>9 DEF Next, Iterate, Stopped

LEMMA ConservedInvStep ==
  ASSUME TypeInv, TypeInv', ConservedInv, [Next]_vars
  PROVE  ConservedInv'
<1>1. \A b \in Button : Conserved(b)'
  BY ConservedStep
<1>2. dropped'["s"] + dropped'["v"] <= raises'
  <2>1. TypeOK /\ dropped["s"] + dropped["v"] <= raises
    BY DEF TypeInv, ConservedInv
  <2>2. ASSUME NEW b \in Button, HandlerRaises(b) PROVE dropped'["s"] + dropped'["v"] <= raises'
    BY <2>1, <2>2, DropsAreRaises
  <2>3. CASE UNCHANGED raiseVars
    BY <2>1, <2>3 DEF raiseVars
  <2>4. UNCHANGED raiseVars \/ \E b \in Button : HandlerRaises(b)
    BY DEF Next, Type, Tick, Iterate, NothingToRead, ReadKey, FinalizeBeforeKey, ProcessKey,
           FinalizeAfterKey, Stopped, vars
  <2> QED BY <2>2, <2>3, <2>4
<1> QED BY <1>1, <1>2 DEF ConservedInv

\* However long handlers of activation gestures block the loop, however the keys
\* bunch up in the terminal and in the buffer of sys.stdin, and whichever handlers
\* raise: no press counts twice, and none is lost but the one key at most that
\* each iteration cut short by a raising handler had read.
THEOREM NoPressIsLost == Spec => []PressesConserved
<1>1. TypeInv /\ TypeInv' /\ ConservedInv /\ [Next]_vars => ConservedInv'
  BY ConservedInvStep
<1>2. ConservedInv => PressesConserved
  BY DEF ConservedInv, Conserved, PressesConserved
<1> QED BY ConservedInit, TypeInvariant, <1>1, <1>2, PTL DEF Spec

=============================================================================
