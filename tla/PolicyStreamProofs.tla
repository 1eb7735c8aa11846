-------------------------- MODULE PolicyStreamProofs ------------------------
(***************************************************************************)
(* Proofs about PolicyStream, for every set of targets, latency, timeout   *)
(* and length of chunks.  None of them needs fairness.                     *)
(***************************************************************************)
EXTENDS PolicyStream, SequenceTheorems, WellFoundedInduction, TLAPS

-----------------------------------------------------------------------------
(* Where a schedule is cut.                                                *)

LEMMA LeastNat ==
  ASSUME NEW T \in SUBSET Nat, T # {}
  PROVE  \E x \in T : \A y \in T : x <= y
<1>1. \E x \in T : \A y \in T : ~ (<<y, x>> \in OpToRel(<, Nat))
  BY WFMin, NatLessThanWellFounded, Zenon
<1>2. \A x, y \in T : (<<y, x>> \in OpToRel(<, Nat)) <=> y < x
  BY Zenon DEF OpToRel
<1>3. PICK x \in T : \A y \in T : ~ (y < x)
  BY <1>1, <1>2, Zenon
<1>4. \A y \in T : x <= y
  BY <1>3
<1>5. QED
  BY <1>4

LEMMA ActionsAreActions ==
  ASSUME NEW s \in Seq(Action), NEW i \in 1 .. Len(s)
  PROVE  s[i] \in Action /\ s[i].due \in Int /\ s[i].target \in Targets
<1>1. s[i] \in Action
  OBVIOUS
<1>2. QED
  BY <1>1 DEF Action

LEMMA LeadingIs ==
  ASSUME NEW s \in Seq(Action), NEW d \in Int
  PROVE  /\ Leading(s, d) \in 0 .. Len(s)
         /\ \A i \in 1 .. Leading(s, d) : s[i].due < d
         /\ Leading(s, d) < Len(s) => s[Leading(s, d) + 1].due >= d
<1> DEFINE T == {k \in 0 .. Len(s) : k < Len(s) => s[k + 1].due >= d}
<1>1. Len(s) \in T /\ T \in SUBSET Nat
  OBVIOUS
<1>2. PICK m \in T : \A k \in T : m <= k
  BY <1>1, LeastNat
<1>3. ASSUME NEW i \in 1 .. m
      PROVE  s[i].due < d
  <2>1. i - 1 \in 0 .. Len(s) /\ i - 1 < Len(s) /\ i - 1 \notin T /\ i \in 1 .. Len(s)
    BY <1>2
  <2>2. s[i].due \in Int
    BY <2>1, ActionsAreActions
  <2>3. QED
    BY <2>1, <2>2
<1>4. /\ m \in 0 .. Len(s)
      /\ \A i \in 1 .. m : s[i].due < d
      /\ m < Len(s) => s[m + 1].due >= d
  BY <1>2, <1>3
<1> DEFINE P(k) == (\A i \in 1 .. k : s[i].due < d) /\ (k < Len(s) => s[k + 1].due >= d)
<1>5. \E k \in 0 .. Len(s) : P(k)
  BY <1>4
<1>6. Leading(s, d) = CHOOSE k \in 0 .. Len(s) : P(k)
  BY DEF Leading
<1> HIDE DEF P
<1>7. Leading(s, d) \in 0 .. Len(s) /\ P(Leading(s, d))
  BY <1>5, <1>6, Zenon
<1>8. QED
  BY <1>7 DEF P

\* What is left of a schedule before d: entries whose successors are all due later.
LEMMA UpToIs ==
  ASSUME NEW s \in Seq(Action), NEW d \in Int
  PROVE  \E k \in 0 .. Len(s) : UpTo(s, d) = SubSeq(s, 1, k) /\ (k > 0 => s[k].due < d)
<1> DEFINE T == {k \in 0 .. Len(s) : \A i \in k + 1 .. Len(s) : s[i].due >= d}
<1>1. Len(s) \in T /\ T \in SUBSET Nat
  OBVIOUS
<1>2. PICK m \in T : \A k \in T : m <= k
  BY <1>1, LeastNat
<1>3. ASSUME m > 0
      PROVE  s[m].due < d
  <2>1. m \in 1 .. Len(s) /\ m - 1 \in 0 .. Len(s) /\ ~ (m <= m - 1)
    BY <1>3
  <2>2. m - 1 \notin T
    <3> HIDE DEF T
    <3> QED  BY <1>2, <2>1
  <2>3. PICK i \in (m - 1) + 1 .. Len(s) : ~ (s[i].due >= d)
    BY <2>1, <2>2
  <2>4. i = m
    BY <1>2, <2>1, <2>3
  <2>5. s[m].due \in Int
    BY <2>1, ActionsAreActions
  <2>6. QED
    BY <2>3, <2>4, <2>5
<1> DEFINE P(k) == (\A i \in k + 1 .. Len(s) : s[i].due >= d) /\ (k > 0 => s[k].due < d)
           c == CHOOSE k \in 0 .. Len(s) : P(k)
<1>4. \E k \in 0 .. Len(s) : P(k)
  BY <1>2, <1>3
<1>5. UpTo(s, d) = SubSeq(s, 1, c)
  BY DEF UpTo
<1> HIDE DEF P
<1>6. c \in 0 .. Len(s) /\ P(c)
  BY <1>4, Zenon
<1>7. QED
  BY <1>5, <1>6 DEF P

-----------------------------------------------------------------------------
(* Schedules in order.  An entry of the past may be one whose age is not   *)
(* told from that of older ones.                                           *)

InOrder(s) ==
  \A i \in 1 .. Len(s) :
    /\ s[i].due >= Oldest
    /\ \A j \in 1 .. Len(s) : i < j => s[i].due < s[j].due \/ s[i].due = Oldest

\* A plan in order, all of it in the future.
Ahead(s) ==
  \A i \in 1 .. Len(s) :
    s[i].due > 0 /\ \A j \in 1 .. Len(s) : i < j => s[i].due < s[j].due

LEMMA AheadInOrder ==
  ASSUME NEW s \in Seq(Action), Ahead(s)
  PROVE  InOrder(s)
<1>1. \A i \in 1 .. Len(s) : s[i].due \in Int
  BY ActionsAreActions
<1>2. QED
  BY <1>1, PolicyAssumption DEF Ahead, InOrder

LEMMA EmptyInOrder == <<>> \in Seq(Action) /\ InOrder(<<>>) /\ Ahead(<<>>)
  BY DEF InOrder, Ahead

\* A part of a schedule.
LEMMA PartIs ==
  ASSUME NEW s \in Seq(Action), NEW a \in 1 .. Len(s) + 1, NEW b \in 0 .. Len(s)
  PROVE  LET p == SubSeq(s, a, b)
         IN /\ p \in Seq(Action)
            /\ \A i \in 1 .. Len(p) : p[i] = s[a + i - 1] /\ a + i - 1 \in a .. b
            /\ Len(p) = IF a <= b THEN b - a + 1 ELSE 0
<1>1. \A i \in a .. b : s[i] \in Action
  BY ActionsAreActions
<1>2. a \in Int /\ b \in Int /\ Len(s) \in Nat
  OBVIOUS
<1> DEFINE p == SubSeq(s, a, b)
<1>3. /\ p \in Seq(Action)
      /\ Len(p) = IF a <= b THEN b - a + 1 ELSE 0
      /\ \A i \in 1 .. b - a + 1 : p[i] = s[a + i - 1]
  BY <1>1, <1>2, SubSeqProperties
<1> HIDE DEF p
<1>4. \A i \in 1 .. Len(p) : p[i] = s[a + i - 1] /\ a + i - 1 \in a .. b
  BY <1>2, <1>3
<1>5. QED
  BY <1>3, <1>4 DEF p

LEMMA PartInOrder ==
  ASSUME NEW s \in Seq(Action), InOrder(s),
         NEW a \in 1 .. Len(s) + 1, NEW b \in 0 .. Len(s)
  PROVE  InOrder(SubSeq(s, a, b))
<1> DEFINE p == SubSeq(s, a, b)
<1>1. \A i \in 1 .. Len(p) : p[i] = s[a + i - 1] /\ a + i - 1 \in 1 .. Len(s)
  BY PartIs
<1> HIDE DEF p
<1>2. ASSUME NEW i \in 1 .. Len(p), NEW j \in 1 .. Len(p), i < j
      PROVE  p[i].due < p[j].due \/ p[i].due = Oldest
  <2>1. a + i - 1 < a + j - 1
    BY <1>2
  <2>2. QED
    BY <1>1, <2>1 DEF InOrder
<1>3. \A i \in 1 .. Len(p) : p[i].due >= Oldest
  BY <1>1 DEF InOrder
<1>4. InOrder(p)
  BY <1>2, <1>3 DEF InOrder
<1>5. QED
  BY <1>4 DEF p

LEMMA JoinInOrder ==
  ASSUME NEW a \in Seq(Action), InOrder(a), NEW b \in Seq(Action), InOrder(b), b # <<>>,
         \A i \in 1 .. Len(a) : a[i].due < b[1].due
  PROVE  a \o b \in Seq(Action) /\ InOrder(a \o b)
<1> DEFINE c == a \o b
<1>1. /\ c \in Seq(Action) /\ Len(c) = Len(a) + Len(b)
      /\ \A i \in 1 .. Len(a) + Len(b) : c[i] = IF i <= Len(a) THEN a[i] ELSE b[i - Len(a)]
  BY ConcatProperties
<1>2. Len(a) \in Nat /\ Len(b) \in Nat \ {0}
  OBVIOUS
<1> HIDE DEF c
<1>3. \A i \in 1 .. Len(a) : c[i] = a[i] /\ i \in 1 .. Len(c)
  BY <1>1, <1>2
<1>4. \A i \in Len(a) + 1 .. Len(c) : c[i] = b[i - Len(a)] /\ i - Len(a) \in 1 .. Len(b)
  BY <1>1, <1>2
<1>5. \A i \in 1 .. Len(c) : i \in 1 .. Len(a) \/ i \in Len(a) + 1 .. Len(c)
  BY <1>1, <1>2
<1>6. \A i \in 1 .. Len(c) : c[i].due \in Int
  BY <1>1, ActionsAreActions
<1>7. \A i \in 1 .. Len(c) : c[i].due >= Oldest
  BY <1>3, <1>4, <1>5 DEF InOrder
<1>8. ASSUME NEW i \in 1 .. Len(c), NEW j \in 1 .. Len(c), i < j
      PROVE  c[i].due < c[j].due \/ c[i].due = Oldest
  <2>1. CASE i \in 1 .. Len(a) /\ j \in 1 .. Len(a)
    BY <1>3, <1>8, <2>1 DEF InOrder
  <2>2. CASE i \in Len(a) + 1 .. Len(c) /\ j \in Len(a) + 1 .. Len(c)
    <3> DEFINE p == i - Len(a)
               q == j - Len(a)
    <3>1. p \in 1 .. Len(b) /\ q \in 1 .. Len(b) /\ c[i] = b[p] /\ c[j] = b[q]
      BY <1>4, <2>2
    <3>2. p < q
      BY <1>2, <1>8
    <3> HIDE DEF p, q
    <3>3. QED
      BY <3>1, <3>2 DEF InOrder
  <2>3. CASE i \in 1 .. Len(a) /\ j \in Len(a) + 1 .. Len(c)
    <3>1. c[i] = a[i] /\ c[j] = b[j - Len(a)] /\ j - Len(a) \in 1 .. Len(b)
      BY <1>3, <1>4, <2>3
    <3>2. a[i].due < b[1].due /\ a[i].due >= Oldest /\ a[i].due \in Int
      BY <2>3, ActionsAreActions DEF InOrder
    <3>3. b[1].due \in Int /\ b[j - Len(a)].due \in Int
      BY <1>2, <3>1, ActionsAreActions
    <3>4. j - Len(a) = 1 \/ b[1].due < b[j - Len(a)].due \/ b[1].due = Oldest
      BY <1>2, <3>1 DEF InOrder
    <3> DEFINE first == b[1].due
               later == b[j - Len(a)].due
               before == a[i].due
    <3>5. first = later \/ first < later \/ first = Oldest
      BY <3>4
    <3>6. before < first /\ before >= Oldest /\ before \in Int /\ first \in Int /\ later \in Int
      BY <3>2, <3>3
    <3> HIDE DEF first, later, before
    <3>7. before < later
      BY <3>5, <3>6, PolicyAssumption
    <3>8. QED
      BY <3>1, <3>7 DEF later, before
  <2>4. CASE i \in Len(a) + 1 .. Len(c) /\ j \in 1 .. Len(a)
    BY <1>2, <1>8, <2>4
  <2>5. QED
    BY <1>5, <2>1, <2>2, <2>3, <2>4
<1>9. InOrder(c)
  BY <1>7, <1>8 DEF InOrder
<1>10. QED
  BY <1>1, <1>9 DEF c

\* A new plan takes the place of what is due at its start or later.
LEMMA ReplacedInOrder ==
  ASSUME NEW s \in Seq(Action), InOrder(s), NEW plan \in Seq(Action), InOrder(plan),
         plan # <<>>, NEW k \in Nat
  PROVE  ReplacedKeeping(s, plan, k) \in Seq(Action) /\ InOrder(ReplacedKeeping(s, plan, k))
<1> DEFINE d == plan[1].due
           before == UpTo(s, d)
           past == Leading(before, 0)
           dropped == IF past > k THEN past - k ELSE 0
           kept == SubSeq(before, dropped + 1, Len(before))
<1>1. d \in Int /\ Head(plan) = plan[1]
  BY ActionsAreActions
<1>2. PICK m \in 0 .. Len(s) : before = SubSeq(s, 1, m) /\ (m > 0 => s[m].due < d)
  BY <1>1, UpToIs
<1>3. 1 \in 1 .. Len(s) + 1
  OBVIOUS
<1>4. before \in Seq(Action) /\ InOrder(before) /\ Len(before) = m
  BY <1>2, <1>3, PartIs, PartInOrder
<1>5. \A i \in 1 .. m : before[i] = s[i]
  BY <1>2, <1>3, <1>4, PartIs
<1>6. ASSUME NEW i \in 1 .. m
      PROVE  before[i].due < d
  <2>1. before[i] = s[i] /\ i \in 1 .. Len(s) /\ m \in 1 .. Len(s) /\ s[m].due < d
    BY <1>2, <1>5
  <2>2. i = m \/ s[i].due < s[m].due \/ s[i].due = Oldest
    BY <2>1 DEF InOrder
  <2>3. s[i].due \in Int /\ s[m].due \in Int /\ s[m].due >= Oldest
    BY <2>1, ActionsAreActions DEF InOrder
  <2>4. QED
    BY <1>1, <2>1, <2>2, <2>3, PolicyAssumption
<1> HIDE DEF before, d
<1>7. past \in 0 .. Len(before)
  BY <1>4, LeadingIs
<1> HIDE DEF past
<1>8. dropped + 1 \in 1 .. Len(before) + 1 /\ Len(before) \in 0 .. Len(before)
  BY <1>4, <1>7
<1> HIDE DEF dropped
<1>9. kept \in Seq(Action) /\ InOrder(kept)
  BY <1>4, <1>8, PartIs, PartInOrder
<1>10. \A i \in 1 .. Len(kept) : kept[i].due < d
  <2>1. \A i \in 1 .. Len(kept) :
          kept[i] = before[dropped + 1 + i - 1] /\ dropped + 1 + i - 1 \in dropped + 1 .. Len(before)
    BY <1>4, <1>8, PartIs
  <2>2. \A i \in 1 .. Len(kept) : dropped + 1 + i - 1 \in 1 .. m
    BY <1>4, <1>8, <2>1
  <2>3. QED
    BY <1>6, <2>1, <2>2
<1> HIDE DEF kept
<1>11. kept \o plan \in Seq(Action) /\ InOrder(kept \o plan)
  BY <1>9, <1>10, JoinInOrder DEF d
<1>12. ReplacedKeeping(s, plan, k) = kept \o plan
  BY <1>1 DEF ReplacedKeeping, kept, dropped, past, before, d
<1>13. QED
  BY <1>11, <1>12

\* Time passes for a schedule.
Sooner(d) == IF d > Oldest THEN d - 1 ELSE d

LEMMA AgedInOrder ==
  ASSUME NEW s \in Seq(Action)
  PROVE  /\ AgedAll(s) \in Seq(Action) /\ Len(AgedAll(s)) = Len(s)
         /\ InOrder(s) => InOrder(AgedAll(s))
<1> DEFINE t == AgedAll(s)
<1>1. \A i \in 1 .. Len(s) : Aged(s[i]) = [due |-> Sooner(s[i].due), target |-> s[i].target]
  <2> TAKE i \in 1 .. Len(s)
  <2>1. s[i] \in [due : Int, target : Targets]
    BY ActionsAreActions DEF Action
  <2>2. QED
    BY <2>1 DEF Aged, Sooner
<1>2. \A i \in 1 .. Len(s) : s[i].due \in Int /\ s[i].target \in Targets
  BY ActionsAreActions
<1>3. \A d \in Int : Sooner(d) \in Int
  BY DEF Sooner
<1>4. \A i \in 1 .. Len(s) : Aged(s[i]) \in Action
  <2> TAKE i \in 1 .. Len(s)
  <2>1. Sooner(s[i].due) \in Int /\ s[i].target \in Targets
    BY <1>2, <1>3
  <2>2. Aged(s[i]) = [due |-> Sooner(s[i].due), target |-> s[i].target]
    BY <1>1
  <2> HIDE DEF Sooner
  <2>3. QED
    BY <2>1, <2>2 DEF Action
<1>5. t \in Seq(Action) /\ Len(t) = Len(s) /\ \A i \in 1 .. Len(s) : t[i] = Aged(s[i])
  BY <1>4 DEF AgedAll
<1> HIDE DEF t
<1>6. \A i \in 1 .. Len(s) : t[i].due = Sooner(s[i].due)
  <2> TAKE i \in 1 .. Len(s)
  <2>1. t[i] = [due |-> Sooner(s[i].due), target |-> s[i].target]
    BY <1>1, <1>5
  <2>2. QED
    BY <2>1
<1>7. \A d \in Int, e \in Int :
        /\ d >= Oldest => Sooner(d) >= Oldest
        /\ d = Oldest => Sooner(d) = Oldest
        /\ d >= Oldest /\ d < e => Sooner(d) < Sooner(e) \/ Sooner(d) = Oldest
  BY PolicyAssumption DEF Sooner
<1>8. InOrder(s) => InOrder(t)
  <2> HAVE InOrder(s)
  <2>1. \A i \in 1 .. Len(t) : t[i].due >= Oldest
    BY <1>2, <1>5, <1>6, <1>7 DEF InOrder
  <2>2. ASSUME NEW i \in 1 .. Len(t), NEW j \in 1 .. Len(t), i < j
        PROVE  t[i].due < t[j].due \/ t[i].due = Oldest
    <3>1. s[i].due >= Oldest /\ (s[i].due < s[j].due \/ s[i].due = Oldest)
      BY <1>5, <2>2 DEF InOrder
    <3>2. s[i].due \in Int /\ s[j].due \in Int
      BY <1>2, <1>5
    <3>3. QED
      BY <1>5, <1>6, <1>7, <3>1, <3>2
  <2>3. QED
    BY <2>1, <2>2 DEF InOrder
<1>9. QED
  BY <1>5, <1>8 DEF t

-----------------------------------------------------------------------------
(* The plan.                                                               *)

LEMMA PlannedIs ==
  ASSUME NEW place \in Targets, anchor \in Int
  PROVE  /\ Planned(place) \in Seq(Action)
         /\ \A i, j \in 1 .. Len(Planned(place)) :
              i < j => Planned(place)[i].due < Planned(place)[j].due
<1>1. ChunkLength \in Nat
  BY PolicyAssumption
<1>2. \A i \in 1 .. ChunkLength : [due |-> i - anchor, target |-> place] \in Action
  BY DEF Action
<1>3. Planned(place) \in Seq(Action) /\ Len(Planned(place)) = ChunkLength
  BY <1>1, <1>2 DEF Planned
<1>4. \A i \in 1 .. ChunkLength : Planned(place)[i].due = i - anchor
  BY DEF Planned
<1>5. QED
  BY <1>1, <1>3, <1>4

\* What is executable of a plan lies ahead.
LEMMA ExecutableAhead ==
  ASSUME NEW plan \in Seq(Action),
         \A i, j \in 1 .. Len(plan) : i < j => plan[i].due < plan[j].due
  PROVE  /\ ExecutableEE(plan) \in Seq(Action) /\ Ahead(ExecutableEE(plan))
         /\ ExecutableJoint(plan) \in Seq(Action) /\ Ahead(ExecutableJoint(plan))
<1> DEFINE skipped == Stale(plan)
           kept == SubSeq(plan, skipped + 1, Len(plan))
<1>1. Latency \in Nat /\ Latency + 1 \in Int
  BY PolicyAssumption
<1>2. skipped \in 0 .. Len(plan) /\ (skipped < Len(plan) => plan[skipped + 1].due >= Latency + 1)
  BY <1>1, LeadingIs DEF Stale
<1> HIDE DEF skipped
<1>3. skipped + 1 \in 1 .. Len(plan) + 1 /\ Len(plan) \in 0 .. Len(plan)
  BY <1>2
<1>4. /\ kept \in Seq(Action)
      /\ \A i \in 1 .. Len(kept) :
           kept[i] = plan[skipped + 1 + i - 1] /\ skipped + 1 + i - 1 \in skipped + 1 .. Len(plan)
  BY <1>3, PartIs
<1> HIDE DEF kept
<1>5. \A i \in 1 .. Len(kept) : kept[i] = plan[skipped + i] /\ skipped + i \in skipped + 1 .. Len(plan)
  BY <1>2, <1>4
<1>6. \A i \in 1 .. Len(kept) : kept[i].due \in Int /\ kept[i].target \in Targets
  BY <1>4, ActionsAreActions
<1>7. \A i, j \in 1 .. Len(kept) : i < j => kept[i].due < kept[j].due
  <2> TAKE i, j \in 1 .. Len(kept)
  <2> HAVE i < j
  <2>1. skipped + i < skipped + j /\ skipped + i \in 1 .. Len(plan) /\ skipped + j \in 1 .. Len(plan)
    BY <1>2, <1>5
  <2>2. QED
    BY <1>5, <2>1
<1>8. ASSUME NEW i \in 1 .. Len(kept)
      PROVE  kept[i].due >= Latency + 1
  <2>1. skipped < Len(plan) /\ plan[skipped + 1].due >= Latency + 1
    BY <1>2, <1>5
  <2>2. skipped + 1 \in 1 .. Len(plan) /\ skipped + i \in 1 .. Len(plan)
    BY <1>2, <1>5
  <2>3. i = 1 \/ plan[skipped + 1].due < plan[skipped + i].due
    BY <1>2, <2>2
  <2>4. plan[skipped + 1].due \in Int /\ plan[skipped + i].due \in Int
    BY <2>2, ActionsAreActions
  <2>5. QED
    BY <1>1, <1>5, <2>1, <2>3, <2>4
<1>9. Ahead(kept)
  BY <1>1, <1>6, <1>7, <1>8 DEF Ahead
<1>10. ExecutableJoint(plan) \in Seq(Action) /\ Ahead(ExecutableJoint(plan))
  <2>1. ExecutableJoint(plan) = kept
    BY DEF ExecutableJoint, kept, skipped
  <2>2. QED
    BY <1>4, <1>9, <2>1
<1>11. CASE skipped > 0
  <2> DEFINE early == [i \in 1 .. Len(kept) |-> [kept[i] EXCEPT !.due = @ - Latency]]
  <2>1. \A i \in 1 .. Len(kept) :
          [kept[i] EXCEPT !.due = @ - Latency]
            = [due |-> kept[i].due - Latency, target |-> kept[i].target]
    <3> TAKE i \in 1 .. Len(kept)
    <3>1. kept[i] \in [due : Int, target : Targets]
      BY <1>4, ActionsAreActions DEF Action
    <3>2. QED
      BY <3>1
  <2>2. \A i \in 1 .. Len(kept) : [kept[i] EXCEPT !.due = @ - Latency] \in Action
    <3> TAKE i \in 1 .. Len(kept)
    <3>1. kept[i].due - Latency \in Int /\ kept[i].target \in Targets
      BY <1>1, <1>6
    <3>2. [due |-> kept[i].due - Latency, target |-> kept[i].target] \in Action
      BY <3>1 DEF Action
    <3>3. QED
      BY <2>1, <3>2
  <2>3. Len(kept) \in Nat
    BY <1>4
  <2>4. early \in Seq(Action) /\ Len(early) = Len(kept)
    BY <2>2, <2>3
  <2>5. \A i \in 1 .. Len(kept) : early[i].due = kept[i].due - Latency
    BY <2>1
  <2>6. ExecutableEE(plan) = early
    BY <1>11 DEF ExecutableEE, kept, skipped
  <2> HIDE DEF early
  <2>7. Ahead(early)
    <3>1. ASSUME NEW i \in 1 .. Len(early)
          PROVE  early[i].due > 0
      BY <1>1, <1>6, <1>8, <2>4, <2>5, <3>1
    <3>2. ASSUME NEW i \in 1 .. Len(early), NEW j \in 1 .. Len(early), i < j
          PROVE  early[i].due < early[j].due
      <4>1. i \in 1 .. Len(kept) /\ j \in 1 .. Len(kept)
        BY <2>4
      <4>2. kept[i].due < kept[j].due /\ kept[i].due \in Int /\ kept[j].due \in Int
        BY <1>6, <1>7, <3>2, <4>1
      <4>3. early[i].due = kept[i].due - Latency /\ early[j].due = kept[j].due - Latency
        BY <2>5, <4>1
      <4>4. QED
        BY <1>1, <4>2, <4>3
    <3>3. QED
      BY <3>1, <3>2 DEF Ahead
  <2>8. QED
    BY <1>10, <2>4, <2>6, <2>7
<1>12. CASE ~ (skipped > 0)
  <2>1. ExecutableEE(plan) = kept
    BY <1>12 DEF ExecutableEE, kept, skipped
  <2>2. QED
    BY <1>4, <1>9, <1>10, <2>1
<1>13. QED
  BY <1>11, <1>12

-----------------------------------------------------------------------------
(* Type correctness.  A request is sent only while fewer than two were.    *)

SendInv == worker = "send" => retries < 2

PolicyTyped == TypeOK /\ SendInv

LEMMA LesserInt ==
  ASSUME NEW a \in Int, NEW b \in Int
  PROVE  Lesser(a, b) \in Int /\ Between(a, b) \subseteq Int
  BY DEF Lesser, Between

LEMMA PayloadsTyped ==
  ASSUME TypeOK
  PROVE  PayloadsEE \cup PayloadsJoint \subseteq Int \cup {NoTarget}
<1>1. buffer \in Seq(Action) /\ last \in Int \cup {NoTarget} /\ Targets \subseteq Int
  BY PolicyAssumption DEF TypeOK
<1>2. Due(buffer) \in 0 .. Len(buffer)
  BY <1>1, LeadingIs DEF Due
<1>3. Previous(buffer) \in Int \cup {NoTarget}
  <2>1. CASE Due(buffer) > 0
    <3>1. Due(buffer) \in 1 .. Len(buffer)
      BY <1>2, <2>1
    <3>2. buffer[Due(buffer)].target \in Targets
      BY <1>1, <3>1, ActionsAreActions
    <3>3. QED
      BY <1>1, <2>1, <3>2 DEF Previous
  <2>2. CASE ~ (Due(buffer) > 0)
    BY <2>2 DEF Previous
  <2>3. QED
    BY <2>1, <2>2
<1>4. Future(buffer) \in Int \cup {NoTarget}
  <2>1. CASE Due(buffer) < Len(buffer)
    <3>1. Due(buffer) + 1 \in 1 .. Len(buffer)
      BY <1>1, <1>2, <2>1
    <3>2. buffer[Due(buffer) + 1].target \in Targets
      BY <1>1, <3>1, ActionsAreActions
    <3>3. QED
      BY <1>1, <2>1, <3>2 DEF Future
  <2>2. CASE ~ (Due(buffer) < Len(buffer))
    BY <2>2 DEF Future
  <2>3. QED
    BY <2>1, <2>2
<1> DEFINE prev == IF last # NoTarget THEN last ELSE Previous(buffer)
<1>5. prev \in Int \cup {NoTarget}
  BY <1>1, <1>3
<1>6. PayloadsEE =
        IF prev = NoTarget THEN {Future(buffer)}
        ELSE IF Future(buffer) = NoTarget THEN {prev}
        ELSE Between(prev, Future(buffer))
  BY DEF PayloadsEE
<1> HIDE DEF prev
<1>7. PayloadsEE \subseteq Int \cup {NoTarget}
  <2>1. CASE prev # NoTarget /\ Future(buffer) # NoTarget
    <3>1. Between(prev, Future(buffer)) \subseteq Int
      BY <1>4, <1>5, <2>1, LesserInt
    <3>2. QED
      BY <1>5, <1>6, <2>1, <3>1
  <2>2. CASE ~ (prev # NoTarget /\ Future(buffer) # NoTarget)
    BY <1>4, <1>5, <1>6, <2>2
  <2>3. QED
    BY <2>1, <2>2
<1>8. PayloadsJoint \subseteq Int \cup {NoTarget}
  BY <1>1, <1>3 DEF PayloadsJoint
<1>9. QED
  BY <1>7, <1>8

LEMMA InitPolicyTyped == Init => PolicyTyped
  BY EmptyInOrder, PolicyAssumption DEF Init, PolicyTyped, TypeOK, SendInv, NoObservation

LEMMA ReplyChunk ==
  ASSUME TypeOK, Reply
  PROVE  chunk' \in Seq(Action) /\ Ahead(chunk')
<1>1. \/ chunk' = <<>>
      \/ \E place \in Targets : chunk' = ExecutableEE(Planned(place))
      \/ \E place \in Targets : chunk' = ExecutableJoint(Planned(place))
  BY DEF Reply, ReplyEE, ReplyJoint
<1>2. anchor \in Int
  BY PolicyAssumption DEF TypeOK, NoObservation
<1>3. ASSUME NEW place \in Targets
      PROVE  /\ ExecutableEE(Planned(place)) \in Seq(Action) /\ Ahead(ExecutableEE(Planned(place)))
             /\ ExecutableJoint(Planned(place)) \in Seq(Action)
             /\ Ahead(ExecutableJoint(Planned(place)))
  <2>1. /\ Planned(place) \in Seq(Action)
        /\ \A i, j \in 1 .. Len(Planned(place)) :
             i < j => Planned(place)[i].due < Planned(place)[j].due
    BY <1>2, PlannedIs
  <2>2. QED
    BY <2>1, ExecutableAhead
<1>4. CASE chunk' = <<>>
  BY <1>4, EmptyInOrder DEF Ahead
<1>5. CASE chunk' # <<>>
  BY <1>1, <1>3, <1>5
<1>6. QED
  BY <1>4, <1>5

LEMMA TypedInference ==
  ASSUME PolicyTyped, Observe \/ Send \/ TimedOut \/ NextCycle \/ Approve \/ Reject
  PROVE  PolicyTyped'
<1> USE DEF PolicyTyped, TypeOK, SendInv, clientVars, planVars, robotVars
<1>1. CASE Observe
  BY <1>1, PolicyAssumption DEF Observe, ObserveEE, ObserveJoint, FrameAges
<1>2. CASE Send
  BY <1>2, PolicyAssumption DEF Send, SendEE, SendJoint
<1>3. CASE TimedOut
  BY <1>3, PolicyAssumption DEF TimedOut, TimedOutEE, TimedOutJoint
<1>4. CASE NextCycle
  BY <1>4 DEF NextCycle
<1>5. CASE Approve
  BY <1>5 DEF Approve
<1>6. CASE Reject
  BY <1>6, EmptyInOrder DEF Reject
<1>7. QED
  BY <1>1, <1>2, <1>3, <1>4, <1>5, <1>6

LEMMA TypedReply ==
  ASSUME PolicyTyped, Reply
  PROVE  PolicyTyped'
<1>1. chunk' \in Seq(Action)
  BY ReplyChunk DEF PolicyTyped
<1>2. QED
  BY <1>1, PolicyAssumption DEF Reply, ReplyEE, ReplyJoint, PolicyTyped, TypeOK, SendInv, clientVars, planVars, robotVars

LEMMA TypedMain ==
  ASSUME PolicyTyped, Start \/ Leave \/ Finish
  PROVE  PolicyTyped'
<1> USE DEF PolicyTyped, TypeOK, SendInv, clientVars, planVars, robotVars
<1>1. CASE Start
  BY <1>1 DEF Start, ReadyEE, ReadyJoint, StartFailsEE, StartFailsJoint
<1>2. CASE Leave
  BY <1>2 DEF Leave, LeaveEE, LeaveJoint
<1>3. CASE JoinEE \/ JoinJoint
  BY <1>3 DEF JoinEE, JoinJoint
<1>4. CASE StopRobot
  BY <1>4, EmptyInOrder DEF StopRobot
<1>5. CASE StopJoint
  BY <1>5 DEF StopJoint
<1>6. QED
  BY <1>1, <1>2, <1>3, <1>4, <1>5 DEF Finish

LEMMA TypedCommand ==
  ASSUME PolicyTyped, CommandThread
  PROVE  PolicyTyped'
<1>1. CASE SampleEE \/ SampleJoint
  <2>1. sampled' \in Int \cup {NoTarget}
    BY <1>1, PayloadsTyped DEF SampleEE, SampleJoint, PolicyTyped
  <2>2. QED
    BY <1>1, <2>1
       DEF SampleEE, SampleJoint, PolicyTyped, TypeOK, SendInv, threads, clientVars, planVars
<1>2. CASE ApplyEE \/ ApplyJoint
  BY <1>2 DEF ApplyEE, ApplyJoint, PolicyTyped, TypeOK, SendInv, threads, clientVars, planVars
<1>3. QED
  BY <1>1, <1>2 DEF CommandThread

LEMMA TypedTick ==
  ASSUME PolicyTyped, Tick
  PROVE  PolicyTyped'
<1>1. buffer' \in Seq(Action) /\ chunk' \in Seq(Action)
  BY AgedInOrder DEF Tick, PolicyTyped, TypeOK
<1>2. waited' \in 0 .. PolicyTimeout
  BY PolicyAssumption DEF Tick, Patient, PolicyTyped, TypeOK
<1>3. anchor' \in {NoObservation} \cup 0 .. ChunkLength
  BY PolicyAssumption DEF Tick, Lesser, PolicyTyped, TypeOK, NoObservation
<1>4. QED
  BY <1>1, <1>2, <1>3 DEF Tick, PolicyTyped, TypeOK, SendInv, threads, robotVars

-----------------------------------------------------------------------------
(* The schedule and the plan that is about to join it.                     *)

PlanInv ==
  /\ InOrder(buffer) /\ InOrder(chunk)
  /\ worker \in {"approval", "queue"} => chunk # <<>>
  /\ worker = "approval" => debug
  /\ worker = "queue" /\ ~debug => Ahead(chunk)

PolicyInv == PolicyTyped /\ PlanInv

LEMMA InitPolicy == Init => PolicyInv
<1>1. Init => PlanInv
  BY EmptyInOrder DEF Init, PlanInv
<1>2. QED
  BY <1>1, InitPolicyTyped DEF PolicyInv

LEMMA QueuedInOrder ==
  ASSUME PolicyInv, QueueActions
  PROVE  PolicyInv'
<1>1. /\ buffer \in Seq(Action) /\ InOrder(buffer)
      /\ chunk \in Seq(Action) /\ InOrder(chunk) /\ chunk # <<>>
  BY DEF PolicyInv, PolicyTyped, TypeOK, PlanInv, QueueActions, QueueActionsEE, QueueActionsJoint
<1>2. buffer' \in Seq(Action) /\ InOrder(buffer')
  <2>1. PICK k \in Nat : buffer' = ReplacedKeeping(buffer, chunk, k)
    BY DEF QueueActions, QueueActionsEE, QueueActionsJoint
  <2>2. /\ ReplacedKeeping(buffer, chunk, k) \in Seq(Action)
        /\ InOrder(ReplacedKeeping(buffer, chunk, k))
    BY <1>1, ReplacedInOrder
  <2>3. QED
    BY <2>1, <2>2 DEF InOrder
<1>3. chunk' = <<>> /\ worker' = "wait"
  BY DEF QueueActions, QueueActionsEE, QueueActionsJoint
<1>4. chunk' \in Seq(Action) /\ InOrder(chunk')
  BY <1>3, EmptyInOrder DEF InOrder
<1>5. PolicyTyped'
  BY <1>2, <1>3, <1>4
     DEF QueueActions, QueueActionsEE, QueueActionsJoint, PolicyInv, PolicyTyped, TypeOK, SendInv, clientVars, robotVars
<1>6. PlanInv'
  BY <1>2, <1>3, <1>4 DEF PlanInv
<1>7. QED
  BY <1>5, <1>6 DEF PolicyInv

LEMMA ReplyPlanned ==
  ASSUME PolicyInv, Reply
  PROVE  PlanInv'
<1>1. chunk' \in Seq(Action) /\ Ahead(chunk')
  BY ReplyChunk DEF PolicyInv, PolicyTyped
<1>2. InOrder(chunk')
  BY <1>1, AheadInOrder DEF InOrder, Ahead
<1>3. buffer' = buffer /\ InOrder(buffer)
  BY DEF Reply, ReplyEE, ReplyJoint, PolicyInv, PlanInv
<1>4. InOrder(buffer')
  BY <1>3 DEF InOrder
<1>5. /\ debug' = debug
      /\ \/ worker' = (IF chunk' = <<>> THEN "wait" ELSE IF debug THEN "approval" ELSE "queue")
         \/ worker' = (IF chunk' = <<>> THEN "wait" ELSE "queue")
  BY DEF Reply, ReplyEE, ReplyJoint
<1>6. QED
  BY <1>1, <1>2, <1>4, <1>5 DEF PlanInv, Ahead, InOrder

LEMMA TickPlanned ==
  ASSUME PolicyInv, Tick
  PROVE  PlanInv'
<1>1. /\ buffer' = AgedAll(buffer) /\ chunk' = AgedAll(chunk)
      /\ worker' = worker /\ debug' = debug /\ worker # "queue"
  BY DEF Tick, Patient, threads
<1>2. /\ chunk \in Seq(Action) /\ InOrder(chunk)
      /\ buffer \in Seq(Action) /\ InOrder(buffer)
  BY DEF PolicyInv, PolicyTyped, TypeOK, PlanInv
<1>3. /\ InOrder(AgedAll(buffer)) /\ InOrder(AgedAll(chunk))
      /\ AgedAll(chunk) \in Seq(Action) /\ Len(AgedAll(chunk)) = Len(chunk)
  BY <1>2, AgedInOrder
<1>4. InOrder(buffer') /\ InOrder(chunk')
  BY <1>1, <1>3 DEF InOrder
<1>5. chunk # <<>> => chunk' # <<>>
  BY <1>1, <1>2, <1>3
<1>6. QED
  BY <1>1, <1>4, <1>5 DEF PlanInv, PolicyInv

\* The steps that touch neither schedule nor plan, or empty one of them.
LEMMA OthersPlanned ==
  ASSUME PolicyInv,
         \/ Observe \/ Send \/ TimedOut \/ NextCycle \/ Approve \/ Reject
         \/ Start \/ Leave \/ Finish \/ CommandThread
  PROVE  PlanInv'
<1> USE EmptyInOrder
    DEF PolicyInv, PlanInv, InOrder, Ahead, clientVars, planVars, robotVars, threads
<1>1. CASE Observe
  BY <1>1 DEF Observe, ObserveEE, ObserveJoint
<1>2. CASE Send
  BY <1>2 DEF Send, SendEE, SendJoint
<1>3. CASE TimedOut
  BY <1>3 DEF TimedOut, TimedOutEE, TimedOutJoint
<1>4. CASE NextCycle
  BY <1>4 DEF NextCycle
<1>5. CASE Approve
  BY <1>5 DEF Approve
<1>6. CASE Reject
  BY <1>6 DEF Reject
<1>7. CASE Start
  BY <1>7 DEF Start, ReadyEE, ReadyJoint, StartFailsEE, StartFailsJoint
<1>8. CASE Leave
  BY <1>8 DEF Leave, LeaveEE, LeaveJoint
<1>9. CASE Finish
  BY <1>9 DEF Finish, JoinEE, JoinJoint, StopRobot, StopJoint
<1>10. CASE CommandThread
  BY <1>10 DEF CommandThread, SampleEE, SampleJoint, ApplyEE, ApplyJoint
<1>11. QED
  BY <1>1, <1>2, <1>3, <1>4, <1>5, <1>6, <1>7, <1>8, <1>9, <1>10

LEMMA NextPolicy == PolicyInv /\ [Next]_vars => PolicyInv'
<1> SUFFICES ASSUME PolicyInv, [Next]_vars PROVE PolicyInv'
  OBVIOUS
<1>1. PolicyTyped
  BY DEF PolicyInv
<1>2. CASE QueueActions
  BY <1>2, QueuedInOrder
<1>3. CASE Reply
  BY <1>1, <1>3, TypedReply, ReplyPlanned DEF PolicyInv
<1>4. CASE Tick
  BY <1>1, <1>4, TypedTick, TickPlanned DEF PolicyInv
<1>5. CASE Observe \/ Send \/ TimedOut \/ NextCycle \/ Approve \/ Reject
  BY <1>1, <1>5, TypedInference, OthersPlanned DEF PolicyInv
<1>6. CASE Start \/ Leave \/ Finish
  BY <1>1, <1>6, TypedMain, OthersPlanned DEF PolicyInv
<1>7. CASE CommandThread
  BY <1>1, <1>7, TypedCommand, OthersPlanned DEF PolicyInv
<1>8. CASE Terminated \/ UNCHANGED vars
  BY <1>8 DEF Terminated, vars, PolicyInv, PolicyTyped, TypeOK, SendInv, PlanInv, InOrder, Ahead,
         threads, clientVars, planVars, robotVars
<1>9. QED
  BY <1>2, <1>3, <1>4, <1>5, <1>6, <1>7, <1>8 DEF Next, InferenceThread

LEMMA AlwaysPolicy == Spec => []PolicyInv
  BY InitPolicy, NextPolicy, PTL DEF Spec

\* The schedule, the plans and what is sampled of them are always well typed; in
\* particular an inference sends at most two requests.
THEOREM PolicyTypeCorrect == Spec => []TypeOK
<1>1. PolicyInv => TypeOK
  BY DEF PolicyInv, PolicyTyped
<1>2. QED
  BY <1>1, AlwaysPolicy, PTL

\* However old the observation of a plan and however late its reply, the schedule it
\* joins stays sorted by time.
THEOREM PolicyScheduleInOrder == Spec => []ScheduleInOrder
<1>1. PolicyInv => ScheduleInOrder
  BY DEF PolicyInv, PlanInv, InOrder, ScheduleInOrder
<1>2. QED
  BY <1>1, AlwaysPolicy, PTL

\* Unless an operator had to approve it first, no action is scheduled for a moment that
\* has passed.
THEOREM PolicyFutureWhenQueued == Spec => []FutureWhenQueued
<1>1. PolicyInv => FutureWhenQueued
  BY DEF PolicyInv, PlanInv, Ahead, FutureWhenQueued
<1>2. QED
  BY <1>1, AlwaysPolicy, PTL

-----------------------------------------------------------------------------
(* The end: the command thread is gone, and has left no sample behind.     *)

ExitInv == main = "exited" => ~command /\ sampled = NoTarget

LEMMA NextExit == ExitInv /\ [Next]_vars => ExitInv'
<1> SUFFICES ASSUME ExitInv, [Next]_vars PROVE ExitInv'
  OBVIOUS
<1> USE DEF ExitInv, threads, clientVars, planVars, robotVars
<1>1. CASE InferenceThread
  BY <1>1
     DEF InferenceThread, Observe, ObserveEE, ObserveJoint, Send, SendEE, SendJoint,
         TimedOut, TimedOutEE, TimedOutJoint, Reply, ReplyEE, ReplyJoint,
         QueueActions, QueueActionsEE, QueueActionsJoint, NextCycle
<1>2. CASE CommandThread
  BY <1>2 DEF CommandThread, SampleEE, SampleJoint, ApplyEE, ApplyJoint
<1>3. CASE Start \/ Finish
  BY <1>3 DEF Start, ReadyEE, ReadyJoint, StartFailsEE, StartFailsJoint,
         Finish, JoinEE, JoinJoint, StopRobot, StopJoint
<1>4. CASE Approve \/ Reject \/ Leave
  BY <1>4 DEF Approve, Reject, Leave, LeaveEE, LeaveJoint
<1>5. CASE Tick
  BY <1>5 DEF Tick
<1>6. CASE Terminated \/ UNCHANGED vars
  BY <1>6 DEF Terminated, vars
<1>7. QED
  BY <1>1, <1>2, <1>3, <1>4, <1>5, <1>6 DEF Next

LEMMA QuietStep == ExitInv /\ [Next]_vars => (main = "exited" => UNCHANGED last)
<1> SUFFICES ASSUME ExitInv, [Next]_vars, main = "exited" PROVE UNCHANGED last
  OBVIOUS
<1>1. ~command /\ sampled = NoTarget
  BY DEF ExitInv
<1> USE DEF threads, clientVars, planVars, robotVars
<1>2. CASE InferenceThread
  BY <1>2
     DEF InferenceThread, Observe, ObserveEE, ObserveJoint, Send, SendEE, SendJoint,
         TimedOut, TimedOutEE, TimedOutJoint, Reply, ReplyEE, ReplyJoint,
         QueueActions, QueueActionsEE, QueueActionsJoint, NextCycle
<1>3. CASE CommandThread
  BY <1>1, <1>3 DEF CommandThread, SampleEE, SampleJoint, ApplyEE, ApplyJoint
<1>4. CASE Start \/ Finish
  BY <1>4 DEF Start, ReadyEE, ReadyJoint, StartFailsEE, StartFailsJoint,
         Finish, JoinEE, JoinJoint, StopRobot, StopJoint
<1>5. CASE Approve \/ Reject \/ Leave
  BY <1>5 DEF Approve, Reject, Leave, LeaveEE, LeaveJoint
<1>6. CASE Tick
  BY <1>6 DEF Tick
<1>7. CASE Terminated \/ UNCHANGED vars
  BY <1>7 DEF Terminated, vars
<1>8. QED
  BY <1>2, <1>3, <1>4, <1>5, <1>6, <1>7 DEF Next

\* Nothing is executed after the robot has been stopped, not even by an inference thread
\* that outlives the program's end and queues a late reply.
THEOREM PolicyQuietAfterExit == Spec => QuietAfterExit
<1>1. Init => ExitInv
  BY DEF Init, ExitInv
<1>2. ExitInv /\ [Next]_vars => [main = "exited" => UNCHANGED last]_vars
  BY QuietStep
<1>3. QED
  BY <1>1, <1>2, NextExit, PTL DEF Spec, QuietAfterExit

=============================================================================
