--------------------------- MODULE JumpBack_proof ---------------------------
(***************************************************************************)
(* Proofs about JumpBack, for any files, limits and length of the history. *)
(***************************************************************************)
EXTENDS JumpBack, SequenceTheorems, TLAPS

\* A line beyond the end is the last line of the file, none is negative.
LEMMA ClampedRange ==
  ASSUME NEW f \in Files, NEW n \in Nat
  PROVE  Clamped(f, n) \in 0..LastLine[f]
BY FilesAssumption DEF Clamped

\* What a position is made of.
LEMMA PositionType ==
  ASSUME NEW p \in Positions
  PROVE  /\ p.file \in Files
         /\ p.line \in 0..LastLine[p.file]
         /\ p.line \in Nat
         /\ p = [file |-> p.file, line |-> p.line]
BY FilesAssumption DEF Positions, PositionsIn

\* Its converse, for the targets of a jump.
LEMMA IsPosition ==
  ASSUME NEW f \in Files, NEW n \in 0..LastLine[f]
  PROVE  [file |-> f, line |-> n] \in Positions
BY DEF Positions, PositionsIn

\* A jump ends on a line that exists.
LEMMA TargetsType ==
  ASSUME NEW tag \in [file : Files, line : Nat], cur \in Positions
  PROVE  Targets(tag) \subseteq Positions
<1> DEFINE Here(f) == IF tag.line = 0 THEN PositionsIn(f)
                      ELSE {[file |-> f, line |-> Clamped(f, tag.line - 1)]}
<1>1. ASSUME NEW f \in Files
      PROVE  Here(f) \subseteq Positions
  <2>1. CASE tag.line = 0
    BY <2>1 DEF Positions
  <2>2. CASE tag.line # 0
    <3>1. tag.line - 1 \in Nat
      BY <2>2
    <3>2. [file |-> f, line |-> Clamped(f, tag.line - 1)] \in Positions
      BY <3>1, ClampedRange, IsPosition
    <3> QED BY <2>2, <3>2
  <2> QED BY <2>1, <2>2
<1> DEFINE files == {IF opened THEN tag.file ELSE cur.file : opened \in CanOpen(tag.file)}
<1>2. files \subseteq Files
  BY PositionType
<1>3. Targets(tag) = UNION {Here(f) : f \in files}
  BY DEF Targets
<1> HIDE DEF Here, files
<1> QED BY <1>1, <1>2, <1>3

Places == [file : Files, line : Nat \ {0}]

\* A place has a file and a line counted from 1.
LEMMA PlaceType ==
  ASSUME NEW p \in Positions
  PROVE  Place(p) \in Places
BY PositionType DEF Place, Places

\* What the store of position p does to the stack: with room for it, and
\* without.
LEMMA PushedCases ==
  ASSUME stack \in Seq(Places), limit \in Int, NEW p \in Positions
  PROVE  \/ /\ Len(stack) + 1 <= limit
            /\ Pushed(stack, p) = Append(stack, Place(p))
         \/ /\ Len(stack) + 1 > limit
            /\ Pushed(stack, p) = Tail(Append(stack, Place(p)))
BY PlaceType, AppendProperties DEF Pushed

\* The last element comes off.
LEMMA PopFacts ==
  ASSUME NEW S, NEW s \in Seq(S), s # <<>>
  PROVE  /\ SubSeq(s, 1, Len(s) - 1) \in Seq(S)
         /\ Len(SubSeq(s, 1, Len(s) - 1)) = Len(s) - 1
         /\ \A k \in 1..Len(s) - 1 : SubSeq(s, 1, Len(s) - 1)[k] = s[k]
         /\ Len(s) \in 1..Len(s)
         /\ s[Len(s)] \in S
<1>1. Len(s) \in Nat /\ Len(s) # 0
  BY EmptySeq, LenProperties
<1>2. \A k \in 1..Len(s) : s[k] \in S
  BY ElementOfSeq
<1>3. \A k \in 1..Len(s) - 1 : s[k] \in S
  BY <1>1, <1>2
<1> DEFINE n == Len(s) - 1
<1>4. n \in Int /\ n >= 0
  BY <1>1
<1>5. /\ SubSeq(s, 1, n) \in Seq(S)
      /\ Len(SubSeq(s, 1, n)) = IF 1 <= n THEN n - 1 + 1 ELSE 0
      /\ \A k \in 1..n - 1 + 1 : SubSeq(s, 1, n)[k] = s[1 + k - 1]
  <2> HIDE DEF n
  <2>1. \A k \in 1..n : s[k] \in S
    BY <1>3 DEF n
  <2> QED BY <1>4, <2>1, SubSeqProperties
<1>6. /\ Len(SubSeq(s, 1, n)) = n
      /\ \A k \in 1..n : SubSeq(s, 1, n)[k] = s[k]
  <2> HIDE DEF n
  <2> QED BY <1>4, <1>5
<1>7. Len(s) \in 1..Len(s)
  BY <1>1
<1> QED BY <1>2, <1>5, <1>6, <1>7

-----------------------------------------------------------------------------
(***************************************************************************)
(* Type correctness.                                                       *)
(***************************************************************************)
LEMMA TypeInit == Init => TypeOK
BY DEF Init, TypeOK

\* A limit is a number, from wherever it comes.
LEMMA LimitType == TypeOK => limit \in Int
BY LimitsAssumption DEF TypeOK

\* A store keeps the types.
LEMMA StoreType ==
  ASSUME TypeOK, StoreCurrentPosition
  PROVE  stack' \in Seq(Places) /\ trail' \in Seq(Positions)
<1>1. stack \in Seq(Places) /\ trail \in Seq(Positions) /\ cur \in Positions
  BY DEF TypeOK, Places
<1>2. CASE cur.line = 0
  BY <1>1, <1>2 DEF StoreCurrentPosition
<1>3. CASE cur.line # 0
  <2>1. /\ Append(stack, Place(cur)) \in Seq(Places)
        /\ Append(stack, Place(cur)) # <<>>
    BY <1>1, PlaceType, AppendProperties
  <2>2. Tail(Append(stack, Place(cur))) \in Seq(Places)
    BY <2>1, HeadTailProperties
  <2>3. Pushed(stack, cur) \in Seq(Places)
    BY <1>1, <2>1, <2>2, PushedCases, LimitType
  <2>4. Append(trail, cur) \in Seq(Positions)
    BY <1>1
  <2> QED BY <1>3, <2>3, <2>4 DEF StoreCurrentPosition
<1> QED BY <1>2, <1>3

\* Every step keeps the types.
LEMMA TypeNext == TypeOK /\ [Next]_vars => TypeOK'
<1> SUFFICES ASSUME TypeOK, [Next]_vars
             PROVE  TypeOK'
  OBVIOUS
<1>0. limit' \in IniLimits => most' \in IniLimits
  BY DEF Next, Remember, vars, TypeOK
<1>1. ASSUME NEW tag \in TagPlaces, JumpToTag(tag)
      PROVE  TypeOK'
  <2>1. tag \in [file : Files, line : Nat]
    BY PlaceType DEF TagPlaces, Places
  <2>2. cur' \in Positions
    BY <1>1, <2>1, TargetsType DEF JumpToTag, TypeOK
  <2>3. stack' \in Seq(Places) /\ trail' \in Seq(Positions)
    BY <1>1, StoreType DEF JumpToTag
  <2>4. most' \in IniLimits
    BY <1>0, <1>1 DEF JumpToTag, TypeOK
  <2> QED BY <1>1, <2>2, <2>3, <2>4 DEF JumpToTag, TypeOK, Places
<1>2. CASE JumpBack
  <2>1. CASE stack = <<>>
    BY <1>0, <1>2, <2>1 DEF JumpBack, TypeOK
  <2>2. CASE stack # <<>>
    <3>1. stack \in Seq(Places)
      BY DEF TypeOK, Places
    <3>2. /\ SubSeq(stack, 1, Len(stack) - 1) \in Seq(Places)
          /\ stack[Len(stack)] \in Places
      BY <2>2, <3>1, PopFacts
    <3>3. stack[Len(stack)] \in [file : Files, line : Nat]
      BY <3>2 DEF Places
    <3>4. cur' \in Positions
      BY <1>2, <2>2, <3>3, TargetsType DEF JumpBack, TypeOK
    <3>5. stack' \in Seq([file : Files, line : Nat \ {0}])
      BY <1>2, <2>2, <3>2 DEF JumpBack, Places
    <3>6. trail' \in Seq(Positions)
      <4>1. CASE trail = <<>>
        <5>1. SubSeq(trail, 1, Len(trail) - 1) = <<>>
          BY <4>1, SubSeqEmpty
        <5>2. trail' = SubSeq(trail, 1, Len(trail) - 1)
          BY <1>2, <2>2 DEF JumpBack
        <5> QED BY <5>1, <5>2, EmptySeq
      <4>2. CASE trail # <<>>
        BY <1>2, <2>2, <4>2, PopFacts DEF JumpBack, TypeOK
      <4> QED BY <4>1, <4>2
    <3>7. most' \in IniLimits
      BY <1>0, <1>2 DEF JumpBack, TypeOK
    <3> QED BY <1>2, <3>4, <3>5, <3>6, <3>7 DEF JumpBack, TypeOK
  <2> QED BY <2>1, <2>2
<1>3. CASE Move
  BY <1>0, <1>3 DEF Move, TypeOK
<1>4. CASE SetJumpBackStack
  BY <1>0, <1>4, LimitsAssumption DEF SetJumpBackStack, TypeOK
<1>5. CASE UNCHANGED vars
  BY <1>5 DEF vars, TypeOK
<1> QED BY <1>1, <1>2, <1>3, <1>4, <1>5 DEF Next

\* Every variable keeps its type; in particular every stored Tag has a line
\* and never falls back on a pattern.
THEOREM TypeCorrect == Spec => []TypeOK
BY TypeInit, TypeNext, PTL DEF Spec

-----------------------------------------------------------------------------
(***************************************************************************)
(* The stack is the newest part of the trail.                              *)
(***************************************************************************)
\* Before the oldest position goes, the longer stack matches the longer trail.
LEMMA LongerMatches ==
  ASSUME TypeOK, StackIsTrail
  PROVE  \A k \in 1..Len(stack) + 1 :
           Append(stack, Place(cur))[k] =
             Place(Append(trail, cur)[Len(trail) - Len(stack) + k])
<1> DEFINE n == Len(stack)
           m == Len(trail)
<1>1. /\ stack \in Seq(Places) /\ trail \in Seq(Positions) /\ cur \in Positions
      /\ n \in Nat /\ m \in Nat /\ n <= m
  BY LenProperties DEF TypeOK, Places, StackIsTrail
<1>2. /\ \A k \in 1..n : Append(stack, Place(cur))[k] = stack[k]
      /\ Append(stack, Place(cur))[n + 1] = Place(cur)
  BY <1>1, PlaceType, AppendProperties
<1>3. /\ \A k \in 1..m : Append(trail, cur)[k] = trail[k]
      /\ Append(trail, cur)[m + 1] = cur
  BY <1>1, AppendProperties
<1>4. \A k \in 1..n : stack[k] = Place(trail[m - n + k])
  BY <1>1 DEF StackIsTrail
<1> SUFFICES ASSUME NEW k \in 1..n + 1
             PROVE  Append(stack, Place(cur))[k] = Place(Append(trail, cur)[m - n + k])
  OBVIOUS
<1> HIDE DEF n, m
<1>5. CASE k = n + 1
  <2>1. m - n + k = m + 1
    BY <1>1, <1>5
  <2> QED BY <1>2, <1>3, <1>5, <2>1
<1>6. CASE k \in 1..n
  <2>1. m - n + k \in 1..m
    BY <1>1, <1>6
  <2> QED BY <1>2, <1>3, <1>4, <1>6, <2>1
<1>7. k = n + 1 \/ k \in 1..n
  BY <1>1
<1> QED BY <1>5, <1>6, <1>7

\* A store keeps the stack the newest part of the trail, also when it drops the oldest position.
LEMMA TrailStore ==
  ASSUME TypeOK, StackIsTrail, StoreCurrentPosition
  PROVE  StackIsTrail' /\ Len(stack') >= Len(stack)
<1>1. CASE cur.line = 0
  BY <1>1, LenProperties DEF StoreCurrentPosition, StackIsTrail, TypeOK
<1>2. CASE cur.line # 0
  <2> DEFINE n == Len(stack)
             m == Len(trail)
             longer == Append(stack, Place(cur))
  <2>1. /\ stack \in Seq(Places) /\ trail \in Seq(Positions) /\ cur \in Positions
        /\ n \in Nat /\ m \in Nat /\ n <= m
    BY LenProperties DEF TypeOK, Places, StackIsTrail
  <2>2. /\ longer \in Seq(Places) /\ longer # <<>>
        /\ Len(longer) = n + 1
        /\ Len(Append(trail, cur)) = m + 1
    BY <2>1, PlaceType, AppendProperties
  <2>3. \A k \in 1..n + 1 : longer[k] = Place(Append(trail, cur)[m - n + k])
    BY LongerMatches
  <2>4. trail' = Append(trail, cur) /\ stack' = Pushed(stack, cur)
    BY <1>2 DEF StoreCurrentPosition
  <2>5. CASE Pushed(stack, cur) = longer
    <3> HIDE DEF n, m, longer
    <3>1. Len(stack') = n + 1 /\ Len(trail') = m + 1
      BY <2>2, <2>4, <2>5
    <3>2. DOMAIN stack' = 1..n + 1
      BY <2>2, <2>4, <2>5, LenProperties
    <3>3. m + 1 - (n + 1) = m - n
      BY <2>1
    <3>4. ASSUME NEW k \in 1..n + 1
          PROVE  stack'[k] = Place(trail'[Len(trail') - Len(stack') + k])
      <4>1. Len(trail') - Len(stack') + k = m - n + k
        BY <2>1, <3>1, <3>3
      <4>2. longer[k] = Place(Append(trail, cur)[m - n + k])
        BY <2>3
      <4> QED BY <2>4, <2>5, <4>1, <4>2
    <3>5. Len(stack') <= Len(trail') /\ Len(stack') >= n
      BY <2>1, <3>1
    <3> QED BY <3>2, <3>4, <3>5 DEF StackIsTrail, n
  <2>6. CASE Pushed(stack, cur) = Tail(longer)
    <3> HIDE DEF n, m, longer
    <3>1. /\ Tail(longer) \in Seq(Places)
          /\ Len(Tail(longer)) = n
          /\ \A k \in 1..n : Tail(longer)[k] = longer[k + 1]
      BY <2>1, <2>2, HeadTailProperties
    <3>2. Len(stack') = n /\ Len(trail') = m + 1 /\ DOMAIN stack' = 1..n
      BY <2>2, <2>4, <2>6, <3>1, LenProperties
    <3>3. ASSUME NEW k \in 1..n
          PROVE  stack'[k] = Place(trail'[Len(trail') - Len(stack') + k])
      <4>1. k + 1 \in 1..n + 1 /\ m - n + (k + 1) = m + 1 - n + k
        BY <2>1
      <4>2. Len(trail') - Len(stack') + k = m - n + (k + 1)
        BY <2>1, <3>2, <4>1
      <4>3. longer[k + 1] = Place(Append(trail, cur)[m - n + (k + 1)])
        BY <2>3, <4>1
      <4>4. stack'[k] = longer[k + 1]
        BY <2>4, <2>6, <3>1
      <4> QED BY <2>4, <4>2, <4>3, <4>4
    <3>4. Len(stack') <= Len(trail') /\ Len(stack') >= n
      BY <2>1, <3>2
    <3> QED BY <3>2, <3>3, <3>4 DEF StackIsTrail, n
  <2> QED BY <2>1, <2>4, <2>5, <2>6, PushedCases, LimitType
<1> QED BY <1>1, <1>2

\* A jump back takes the same position off both.
LEMMA TrailBack ==
  ASSUME TypeOK, StackIsTrail, JumpBack, stack # <<>>
  PROVE  StackIsTrail'
<1> DEFINE n == Len(stack)
           m == Len(trail)
<1>1. /\ stack \in Seq(Places) /\ trail \in Seq(Positions)
      /\ n \in Nat /\ m \in Nat /\ n <= m /\ n # 0
  BY EmptySeq, LenProperties DEF TypeOK, Places, StackIsTrail
<1>2. trail # <<>>
  BY <1>1
<1>3. stack' = SubSeq(stack, 1, n - 1) /\ trail' = SubSeq(trail, 1, m - 1)
  BY DEF JumpBack
<1>4. /\ stack' \in Seq(Places)
      /\ Len(stack') = n - 1
      /\ \A k \in 1..n - 1 : stack'[k] = stack[k]
  BY <1>1, <1>3, PopFacts
<1>5. /\ Len(trail') = m - 1
      /\ \A k \in 1..m - 1 : trail'[k] = trail[k]
  BY <1>1, <1>2, <1>3, PopFacts
<1>6. \A k \in 1..n : stack[k] = Place(trail[m - n + k])
  BY <1>1 DEF StackIsTrail
<1>7. DOMAIN stack' = 1..n - 1
  BY <1>4, LenProperties
<1> HIDE DEF n, m
<1>8. ASSUME NEW k \in 1..n - 1
      PROVE  stack'[k] = Place(trail'[Len(trail') - Len(stack') + k])
  <2>1. /\ k \in 1..n
        /\ m - n + k \in 1..m - 1
        /\ (m - 1) - (n - 1) + k = m - n + k
    BY <1>1
  <2> QED BY <1>4, <1>5, <1>6, <2>1
<1>9. Len(stack') <= Len(trail')
  BY <1>1, <1>4, <1>5
<1> QED BY <1>7, <1>8, <1>9 DEF StackIsTrail

\* Every step keeps the stack the newest part of the trail.
LEMMA TrailNext ==
  ASSUME TypeOK, StackIsTrail, [Next]_vars
  PROVE  StackIsTrail'
<1>1. ASSUME NEW tag \in TagPlaces, JumpToTag(tag)
      PROVE  StackIsTrail'
  BY <1>1, TrailStore DEF JumpToTag
<1>2. CASE JumpBack
  <2>1. CASE stack = <<>>
    BY <1>2, <2>1 DEF JumpBack, StackIsTrail
  <2> QED BY <1>2, <2>1, TrailBack
<1>3. CASE Move \/ SetJumpBackStack \/ UNCHANGED vars
  BY <1>3 DEF Move, SetJumpBackStack, vars, StackIsTrail
<1> QED BY <1>1, <1>2, <1>3 DEF Next

\* The stack holds the newest positions stored and not returned to, in their
\* order: whatever the limit did, only the oldest ones are forgotten.
THEOREM NewestKept == Spec => []StackIsTrail
<1>1. Init => StackIsTrail
  BY DEF Init, StackIsTrail
<1> QED
  BY <1>1, TrailNext, TypeCorrect, PTL DEF Spec

-----------------------------------------------------------------------------
(***************************************************************************)
(* What follows from it.                                                   *)
(***************************************************************************)
\* The history of the limits includes the present one.
BoundInv == StackBounded /\ limit <= most

\* The history never forgets a limit while the stack holds a position.
LEMMA MostNext ==
  ASSUME TypeOK, BoundInv, [Next]_vars
  PROVE  limit' <= most' /\ (stack' # <<>> => most <= most')
<1>1. limit \in Int /\ most \in Int /\ limit' \in Int
  <2>1. limit' \in IniLimits
    BY TypeNext DEF TypeOK
  <2> QED BY <2>1, LimitsAssumption DEF TypeOK
<1>2. CASE UNCHANGED vars
  BY <1>1, <1>2 DEF vars, BoundInv
<1>3. CASE Remember
  BY <1>1, <1>3 DEF Remember
<1> QED BY <1>2, <1>3 DEF Next

\* The bound: a store makes the stack longer only within the limit.
LEMMA BoundedNext ==
  ASSUME TypeOK, StackIsTrail, BoundInv, [Next]_vars
  PROVE  BoundInv'
<1>0. /\ limit' <= most' /\ (stack' # <<>> => most <= most')
      /\ limit \in Int /\ most \in Int /\ most' \in Int /\ limit <= most
  <2>1. most' \in IniLimits
    BY TypeNext DEF TypeOK
  <2> QED BY <2>1, MostNext, LimitsAssumption DEF TypeOK, BoundInv
<1> SUFFICES StackBounded'
  BY <1>0 DEF BoundInv
<1>0a. StackBounded /\ Len(stack) \in Nat
  BY LenProperties DEF BoundInv, TypeOK
<1>1. ASSUME NEW tag \in TagPlaces, JumpToTag(tag)
      PROVE  StackBounded'
  <2>1. CASE cur.line = 0
    BY <1>0, <1>0a, <1>1, <2>1 DEF JumpToTag, StoreCurrentPosition, StackBounded
  <2>2. CASE cur.line # 0
    <3>1. /\ stack \in Seq(Places) /\ cur \in Positions
          /\ limit \in Int /\ limit \in IniLimits
      BY LimitType DEF TypeOK, Places
    <3>2. stack' = Pushed(stack, cur)
      BY <1>1, <2>2 DEF JumpToTag, StoreCurrentPosition
    <3>3. /\ Append(stack, Place(cur)) \in Seq(Places)
          /\ Append(stack, Place(cur)) # <<>>
          /\ Len(Append(stack, Place(cur))) = Len(stack) + 1
      BY <3>1, PlaceType, AppendProperties
    <3>4. CASE Len(stack) + 1 <= limit /\ stack' = Append(stack, Place(cur))
      BY <1>0, <3>1, <3>3, <3>4 DEF StackBounded
    <3>5. CASE stack' = Tail(Append(stack, Place(cur)))
      <4>1. stack' \in Seq(Places) /\ Len(stack') = Len(stack)
        BY <3>1, <3>3, <3>5, HeadTailProperties
      <4>2. stack = <<>> => stack' = <<>>
        BY <3>1, <4>1, EmptySeq
      <4> QED BY <1>0, <1>0a, <4>1, <4>2 DEF StackBounded
    <3> QED BY <3>1, <3>2, <3>4, <3>5, PushedCases
  <2> QED BY <2>1, <2>2
<1>2. CASE JumpBack
  <2>1. CASE stack = <<>>
    BY <1>2, <2>1 DEF JumpBack, StackBounded
  <2>2. CASE stack # <<>>
    <3>1. stack \in Seq(Places)
      BY DEF TypeOK, Places
    <3>2. Len(stack') = Len(stack) - 1
      BY <1>2, <2>2, <3>1, PopFacts DEF JumpBack
    <3>3. Len(stack) <= most
      BY <1>0a, <2>2 DEF StackBounded
    <3> QED BY <1>0, <1>0a, <3>2, <3>3 DEF StackBounded
  <2> QED BY <2>1, <2>2
<1>3. CASE Move \/ SetJumpBackStack \/ UNCHANGED vars
  BY <1>0, <1>0a, <1>3 DEF Move, SetJumpBackStack, vars, StackBounded
<1> QED BY <1>1, <1>2, <1>3 DEF Next

\* Whatever limits the options dialog and the ini file set, the stack never
\* outgrows the largest there has been since it was last empty.
THEOREM Bounded == Spec => []StackBounded
<1>1. Init => BoundInv
  BY LimitsAssumption DEF Init, BoundInv, StackBounded
<1>2. BoundInv => StackBounded
  BY DEF BoundInv
<1> QED
  BY <1>1, <1>2, BoundedNext, TypeCorrect, NewestKept, PTL DEF Spec

\* A jump back lands where the tag taken off the stack says, which is where
\* the newest position of the trail is.
LEMMA BackStep ==
  ASSUME TypeOK, StackIsTrail, [Next]_vars, Len(stack') < Len(stack)
  PROVE  LET p == trail[Len(trail)] IN
         /\ cur'.file \in {p.file, cur.file}
         /\ cur'.file = p.file => cur' = p
<1> DEFINE n == Len(stack)
           p == trail[Len(trail)]
<1>1. /\ stack \in Seq(Places) /\ trail \in Seq(Positions)
      /\ n \in Nat /\ Len(trail) \in Nat /\ n <= Len(trail)
  BY LenProperties DEF TypeOK, Places, StackIsTrail
<1>2. JumpBack /\ stack # <<>>
  <2>1. ASSUME NEW tag \in TagPlaces, JumpToTag(tag)
        PROVE  FALSE
    <3>1. Len(stack') \in Nat /\ Len(stack') >= Len(stack)
      BY <2>1, TrailStore, StoreType, LenProperties DEF JumpToTag
    <3> QED BY <1>1, <3>1
  <2>2. stack' # stack
    BY <1>1
  <2>3. ~(Move \/ SetJumpBackStack \/ UNCHANGED vars)
    BY <2>2 DEF Move, SetJumpBackStack, vars
  <2>4. stack # <<>>
    BY <2>1, <2>2, <2>3 DEF Next, JumpBack
  <2> QED BY <2>1, <2>3, <2>4 DEF Next
<1>3. n # 0
  BY <1>1, <1>2, EmptySeq
<1>4. stack[n] = Place(p)
  <2>1. n \in DOMAIN stack /\ Len(trail) - n + n = Len(trail)
    BY <1>1, <1>3, LenProperties
  <2> QED BY <1>1, <2>1 DEF StackIsTrail
<1>5. p \in Positions
  BY <1>1, <1>3, ElementOfSeq
<1> HIDE DEF n, p
<1>6. cur' \in Targets(Place(p))
  BY <1>2, <1>4 DEF JumpBack, n
<1>7. /\ Place(p).file = p.file
      /\ Place(p).line # 0
      /\ Place(p).line - 1 = p.line
  BY <1>5, PositionType DEF Place
<1>8. PICK f \in {p.file, cur.file} :
        cur' = [file |-> f, line |-> Clamped(f, p.line)]
  BY <1>6, <1>7 DEF Targets
<1>9. Clamped(p.file, p.line) = p.line
  BY <1>5, PositionType, FilesAssumption DEF Clamped
<1>10. cur'.file = f
  BY <1>8
<1>11. cur'.file = p.file => cur' = p
  BY <1>5, <1>8, <1>9, <1>10, PositionType
<1> QED BY <1>10, <1>11 DEF p

\* A jump back that gets into the file ends on the very line that was left:
\* the two numberings of lines cancel out.
THEOREM JumpBackExact == Spec => BackReturns
<1>1. TypeOK /\ StackIsTrail /\ [Next]_vars =>
        [LET p == trail[Len(trail)] IN
         Len(stack') < Len(stack) =>
           /\ cur'.file \in {p.file, cur.file}
           /\ cur'.file = p.file => cur' = p]_vars
  BY BackStep
<1> QED
  BY <1>1, TypeCorrect, NewestKept, PTL DEF Spec, BackReturns
=============================================================================
