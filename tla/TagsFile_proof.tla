--------------------------- MODULE TagsFile_proof ---------------------------
(***************************************************************************)
(* Proofs about TagsFile, for every set of tags files, of lines of every   *)
(* length and with any number of fields, and for every size of the buffer. *)
(*                                                                         *)
(* The inductive invariant says where the reader stands: at the begin of a *)
(* line or, of a line it has read, before what is left of its end          *)
(* (Reader); that only the head of the file has been passed over when it   *)
(* was opened (Header); that the line that is taken apart is the one that  *)
(* was read last, and its first fields are in the list (Parsed), which has *)
(* room for them (Fits); and that the rows, read back, are the tags of the *)
(* lines before it (Stored).                                               *)
(*                                                                         *)
(* What a fold computes is proved by induction: the function that FoldLeft *)
(* is defined by is shown to exist, by one element more, and then to take  *)
(* the elements one after the other. The Tag that AssignFrom folds from a  *)
(* line is in this way the Tag that TagOf reads from it.                   *)
(***************************************************************************)
EXTENDS TagsFile, FiniteSetTheorems, WellFoundedInduction, TLAPS

-----------------------------------------------------------------------------
(***************************************************************************)
(* Numbers, and the greatest of some of them.                              *)
(***************************************************************************)
\* A set of natural numbers has a least element: of the intervals from zero
\* to them, one has no other inside it.
LEMMA LeastNatural ==
  ASSUME NEW K \in SUBSET Nat, K # {}
  PROVE  \E k \in K : \A m \in K : k <= m
<1> DEFINE T == {0..k : k \in K}
<1>1. IsWellFoundedOn(StrictSubsetOrdering(Nat), FiniteSubsetsOf(Nat))
  BY FS_StrictSubsetOrderingWellFounded
<1>2. T \subseteq FiniteSubsetsOf(Nat)
  <2>1. ASSUME NEW k \in K PROVE 0..k \in FiniteSubsetsOf(Nat)
    <3>1. k \in Int /\ 0 \in Int /\ 0..k \subseteq Nat
      OBVIOUS
    <3> QED BY <3>1, FS_Interval DEF FiniteSubsetsOf
  <2> QED BY <2>1
<1>3. PICK x \in T : \A y \in T : ~(<<y, x>> \in StrictSubsetOrdering(Nat))
  <2>1. T # {}
    OBVIOUS
  <2> HIDE DEF T
  <2> QED
    BY <1>1, <1>2, <2>1, WFMin
<1>4. PICK k \in K : x = 0..k
  BY <1>3
<1>5. ASSUME NEW m \in K, m < k PROVE FALSE
  <2>1. 0..m \in T /\ 0..m \subseteq 0..k /\ k \in 0..k /\ k \notin 0..m
    BY <1>5
  <2>2. 0..m \subseteq Nat /\ 0..k \subseteq Nat
    OBVIOUS
  <2>3. <<0..m, 0..k>> \in StrictSubsetOrdering(Nat)
    BY <2>1, <2>2 DEF StrictSubsetOrdering
  <2> QED
    BY <1>3, <1>4, <2>1, <2>3
<1> QED
  BY <1>5

\* Induction over the numbers a set holds.
LEMMA SetInduction ==
  ASSUME NEW S, 0 \in S, \A n \in Nat : n \in S => n + 1 \in S
  PROVE  \A n \in Nat : n \in S
<1> SUFFICES ASSUME NEW n \in Nat, n \notin S PROVE FALSE
  OBVIOUS
<1>1. PICK k \in Nat \ S : \A m \in Nat \ S : k <= m
  BY LeastNatural
<1>2. k # 0 /\ k - 1 \in Nat /\ (k - 1) + 1 = k
  BY <1>1
<1>3. k - 1 \in S
  BY <1>1, <1>2
<1> QED
  BY <1>1, <1>2, <1>3

\* What Max returns.
LEMMA MaxIs ==
  ASSUME NEW n \in Nat, NEW K \in SUBSET (1..n), K # {}
  PROVE  Max(K) \in K /\ \A k \in K : Max(K) >= k
<1> DEFINE Low == {n - k : k \in K}
<1>1. Low \in SUBSET Nat /\ Low # {}
  <2>1. \A k \in K : n - k \in Nat
    OBVIOUS
  <2>2. PICK k \in K : TRUE
    OBVIOUS
  <2>3. n - k \in Low
    BY <2>2
  <2> QED BY <2>1, <2>3, Zenon
<1>2. PICK l \in Low : \A m \in Low : l <= m
  BY <1>1, LeastNatural
<1>3. PICK x \in K : l = n - x
  BY <1>2
<1>4. ASSUME NEW k \in K PROVE x >= k
  <2>1. n - k \in Low
    OBVIOUS
  <2>2. l <= n - k
    BY <1>2, <2>1
  <2> QED BY <1>3, <2>2
<1>5. \E y \in K : \A k \in K : y >= k
  BY <1>4
<1> QED BY <1>5 DEF Max

\* The greatest of them when n + 1 is one, and what is left without it.
LEMMA MaxIsLast ==
  ASSUME NEW n \in Nat, NEW K \in SUBSET (1..(n + 1)), n + 1 \in K
  PROVE  Max(K) = n + 1 /\ K \ {Max(K)} \in SUBSET (1..n)
<1>1. n + 1 \in Nat /\ K # {}
  OBVIOUS
<1>2. Max(K) \in K /\ \A k \in K : Max(K) >= k
  BY <1>1, MaxIs
<1>3. Max(K) \in 1..(n + 1) /\ Max(K) >= n + 1
  BY <1>2
<1>4. Max(K) = n + 1
  BY <1>3
<1> QED BY <1>4

-----------------------------------------------------------------------------
(***************************************************************************)
(* FoldLeft, one element after the other.                                  *)
(***************************************************************************)
AllAssigned(b, s) == FoldLeft(AssignField, b, s)
OthersOf(s) == FoldLeft(AddOther, <<>>, s)

AssignTree(h, s, b, n) ==
  h = [x \in SUBSET (1..n) |-> IF x = {} THEN b ELSE AssignField(h[x \ {Max(x)}], s[Max(x)])]

\* The function that FoldLeft is defined by exists for AssignField.
LEMMA AssignTreeExists ==
  ASSUME NEW s, NEW b
  PROVE  \A n \in Nat : \E h : AssignTree(h, s, b, n)
<1> DEFINE S == {n \in Nat : \E h : AssignTree(h, s, b, n)}
<1>1. 0 \in S
  <2>1. SUBSET (1..0) = {{}}
    OBVIOUS
  <2>2. AssignTree([x \in SUBSET (1..0) |-> b], s, b, 0)
    BY <2>1, Zenon DEF AssignTree
  <2> QED BY <2>2
<1>2. ASSUME NEW n \in Nat, n \in S PROVE n + 1 \in S
  <2>1. PICK h : AssignTree(h, s, b, n)
    BY <1>2
  <2> DEFINE e(x) == IF x = {} THEN b
                     ELSE IF n + 1 \in x THEN AssignField(h[x \ {n + 1}], s[n + 1]) ELSE h[x]
             g == [x \in SUBSET (1..(n + 1)) |-> e(x)]
  <2>2. h[{}] = b /\ \A x \in SUBSET (1..n) : x # {} => h[x] = AssignField(h[x \ {Max(x)}], s[Max(x)])
    <3>1. {} \in SUBSET (1..n)
      OBVIOUS
    <3> QED BY <2>1, <3>1, Zenon DEF AssignTree
  <2>3. \A x \in SUBSET (1..n) : x \in SUBSET (1..(n + 1)) /\ g[x] = h[x]
    <3> SUFFICES ASSUME NEW x \in SUBSET (1..n) PROVE x \in SUBSET (1..(n + 1)) /\ g[x] = h[x]
      OBVIOUS
    <3>1. x \in SUBSET (1..(n + 1)) /\ n + 1 \notin x
      OBVIOUS
    <3> QED BY <2>2, <3>1, Zenon
  <2>4. ASSUME NEW x \in SUBSET (1..(n + 1)), x # {}
        PROVE  g[x] = AssignField(g[x \ {Max(x)}], s[Max(x)])
    <3>1. CASE n + 1 \in x
      <4>1. Max(x) = n + 1 /\ x \ {Max(x)} \in SUBSET (1..n)
        BY <3>1, MaxIsLast
      <4>2. g[x] = AssignField(h[x \ {n + 1}], s[n + 1])
        BY <2>4, <3>1, Zenon
      <4>3. g[x \ {Max(x)}] = h[x \ {n + 1}]
        BY <2>3, <4>1
      <4> HIDE DEF g
      <4> QED BY <4>1, <4>2, <4>3, Zenon
    <3>2. CASE n + 1 \notin x
      <4>1. x \in SUBSET (1..n)
        BY <3>2
      <4>2. x \ {Max(x)} \in SUBSET (1..n)
        BY <4>1
      <4>3. g[x] = h[x] /\ g[x \ {Max(x)}] = h[x \ {Max(x)}]
        BY <2>3, <4>1, <4>2
      <4> HIDE DEF g
      <4> QED BY <2>2, <2>4, <4>1, <4>3, Zenon
    <3> QED BY <3>1, <3>2
  <2>5. g[{}] = b
    BY Zenon
  <2>6. AssignTree(g, s, b, n + 1)
    <3> DEFINE d == [x \in SUBSET (1..(n + 1)) |->
                       IF x = {} THEN b ELSE AssignField(g[x \ {Max(x)}], s[Max(x)])]
    <3>1. \A x \in SUBSET (1..(n + 1)) : g[x] = d[x]
      <4> HIDE DEF g
      <4> QED BY <2>4, <2>5, Zenon
    <3>2. g = d
      BY <3>1, Zenon
    <3> HIDE DEF g
    <3> QED BY <3>2, Zenon DEF AssignTree
  <2> HIDE DEF g
  <2> QED BY <2>6
<1>3. \A n \in Nat : n \in S
  <2> HIDE DEF S
  <2> QED BY <1>1, <1>2, SetInduction
<1> QED BY <1>3

\* What the function makes of the first k.
LEMMA UpTo ==
  ASSUME NEW n \in Nat, NEW k \in Nat, k < n
  PROVE  /\ 1..(k + 1) \in SUBSET (1..n) /\ 1..(k + 1) # {}
         /\ Max(1..(k + 1)) = k + 1 /\ (1..(k + 1)) \ {k + 1} = 1..k
<1>1. 1..(k + 1) \in SUBSET (1..n) /\ k + 1 \in 1..(k + 1)
  OBVIOUS
<1>2. 1..(k + 1) \in SUBSET (1..(k + 1))
  OBVIOUS
<1>3. Max(1..(k + 1)) = k + 1
  BY <1>1, <1>2, MaxIsLast
<1>4. (1..(k + 1)) \ {k + 1} = 1..k
  <2>1. \A x : x \in (1..(k + 1)) \ {k + 1} <=> x \in 1..k
    OBVIOUS
  <2> QED BY <2>1
<1> QED BY <1>1, <1>3, <1>4

\* So AssignFrom takes the fields one after the other.
LEMMA AssignFolds ==
  ASSUME NEW T, NEW s \in Seq(T), NEW b
  PROVE  \E g : /\ g[0] = b /\ g[Len(s)] = AllAssigned(b, s)
                /\ \A k \in Nat : k < Len(s) => g[k + 1] = AssignField(g[k], s[k + 1])
<1>1. Len(s) \in Nat /\ DOMAIN s = 1..Len(s)
  OBVIOUS
<1> DEFINE h == CHOOSE h : AssignTree(h, s, b, Len(s))
           g == [k \in Nat |-> h[1..k]]
<1>2. AssignTree(h, s, b, Len(s))
  BY <1>1, AssignTreeExists
<1>3. FoldLeft(AssignField, b, s) = h[1..Len(s)]
  <2>1. FoldLeft(AssignField, b, s) =
          LET iter[x \in SUBSET (DOMAIN s)] ==
                IF x = {} THEN b ELSE AssignField(iter[x \ {Max(x)}], s[Max(x)])
          IN  iter[DOMAIN s]
    BY Zenon DEF FoldLeft, MapThenFoldSet
  <2> QED BY <1>1, <2>1, Zenon DEF AssignTree
<1> HIDE DEF h
<1>4. h[{}] = b /\ \A x \in SUBSET (1..Len(s)) :
                     x # {} => h[x] = AssignField(h[x \ {Max(x)}], s[Max(x)])
  <2>1. {} \in SUBSET (1..Len(s))
    OBVIOUS
  <2> QED BY <1>2, <2>1, Zenon DEF AssignTree
<1>5. g[0] = b
  <2>1. 1..0 = {}
    OBVIOUS
  <2> QED BY <1>4, <2>1
<1>6. ASSUME NEW k \in Nat, k < Len(s) PROVE g[k + 1] = AssignField(g[k], s[k + 1])
  <2>1. k + 1 \in Nat
    OBVIOUS
  <2>2. g[k + 1] = h[1..(k + 1)] /\ g[k] = h[1..k]
    BY <2>1
  <2>3. /\ 1..(k + 1) \in SUBSET (1..Len(s)) /\ 1..(k + 1) # {}
        /\ Max(1..(k + 1)) = k + 1 /\ (1..(k + 1)) \ {k + 1} = 1..k
    BY <1>1, <1>6, UpTo
  <2> HIDE DEF g
  <2> QED BY <1>4, <2>2, <2>3, Zenon
<1>7. g[Len(s)] = AllAssigned(b, s)
  BY <1>1, <1>3 DEF AllAssigned
<1> HIDE DEF g
<1> QED BY <1>5, <1>6, <1>7

OtherTree(h, s, b, n) ==
  h = [x \in SUBSET (1..n) |-> IF x = {} THEN b ELSE AddOther(h[x \ {Max(x)}], s[Max(x)])]

\* The function that FoldLeft is defined by exists for AddOther.
LEMMA OtherTreeExists ==
  ASSUME NEW s, NEW b
  PROVE  \A n \in Nat : \E h : OtherTree(h, s, b, n)
<1> DEFINE S == {n \in Nat : \E h : OtherTree(h, s, b, n)}
<1>1. 0 \in S
  <2>1. SUBSET (1..0) = {{}}
    OBVIOUS
  <2>2. OtherTree([x \in SUBSET (1..0) |-> b], s, b, 0)
    BY <2>1, Zenon DEF OtherTree
  <2> QED BY <2>2
<1>2. ASSUME NEW n \in Nat, n \in S PROVE n + 1 \in S
  <2>1. PICK h : OtherTree(h, s, b, n)
    BY <1>2
  <2> DEFINE e(x) == IF x = {} THEN b
                     ELSE IF n + 1 \in x THEN AddOther(h[x \ {n + 1}], s[n + 1]) ELSE h[x]
             g == [x \in SUBSET (1..(n + 1)) |-> e(x)]
  <2>2. h[{}] = b /\ \A x \in SUBSET (1..n) : x # {} => h[x] = AddOther(h[x \ {Max(x)}], s[Max(x)])
    <3>1. {} \in SUBSET (1..n)
      OBVIOUS
    <3> QED BY <2>1, <3>1, Zenon DEF OtherTree
  <2>3. \A x \in SUBSET (1..n) : x \in SUBSET (1..(n + 1)) /\ g[x] = h[x]
    <3> SUFFICES ASSUME NEW x \in SUBSET (1..n) PROVE x \in SUBSET (1..(n + 1)) /\ g[x] = h[x]
      OBVIOUS
    <3>1. x \in SUBSET (1..(n + 1)) /\ n + 1 \notin x
      OBVIOUS
    <3> QED BY <2>2, <3>1, Zenon
  <2>4. ASSUME NEW x \in SUBSET (1..(n + 1)), x # {}
        PROVE  g[x] = AddOther(g[x \ {Max(x)}], s[Max(x)])
    <3>1. CASE n + 1 \in x
      <4>1. Max(x) = n + 1 /\ x \ {Max(x)} \in SUBSET (1..n)
        BY <3>1, MaxIsLast
      <4>2. g[x] = AddOther(h[x \ {n + 1}], s[n + 1])
        BY <2>4, <3>1, Zenon
      <4>3. g[x \ {Max(x)}] = h[x \ {n + 1}]
        BY <2>3, <4>1
      <4> HIDE DEF g
      <4> QED BY <4>1, <4>2, <4>3, Zenon
    <3>2. CASE n + 1 \notin x
      <4>1. x \in SUBSET (1..n)
        BY <3>2
      <4>2. x \ {Max(x)} \in SUBSET (1..n)
        BY <4>1
      <4>3. g[x] = h[x] /\ g[x \ {Max(x)}] = h[x \ {Max(x)}]
        BY <2>3, <4>1, <4>2
      <4> HIDE DEF g
      <4> QED BY <2>2, <2>4, <4>1, <4>3, Zenon
    <3> QED BY <3>1, <3>2
  <2>5. g[{}] = b
    BY Zenon
  <2>6. OtherTree(g, s, b, n + 1)
    <3> DEFINE d == [x \in SUBSET (1..(n + 1)) |->
                       IF x = {} THEN b ELSE AddOther(g[x \ {Max(x)}], s[Max(x)])]
    <3>1. \A x \in SUBSET (1..(n + 1)) : g[x] = d[x]
      <4> HIDE DEF g
      <4> QED BY <2>4, <2>5, Zenon
    <3>2. g = d
      BY <3>1, Zenon
    <3> HIDE DEF g
    <3> QED BY <3>2, Zenon DEF OtherTree
  <2> HIDE DEF g
  <2> QED BY <2>6
<1>3. \A n \in Nat : n \in S
  <2> HIDE DEF S
  <2> QED BY <1>1, <1>2, SetInduction
<1> QED BY <1>3

\* TagOf takes the fields one after the other, too, ...
LEMMA OtherFolds ==
  ASSUME NEW T, NEW s \in Seq(T)
  PROVE  \E g : /\ g[0] = <<>> /\ g[Len(s)] = OthersOf(s)
                /\ \A k \in Nat : k < Len(s) => g[k + 1] = AddOther(g[k], s[k + 1])
<1>1. Len(s) \in Nat /\ DOMAIN s = 1..Len(s)
  OBVIOUS
<1> DEFINE h == CHOOSE h : OtherTree(h, s, <<>>, Len(s))
           g == [k \in Nat |-> h[1..k]]
<1>2. OtherTree(h, s, <<>>, Len(s))
  BY <1>1, OtherTreeExists
<1>3. OthersOf(s) = h[1..Len(s)]
  <2>1. OthersOf(s) =
          LET iter[x \in SUBSET (DOMAIN s)] ==
                IF x = {} THEN <<>> ELSE AddOther(iter[x \ {Max(x)}], s[Max(x)])
          IN  iter[DOMAIN s]
    BY Zenon DEF OthersOf, FoldLeft, MapThenFoldSet
  <2> QED BY <1>1, <2>1, Zenon DEF OtherTree
<1> HIDE DEF h
<1>4. h[{}] = <<>> /\ \A x \in SUBSET (1..Len(s)) :
                     x # {} => h[x] = AddOther(h[x \ {Max(x)}], s[Max(x)])
  <2>1. {} \in SUBSET (1..Len(s))
    OBVIOUS
  <2> QED BY <1>2, <2>1, Zenon DEF OtherTree
<1>5. g[0] = <<>>
  <2>1. 1..0 = {}
    OBVIOUS
  <2> QED BY <1>4, <2>1
<1>6. ASSUME NEW k \in Nat, k < Len(s) PROVE g[k + 1] = AddOther(g[k], s[k + 1])
  <2>1. k + 1 \in Nat
    OBVIOUS
  <2>2. g[k + 1] = h[1..(k + 1)] /\ g[k] = h[1..k]
    BY <2>1
  <2>3. /\ 1..(k + 1) \in SUBSET (1..Len(s)) /\ 1..(k + 1) # {}
        /\ Max(1..(k + 1)) = k + 1 /\ (1..(k + 1)) \ {k + 1} = 1..k
    BY <1>1, <1>6, UpTo
  <2> HIDE DEF g
  <2> QED BY <1>4, <2>2, <2>3, Zenon
<1>7. g[Len(s)] = OthersOf(s)
  BY <1>1, <1>3
<1> HIDE DEF g
<1> QED BY <1>5, <1>6, <1>7

TagTree(h, s, b, n) ==
  h = [x \in SUBSET (1..n) |-> IF x = {} THEN b ELSE AddTag(h[x \ {Max(x)}], s[Max(x)])]

\* The function that FoldLeft is defined by exists for AddTag.
LEMMA TagTreeExists ==
  ASSUME NEW s, NEW b
  PROVE  \A n \in Nat : \E h : TagTree(h, s, b, n)
<1> DEFINE S == {n \in Nat : \E h : TagTree(h, s, b, n)}
<1>1. 0 \in S
  <2>1. SUBSET (1..0) = {{}}
    OBVIOUS
  <2>2. TagTree([x \in SUBSET (1..0) |-> b], s, b, 0)
    BY <2>1, Zenon DEF TagTree
  <2> QED BY <2>2
<1>2. ASSUME NEW n \in Nat, n \in S PROVE n + 1 \in S
  <2>1. PICK h : TagTree(h, s, b, n)
    BY <1>2
  <2> DEFINE e(x) == IF x = {} THEN b
                     ELSE IF n + 1 \in x THEN AddTag(h[x \ {n + 1}], s[n + 1]) ELSE h[x]
             g == [x \in SUBSET (1..(n + 1)) |-> e(x)]
  <2>2. h[{}] = b /\ \A x \in SUBSET (1..n) : x # {} => h[x] = AddTag(h[x \ {Max(x)}], s[Max(x)])
    <3>1. {} \in SUBSET (1..n)
      OBVIOUS
    <3> QED BY <2>1, <3>1, Zenon DEF TagTree
  <2>3. \A x \in SUBSET (1..n) : x \in SUBSET (1..(n + 1)) /\ g[x] = h[x]
    <3> SUFFICES ASSUME NEW x \in SUBSET (1..n) PROVE x \in SUBSET (1..(n + 1)) /\ g[x] = h[x]
      OBVIOUS
    <3>1. x \in SUBSET (1..(n + 1)) /\ n + 1 \notin x
      OBVIOUS
    <3> QED BY <2>2, <3>1, Zenon
  <2>4. ASSUME NEW x \in SUBSET (1..(n + 1)), x # {}
        PROVE  g[x] = AddTag(g[x \ {Max(x)}], s[Max(x)])
    <3>1. CASE n + 1 \in x
      <4>1. Max(x) = n + 1 /\ x \ {Max(x)} \in SUBSET (1..n)
        BY <3>1, MaxIsLast
      <4>2. g[x] = AddTag(h[x \ {n + 1}], s[n + 1])
        BY <2>4, <3>1, Zenon
      <4>3. g[x \ {Max(x)}] = h[x \ {n + 1}]
        BY <2>3, <4>1
      <4> HIDE DEF g
      <4> QED BY <4>1, <4>2, <4>3, Zenon
    <3>2. CASE n + 1 \notin x
      <4>1. x \in SUBSET (1..n)
        BY <3>2
      <4>2. x \ {Max(x)} \in SUBSET (1..n)
        BY <4>1
      <4>3. g[x] = h[x] /\ g[x \ {Max(x)}] = h[x \ {Max(x)}]
        BY <2>3, <4>1, <4>2
      <4> HIDE DEF g
      <4> QED BY <2>2, <2>4, <4>1, <4>3, Zenon
    <3> QED BY <3>1, <3>2
  <2>5. g[{}] = b
    BY Zenon
  <2>6. TagTree(g, s, b, n + 1)
    <3> DEFINE d == [x \in SUBSET (1..(n + 1)) |->
                       IF x = {} THEN b ELSE AddTag(g[x \ {Max(x)}], s[Max(x)])]
    <3>1. \A x \in SUBSET (1..(n + 1)) : g[x] = d[x]
      <4> HIDE DEF g
      <4> QED BY <2>4, <2>5, Zenon
    <3>2. g = d
      BY <3>1, Zenon
    <3> HIDE DEF g
    <3> QED BY <3>2, Zenon DEF TagTree
  <2> HIDE DEF g
  <2> QED BY <2>6
<1>3. \A n \in Nat : n \in S
  <2> HIDE DEF S
  <2> QED BY <1>1, <1>2, SetInduction
<1> QED BY <1>3

UnescapeTree(h, s, b, n) ==
  h = [x \in SUBSET (1..n) |-> IF x = {} THEN b ELSE Unescape(h[x \ {Max(x)}], s[Max(x)])]

\* The function that FoldLeft is defined by exists for Unescape.
LEMMA UnescapeTreeExists ==
  ASSUME NEW s, NEW b
  PROVE  \A n \in Nat : \E h : UnescapeTree(h, s, b, n)
<1> DEFINE S == {n \in Nat : \E h : UnescapeTree(h, s, b, n)}
<1>1. 0 \in S
  <2>1. SUBSET (1..0) = {{}}
    OBVIOUS
  <2>2. UnescapeTree([x \in SUBSET (1..0) |-> b], s, b, 0)
    BY <2>1, Zenon DEF UnescapeTree
  <2> QED BY <2>2
<1>2. ASSUME NEW n \in Nat, n \in S PROVE n + 1 \in S
  <2>1. PICK h : UnescapeTree(h, s, b, n)
    BY <1>2
  <2> DEFINE e(x) == IF x = {} THEN b
                     ELSE IF n + 1 \in x THEN Unescape(h[x \ {n + 1}], s[n + 1]) ELSE h[x]
             g == [x \in SUBSET (1..(n + 1)) |-> e(x)]
  <2>2. h[{}] = b /\ \A x \in SUBSET (1..n) : x # {} => h[x] = Unescape(h[x \ {Max(x)}], s[Max(x)])
    <3>1. {} \in SUBSET (1..n)
      OBVIOUS
    <3> QED BY <2>1, <3>1, Zenon DEF UnescapeTree
  <2>3. \A x \in SUBSET (1..n) : x \in SUBSET (1..(n + 1)) /\ g[x] = h[x]
    <3> SUFFICES ASSUME NEW x \in SUBSET (1..n) PROVE x \in SUBSET (1..(n + 1)) /\ g[x] = h[x]
      OBVIOUS
    <3>1. x \in SUBSET (1..(n + 1)) /\ n + 1 \notin x
      OBVIOUS
    <3> QED BY <2>2, <3>1, Zenon
  <2>4. ASSUME NEW x \in SUBSET (1..(n + 1)), x # {}
        PROVE  g[x] = Unescape(g[x \ {Max(x)}], s[Max(x)])
    <3>1. CASE n + 1 \in x
      <4>1. Max(x) = n + 1 /\ x \ {Max(x)} \in SUBSET (1..n)
        BY <3>1, MaxIsLast
      <4>2. g[x] = Unescape(h[x \ {n + 1}], s[n + 1])
        BY <2>4, <3>1, Zenon
      <4>3. g[x \ {Max(x)}] = h[x \ {n + 1}]
        BY <2>3, <4>1
      <4> HIDE DEF g
      <4> QED BY <4>1, <4>2, <4>3, Zenon
    <3>2. CASE n + 1 \notin x
      <4>1. x \in SUBSET (1..n)
        BY <3>2
      <4>2. x \ {Max(x)} \in SUBSET (1..n)
        BY <4>1
      <4>3. g[x] = h[x] /\ g[x \ {Max(x)}] = h[x \ {Max(x)}]
        BY <2>3, <4>1, <4>2
      <4> HIDE DEF g
      <4> QED BY <2>2, <2>4, <4>1, <4>3, Zenon
    <3> QED BY <3>1, <3>2
  <2>5. g[{}] = b
    BY Zenon
  <2>6. UnescapeTree(g, s, b, n + 1)
    <3> DEFINE d == [x \in SUBSET (1..(n + 1)) |->
                       IF x = {} THEN b ELSE Unescape(g[x \ {Max(x)}], s[Max(x)])]
    <3>1. \A x \in SUBSET (1..(n + 1)) : g[x] = d[x]
      <4> HIDE DEF g
      <4> QED BY <2>4, <2>5, Zenon
    <3>2. g = d
      BY <3>1, Zenon
    <3> HIDE DEF g
    <3> QED BY <3>2, Zenon DEF UnescapeTree
  <2> HIDE DEF g
  <2> QED BY <2>6
<1>3. \A n \in Nat : n \in S
  <2> HIDE DEF S
  <2> QED BY <1>1, <1>2, SetInduction
<1> QED BY <1>3

\* The slashes are unescaped from left to right.
LEMMA UnescapeFolds ==
  ASSUME NEW T, NEW s \in Seq(T)
  PROVE  \E g : /\ g[0] = <<>> /\ g[Len(s)] = UnescapeSlashes(s)
                /\ \A k \in Nat : k < Len(s) => g[k + 1] = Unescape(g[k], s[k + 1])
<1>1. Len(s) \in Nat /\ DOMAIN s = 1..Len(s)
  OBVIOUS
<1> DEFINE h == CHOOSE h : UnescapeTree(h, s, <<>>, Len(s))
           g == [k \in Nat |-> h[1..k]]
<1>2. UnescapeTree(h, s, <<>>, Len(s))
  BY <1>1, UnescapeTreeExists
<1>3. UnescapeSlashes(s) = h[1..Len(s)]
  <2>1. UnescapeSlashes(s) =
          LET iter[x \in SUBSET (DOMAIN s)] ==
                IF x = {} THEN <<>> ELSE Unescape(iter[x \ {Max(x)}], s[Max(x)])
          IN  iter[DOMAIN s]
    BY Zenon DEF UnescapeSlashes, FoldLeft, MapThenFoldSet
  <2> QED BY <1>1, <2>1, Zenon DEF UnescapeTree
<1> HIDE DEF h
<1>4. h[{}] = <<>> /\ \A x \in SUBSET (1..Len(s)) :
                     x # {} => h[x] = Unescape(h[x \ {Max(x)}], s[Max(x)])
  <2>1. {} \in SUBSET (1..Len(s))
    OBVIOUS
  <2> QED BY <1>2, <2>1, Zenon DEF UnescapeTree
<1>5. g[0] = <<>>
  <2>1. 1..0 = {}
    OBVIOUS
  <2> QED BY <1>4, <2>1
<1>6. ASSUME NEW k \in Nat, k < Len(s) PROVE g[k + 1] = Unescape(g[k], s[k + 1])
  <2>1. k + 1 \in Nat
    OBVIOUS
  <2>2. g[k + 1] = h[1..(k + 1)] /\ g[k] = h[1..k]
    BY <2>1
  <2>3. /\ 1..(k + 1) \in SUBSET (1..Len(s)) /\ 1..(k + 1) # {}
        /\ Max(1..(k + 1)) = k + 1 /\ (1..(k + 1)) \ {k + 1} = 1..k
    BY <1>1, <1>6, UpTo
  <2> HIDE DEF g
  <2> QED BY <1>4, <2>2, <2>3, Zenon
<1>7. g[Len(s)] = UnescapeSlashes(s)
  BY <1>1, <1>3
<1> HIDE DEF g
<1> QED BY <1>5, <1>6, <1>7

WrittenAs(s) == FoldLeft(Write, <<>>, s)

WriteTree(h, s, b, n) ==
  h = [x \in SUBSET (1..n) |-> IF x = {} THEN b ELSE Write(h[x \ {Max(x)}], s[Max(x)])]

\* The function that FoldLeft is defined by exists for Write.
LEMMA WriteTreeExists ==
  ASSUME NEW s, NEW b
  PROVE  \A n \in Nat : \E h : WriteTree(h, s, b, n)
<1> DEFINE S == {n \in Nat : \E h : WriteTree(h, s, b, n)}
<1>1. 0 \in S
  <2>1. SUBSET (1..0) = {{}}
    OBVIOUS
  <2>2. WriteTree([x \in SUBSET (1..0) |-> b], s, b, 0)
    BY <2>1, Zenon DEF WriteTree
  <2> QED BY <2>2
<1>2. ASSUME NEW n \in Nat, n \in S PROVE n + 1 \in S
  <2>1. PICK h : WriteTree(h, s, b, n)
    BY <1>2
  <2> DEFINE e(x) == IF x = {} THEN b
                     ELSE IF n + 1 \in x THEN Write(h[x \ {n + 1}], s[n + 1]) ELSE h[x]
             g == [x \in SUBSET (1..(n + 1)) |-> e(x)]
  <2>2. h[{}] = b /\ \A x \in SUBSET (1..n) : x # {} => h[x] = Write(h[x \ {Max(x)}], s[Max(x)])
    <3>1. {} \in SUBSET (1..n)
      OBVIOUS
    <3> QED BY <2>1, <3>1, Zenon DEF WriteTree
  <2>3. \A x \in SUBSET (1..n) : x \in SUBSET (1..(n + 1)) /\ g[x] = h[x]
    <3> SUFFICES ASSUME NEW x \in SUBSET (1..n) PROVE x \in SUBSET (1..(n + 1)) /\ g[x] = h[x]
      OBVIOUS
    <3>1. x \in SUBSET (1..(n + 1)) /\ n + 1 \notin x
      OBVIOUS
    <3> QED BY <2>2, <3>1, Zenon
  <2>4. ASSUME NEW x \in SUBSET (1..(n + 1)), x # {}
        PROVE  g[x] = Write(g[x \ {Max(x)}], s[Max(x)])
    <3>1. CASE n + 1 \in x
      <4>1. Max(x) = n + 1 /\ x \ {Max(x)} \in SUBSET (1..n)
        BY <3>1, MaxIsLast
      <4>2. g[x] = Write(h[x \ {n + 1}], s[n + 1])
        BY <2>4, <3>1, Zenon
      <4>3. g[x \ {Max(x)}] = h[x \ {n + 1}]
        BY <2>3, <4>1
      <4> HIDE DEF g
      <4> QED BY <4>1, <4>2, <4>3, Zenon
    <3>2. CASE n + 1 \notin x
      <4>1. x \in SUBSET (1..n)
        BY <3>2
      <4>2. x \ {Max(x)} \in SUBSET (1..n)
        BY <4>1
      <4>3. g[x] = h[x] /\ g[x \ {Max(x)}] = h[x \ {Max(x)}]
        BY <2>3, <4>1, <4>2
      <4> HIDE DEF g
      <4> QED BY <2>2, <2>4, <4>1, <4>3, Zenon
    <3> QED BY <3>1, <3>2
  <2>5. g[{}] = b
    BY Zenon
  <2>6. WriteTree(g, s, b, n + 1)
    <3> DEFINE d == [x \in SUBSET (1..(n + 1)) |->
                       IF x = {} THEN b ELSE Write(g[x \ {Max(x)}], s[Max(x)])]
    <3>1. \A x \in SUBSET (1..(n + 1)) : g[x] = d[x]
      <4> HIDE DEF g
      <4> QED BY <2>4, <2>5, Zenon
    <3>2. g = d
      BY <3>1, Zenon
    <3> HIDE DEF g
    <3> QED BY <3>2, Zenon DEF WriteTree
  <2> HIDE DEF g
  <2> QED BY <2>6
<1>3. \A n \in Nat : n \in S
  <2> HIDE DEF S
  <2> QED BY <1>1, <1>2, SetInduction
<1> QED BY <1>3

\* ctags writes a pattern from left to right.
LEMMA WriteFolds ==
  ASSUME NEW T, NEW s \in Seq(T)
  PROVE  \E g : /\ g[0] = <<>> /\ g[Len(s)] = WrittenAs(s)
                /\ \A k \in Nat : k < Len(s) => g[k + 1] = Write(g[k], s[k + 1])
<1>1. Len(s) \in Nat /\ DOMAIN s = 1..Len(s)
  OBVIOUS
<1> DEFINE h == CHOOSE h : WriteTree(h, s, <<>>, Len(s))
           g == [k \in Nat |-> h[1..k]]
<1>2. WriteTree(h, s, <<>>, Len(s))
  BY <1>1, WriteTreeExists
<1>3. WrittenAs(s) = h[1..Len(s)]
  <2>1. WrittenAs(s) =
          LET iter[x \in SUBSET (DOMAIN s)] ==
                IF x = {} THEN <<>> ELSE Write(iter[x \ {Max(x)}], s[Max(x)])
          IN  iter[DOMAIN s]
    BY Zenon DEF WrittenAs, FoldLeft, MapThenFoldSet
  <2> QED BY <1>1, <2>1, Zenon DEF WriteTree
<1> HIDE DEF h
<1>4. h[{}] = <<>> /\ \A x \in SUBSET (1..Len(s)) :
                     x # {} => h[x] = Write(h[x \ {Max(x)}], s[Max(x)])
  <2>1. {} \in SUBSET (1..Len(s))
    OBVIOUS
  <2> QED BY <1>2, <2>1, Zenon DEF WriteTree
<1>5. g[0] = <<>>
  <2>1. 1..0 = {}
    OBVIOUS
  <2> QED BY <1>4, <2>1
<1>6. ASSUME NEW k \in Nat, k < Len(s) PROVE g[k + 1] = Write(g[k], s[k + 1])
  <2>1. k + 1 \in Nat
    OBVIOUS
  <2>2. g[k + 1] = h[1..(k + 1)] /\ g[k] = h[1..k]
    BY <2>1
  <2>3. /\ 1..(k + 1) \in SUBSET (1..Len(s)) /\ 1..(k + 1) # {}
        /\ Max(1..(k + 1)) = k + 1 /\ (1..(k + 1)) \ {k + 1} = 1..k
    BY <1>1, <1>6, UpTo
  <2> HIDE DEF g
  <2> QED BY <1>4, <2>2, <2>3, Zenon
<1>7. g[Len(s)] = WrittenAs(s)
  BY <1>1, <1>3
<1> HIDE DEF g
<1> QED BY <1>5, <1>6, <1>7

\* One character more is unescaped last.
LEMMA UnescapeOneMore ==
  ASSUME NEW T, NEW s \in Seq(T), NEW x \in T
  PROVE  /\ UnescapeSlashes(<<>>) = <<>>
         /\ UnescapeSlashes(Append(s, x)) = Unescape(UnescapeSlashes(s), x)
<1>1. UnescapeSlashes(<<>>) = <<>>
  <2>1. PICK r : r = <<>>
    OBVIOUS
  <2>2. r \in Seq(T) /\ Len(r) = 0
    BY <2>1
  <2>3. PICK g : g[0] = <<>> /\ g[Len(r)] = UnescapeSlashes(r)
    BY <2>2, UnescapeFolds
  <2> QED BY <2>1, <2>2, <2>3
<1>2. PICK r : r = Append(s, x)
  OBVIOUS
<1>3. /\ r \in Seq(T) /\ Len(s) \in Nat /\ Len(r) = Len(s) + 1
      /\ r[Len(s) + 1] = x /\ \A k \in 1..Len(s) : r[k] = s[k]
  BY <1>2
<1>4. PICK g : /\ g[0] = <<>> /\ g[Len(s)] = UnescapeSlashes(s)
               /\ \A k \in Nat : k < Len(s) => g[k + 1] = Unescape(g[k], s[k + 1])
  BY UnescapeFolds
<1>5. PICK h : /\ h[0] = <<>> /\ h[Len(r)] = UnescapeSlashes(r)
               /\ \A k \in Nat : k < Len(r) => h[k + 1] = Unescape(h[k], r[k + 1])
  BY <1>3, UnescapeFolds
<1> DEFINE S == {k \in Nat : k <= Len(s) => h[k] = g[k]}
<1>6. 0 \in S
  BY <1>4, <1>5
<1>7. ASSUME NEW k \in Nat, k \in S PROVE k + 1 \in S
  <2>1. ASSUME k + 1 <= Len(s) PROVE h[k + 1] = g[k + 1]
    <3>1. k < Len(s) /\ k < Len(r) /\ k + 1 \in 1..Len(s) /\ h[k] = g[k]
      BY <1>3, <1>7, <2>1
    <3>2. h[k + 1] = Unescape(h[k], r[k + 1]) /\ g[k + 1] = Unescape(g[k], s[k + 1])
      BY <1>4, <1>5, <3>1
    <3> QED BY <1>3, <3>1, <3>2
  <2> QED BY <1>3, <2>1
<1>8. \A k \in Nat : k \in S
  <2> HIDE DEF S
  <2> QED BY <1>6, <1>7, SetInduction
<1>9. h[Len(s)] = UnescapeSlashes(s)
  BY <1>3, <1>4, <1>8
<1>10. h[Len(s) + 1] = Unescape(h[Len(s)], r[Len(s) + 1])
  BY <1>3, <1>5
<1> QED BY <1>1, <1>2, <1>3, <1>5, <1>9, <1>10

\* One character more is written last.
LEMMA WriteOneMore ==
  ASSUME NEW T, NEW s \in Seq(T), NEW x \in T
  PROVE  /\ WrittenAs(<<>>) = <<>>
         /\ WrittenAs(Append(s, x)) = Write(WrittenAs(s), x)
<1>1. WrittenAs(<<>>) = <<>>
  <2>1. PICK r : r = <<>>
    OBVIOUS
  <2>2. r \in Seq(T) /\ Len(r) = 0
    BY <2>1
  <2>3. PICK g : g[0] = <<>> /\ g[Len(r)] = WrittenAs(r)
    BY <2>2, WriteFolds
  <2> QED BY <2>1, <2>2, <2>3
<1>2. PICK r : r = Append(s, x)
  OBVIOUS
<1>3. /\ r \in Seq(T) /\ Len(s) \in Nat /\ Len(r) = Len(s) + 1
      /\ r[Len(s) + 1] = x /\ \A k \in 1..Len(s) : r[k] = s[k]
  BY <1>2
<1>4. PICK g : /\ g[0] = <<>> /\ g[Len(s)] = WrittenAs(s)
               /\ \A k \in Nat : k < Len(s) => g[k + 1] = Write(g[k], s[k + 1])
  BY WriteFolds
<1>5. PICK h : /\ h[0] = <<>> /\ h[Len(r)] = WrittenAs(r)
               /\ \A k \in Nat : k < Len(r) => h[k + 1] = Write(h[k], r[k + 1])
  BY <1>3, WriteFolds
<1> DEFINE S == {k \in Nat : k <= Len(s) => h[k] = g[k]}
<1>6. 0 \in S
  BY <1>4, <1>5
<1>7. ASSUME NEW k \in Nat, k \in S PROVE k + 1 \in S
  <2>1. ASSUME k + 1 <= Len(s) PROVE h[k + 1] = g[k + 1]
    <3>1. k < Len(s) /\ k < Len(r) /\ k + 1 \in 1..Len(s) /\ h[k] = g[k]
      BY <1>3, <1>7, <2>1
    <3>2. h[k + 1] = Write(h[k], r[k + 1]) /\ g[k + 1] = Write(g[k], s[k + 1])
      BY <1>4, <1>5, <3>1
    <3> QED BY <1>3, <3>1, <3>2
  <2> QED BY <1>3, <2>1
<1>8. \A k \in Nat : k \in S
  <2> HIDE DEF S
  <2> QED BY <1>6, <1>7, SetInduction
<1>9. h[Len(s)] = WrittenAs(s)
  BY <1>3, <1>4, <1>8
<1>10. h[Len(s) + 1] = Write(h[Len(s)], r[Len(s) + 1])
  BY <1>3, <1>5
<1> QED BY <1>1, <1>2, <1>3, <1>5, <1>9, <1>10

-----------------------------------------------------------------------------
(***************************************************************************)
(* A Tag says what its line says.                                          *)
(***************************************************************************)
\* Of the first k fields, the last with one of the keys.
LastUpTo(s, keys, k) ==
  LET places == {n \in 1..k : s[n].key \in keys}
  IN  IF places = {} THEN [key |-> "", value |-> ""] ELSE s[Max(places)]

\* One field more is the last if it has one of the keys.
LEMMA LastStep ==
  ASSUME NEW s, NEW keys, NEW k \in Nat
  PROVE  LastUpTo(s, keys, k + 1) = IF s[k + 1].key \in keys THEN s[k + 1] ELSE LastUpTo(s, keys, k)
<1> DEFINE P == {n \in 1..k : s[n].key \in keys}
           Q == {n \in 1..(k + 1) : s[n].key \in keys}
<1>1. CASE s[k + 1].key \in keys
  <2>1. Q \in SUBSET (1..(k + 1)) /\ k + 1 \in Q
    BY <1>1
  <2>2. Max(Q) = k + 1 /\ Q # {}
    <3> HIDE DEF Q
    <3> QED BY <2>1, MaxIsLast
  <2> QED BY <1>1, <2>2 DEF LastUpTo
<1>2. CASE s[k + 1].key \notin keys
  <2>1. \A n : n \in Q <=> n \in P
    BY <1>2
  <2>2. Q = P
    <3> HIDE DEF P, Q
    <3> QED BY <2>1
  <2>3. LastUpTo(s, keys, k + 1) = IF Q = {} THEN [key |-> "", value |-> ""] ELSE s[Max(Q)]
    BY DEF LastUpTo
  <2>4. LastUpTo(s, keys, k) = IF P = {} THEN [key |-> "", value |-> ""] ELSE s[Max(P)]
    BY DEF LastUpTo
  <2> HIDE DEF P, Q
  <2> QED BY <1>2, <2>2, <2>3, <2>4, Zenon
<1> QED BY <1>1, <1>2

\* The Tag with these values.
Columns(name, number, pattern, thisFile, language, memberOf, memberOfType,
        inherits, signature, access, implementation, unrecognized) ==
  [name |-> name, line |-> number, pattern |-> pattern, thisFile |-> thisFile,
   language |-> language, memberOf |-> memberOf, memberOfType |-> memberOfType,
   inherits |-> inherits, signature |-> signature, access |-> access,
   implementation |-> implementation, unrecognized |-> unrecognized]

\* What a field does to a Tag, for each key.
LEMMA Assigned ==
  ASSUME NEW n, NEW l, NEW p, NEW t, NEW g, NEW m, NEW y, NEW i, NEW s, NEW a, NEW j, NEW u, NEW f
  PROVE  AssignField(Columns(n, l, p, t, g, m, y, i, s, a, j, u), f) =
           Columns(n, l, p, t,
                   IF f.key = "language"
                     THEN IF f.value \in {"C", "C++"} THEN "C/C++" ELSE f.value ELSE g,
                   IF f.key \in Owners THEN f.value ELSE m,
                   IF f.key \in Owners THEN f.key ELSE y,
                   IF f.key = "inherits" THEN f.value ELSE i,
                   IF f.key = "signature" THEN f.value ELSE s,
                   IF f.key = "access" THEN f.value ELSE a,
                   IF f.key = "implementation" THEN f.value ELSE j,
                   AddOther(u, f))
<1> DEFINE k == f.key
           v == f.value
           lang == IF v \in {"C", "C++"} THEN "C/C++" ELSE v
           c == Columns(n, l, p, t, g, m, y, i, s, a, j, u)
<1>1. /\ "language" \notin Owners /\ "language" \notin OwnColumn
      /\ \A x \in Owners : x \notin OwnColumn
  BY DEF Owners, OwnColumn
<1>2. CASE k = "language"
  <2>1. AssignField(c, f) = [c EXCEPT !.language = lang]
    BY <1>2, Zenon DEF AssignField
  <2>2. [c EXCEPT !.language = lang] = Columns(n, l, p, t, lang, m, y, i, s, a, j, u)
    <3> HIDE DEF lang
    <3> QED BY DEF Columns
  <2>3. AddOther(u, f) = u
    BY <1>2 DEF AddOther, Known
  <2>4. k \notin Owners /\ k # "inherits" /\ k # "signature" /\ k # "access" /\ k # "implementation"
    BY <1>1, <1>2 DEF OwnColumn
  <2> QED BY <1>2, <2>1, <2>2, <2>3, <2>4, Zenon
<1>3. CASE k \in Owners
  <2>1. k # "language" /\ k \notin OwnColumn
    BY <1>1, <1>3
  <2>2. AssignField(c, f) = [c EXCEPT !.memberOf = v, !.memberOfType = k]
    BY <1>3, <2>1, Zenon DEF AssignField
  <2>3. [c EXCEPT !.memberOf = v, !.memberOfType = k] = Columns(n, l, p, t, g, v, k, i, s, a, j, u)
    <3> HIDE DEF k, v
    <3>1. [c EXCEPT !.memberOf = v] = Columns(n, l, p, t, g, v, y, i, s, a, j, u)
      BY DEF Columns
    <3>2. [Columns(n, l, p, t, g, v, y, i, s, a, j, u) EXCEPT !.memberOfType = k] =
            Columns(n, l, p, t, g, v, k, i, s, a, j, u)
      BY DEF Columns
    <3>3. [c EXCEPT !.memberOf = v, !.memberOfType = k] =
            [[c EXCEPT !.memberOf = v] EXCEPT !.memberOfType = k]
      OBVIOUS
    <3> QED BY <3>1, <3>2, <3>3, Zenon
  <2>4. AddOther(u, f) = u
    BY <1>3 DEF AddOther, Known
  <2>5. k # "inherits" /\ k # "signature" /\ k # "access" /\ k # "implementation"
    BY <2>1 DEF OwnColumn
  <2> QED BY <1>3, <2>1, <2>2, <2>3, <2>4, <2>5, Zenon
<1>4. CASE k \in OwnColumn
  <2>1. k # "language" /\ k \notin Owners
    BY <1>1, <1>4
  <2>2. AssignField(c, f) = [c EXCEPT ![k] = v]
    BY <1>4, <2>1, Zenon DEF AssignField
  <2>3. AddOther(u, f) = u
    BY <1>4 DEF AddOther, Known
  <2>4. k = "inherits" \/ k = "signature" \/ k = "access" \/ k = "implementation"
    BY <1>4 DEF OwnColumn
  <2>5. [c EXCEPT ![k] = v] =
          Columns(n, l, p, t, g, m, y, IF k = "inherits" THEN v ELSE i,
                  IF k = "signature" THEN v ELSE s, IF k = "access" THEN v ELSE a,
                  IF k = "implementation" THEN v ELSE j, u)
    <3>1. CASE k = "inherits"
      <4> HIDE DEF k, v
      <4> QED BY <3>1 DEF Columns
    <3>2. CASE k = "signature"
      <4> HIDE DEF k, v
      <4> QED BY <3>2 DEF Columns
    <3>3. CASE k = "access"
      <4> HIDE DEF k, v
      <4> QED BY <3>3 DEF Columns
    <3>4. CASE k = "implementation"
      <4> HIDE DEF k, v
      <4> QED BY <3>4 DEF Columns
    <3> QED BY <2>4, <3>1, <3>2, <3>3, <3>4, Zenon
  <2> QED BY <2>1, <2>2, <2>3, <2>5, Zenon
<1>5. CASE k # "language" /\ k \notin Owners /\ k \notin OwnColumn
  <2>1. AssignField(c, f) = [c EXCEPT !.unrecognized = Append(@, f)]
    BY <1>5, Zenon DEF AssignField
  <2>2. k \notin Known
    BY <1>5 DEF Known
  <2>3. [c EXCEPT !.unrecognized = Append(@, f)] =
          Columns(n, l, p, t, g, m, y, i, s, a, j, Append(u, f))
    <3>1. c.unrecognized = u
      BY DEF Columns
    <3>2. [c EXCEPT !.unrecognized = Append(@, f)] = [c EXCEPT !.unrecognized = Append(c.unrecognized, f)]
      BY Zenon
    <3> DEFINE w == Append(u, f)
    <3>3. [c EXCEPT !.unrecognized = w] = Columns(n, l, p, t, g, m, y, i, s, a, j, w)
      <4> HIDE DEF w
      <4> QED BY DEF Columns
    <3> QED BY <3>1, <3>2, <3>3, Zenon
  <2>4. AddOther(u, f) = Append(u, f)
    BY <2>2, Zenon DEF AddOther
  <2>5. k # "inherits" /\ k # "signature" /\ k # "access" /\ k # "implementation"
    BY <1>5 DEF OwnColumn
  <2> QED BY <1>5, <2>1, <2>3, <2>4, <2>5, Zenon
<1> QED BY <1>2, <1>3, <1>4, <1>5

\* What a line and the first k of its fields say, and of the others u.
Partly(l, k, u) ==
  Columns(l.name, l.number, IF l.number = 0 THEN TrimPattern(l.pattern) ELSE <<>>, l.thisFile,
          IF LastUpTo(l.fields, {"language"}, k).value \in {"C", "C++"}
            THEN "C/C++" ELSE LastUpTo(l.fields, {"language"}, k).value,
          LastUpTo(l.fields, Owners, k).value, LastUpTo(l.fields, Owners, k).key,
          LastUpTo(l.fields, {"inherits"}, k).value, LastUpTo(l.fields, {"signature"}, k).value,
          LastUpTo(l.fields, {"access"}, k).value, LastUpTo(l.fields, {"implementation"}, k).value, u)

\* One field more.
LEMMA PartlyStep ==
  ASSUME NEW l, NEW k \in Nat, NEW u
  PROVE  AssignField(Partly(l, k, u), l.fields[k + 1]) =
           Partly(l, k + 1, AddOther(u, l.fields[k + 1]))
<1> DEFINE f == l.fields[k + 1]
           last(keys) == LastUpTo(l.fields, keys, k)
           next(keys) == LastUpTo(l.fields, keys, k + 1)
<1>1. /\ next({"language"}) = IF f.key = "language" THEN f ELSE last({"language"})
      /\ next({"inherits"}) = IF f.key = "inherits" THEN f ELSE last({"inherits"})
      /\ next({"signature"}) = IF f.key = "signature" THEN f ELSE last({"signature"})
      /\ next({"access"}) = IF f.key = "access" THEN f ELSE last({"access"})
      /\ next({"implementation"}) = IF f.key = "implementation" THEN f ELSE last({"implementation"})
      /\ next(Owners) = IF f.key \in Owners THEN f ELSE last(Owners)
  <2>1. \A keys : next(keys) = IF f.key \in keys THEN f ELSE last(keys)
    BY LastStep
  <2> HIDE DEF f, last, next
  <2> QED BY <2>1
<1> DEFINE lang == last({"language"}).value
           n == l.name
           m == l.number
           p == IF l.number = 0 THEN TrimPattern(l.pattern) ELSE <<>>
           t == l.thisFile
           g == IF lang \in {"C", "C++"} THEN "C/C++" ELSE lang
           mo == last(Owners).value
           mt == last(Owners).key
           i == last({"inherits"}).value
           s == last({"signature"}).value
           a == last({"access"}).value
           j == last({"implementation"}).value
<1>2. Partly(l, k, u) = Columns(n, m, p, t, g, mo, mt, i, s, a, j, u)
  BY Zenon DEF Partly
<1>3. AssignField(Columns(n, m, p, t, g, mo, mt, i, s, a, j, u), f) =
           Columns(n, m, p, t,
                   IF f.key = "language"
                     THEN IF f.value \in {"C", "C++"} THEN "C/C++" ELSE f.value ELSE g,
                   IF f.key \in Owners THEN f.value ELSE mo,
                   IF f.key \in Owners THEN f.key ELSE mt,
                   IF f.key = "inherits" THEN f.value ELSE i,
                   IF f.key = "signature" THEN f.value ELSE s,
                   IF f.key = "access" THEN f.value ELSE a,
                   IF f.key = "implementation" THEN f.value ELSE j,
                   AddOther(u, f))
  <2> HIDE DEF n, m, p, t, g, mo, mt, i, s, a, j, f
  <2> QED BY Assigned
<1> DEFINE w == AddOther(u, f)
<1>4. Partly(l, k + 1, w) =
        Columns(n, m, p, t,
                IF next({"language"}).value \in {"C", "C++"} THEN "C/C++" ELSE next({"language"}).value,
                next(Owners).value, next(Owners).key, next({"inherits"}).value,
                next({"signature"}).value, next({"access"}).value, next({"implementation"}).value, w)
  BY Zenon DEF Partly
<1>5. /\ (IF next({"language"}).value \in {"C", "C++"} THEN "C/C++" ELSE next({"language"}).value) =
           IF f.key = "language"
             THEN IF f.value \in {"C", "C++"} THEN "C/C++" ELSE f.value ELSE g
      /\ next(Owners).value = IF f.key \in Owners THEN f.value ELSE mo
      /\ next(Owners).key = IF f.key \in Owners THEN f.key ELSE mt
      /\ next({"inherits"}).value = IF f.key = "inherits" THEN f.value ELSE i
      /\ next({"signature"}).value = IF f.key = "signature" THEN f.value ELSE s
      /\ next({"access"}).value = IF f.key = "access" THEN f.value ELSE a
      /\ next({"implementation"}).value = IF f.key = "implementation" THEN f.value ELSE j
  <2> HIDE DEF f, last, next
  <2> QED BY <1>1
<1> HIDE DEF n, m, p, t, g, mo, mt, i, s, a, j, f, last, next, w
<1>6. AssignField(Partly(l, k, u), f) = Partly(l, k + 1, w)
  BY <1>2, <1>3, <1>4, <1>5, Zenon DEF w
<1> QED BY <1>6 DEF w, f

\* After all fields, the Tag says what the line says.
LEMMA TagIsAssigned ==
  ASSUME NEW T, NEW l, l.fields \in Seq(T)
  PROVE  AllAssigned(Partly(l, 0, <<>>), l.fields) = TagOf(l)
<1> DEFINE s == l.fields
<1>1. PICK g : /\ g[0] = Partly(l, 0, <<>>) /\ g[Len(s)] = AllAssigned(Partly(l, 0, <<>>), s)
               /\ \A k \in Nat : k < Len(s) => g[k + 1] = AssignField(g[k], s[k + 1])
  <2> DEFINE b == Partly(l, 0, <<>>)
  <2> HIDE DEF b
  <2>1. s \in Seq(T)
    OBVIOUS
  <2>2. \E g : /\ g[0] = b /\ g[Len(s)] = AllAssigned(b, s)
               /\ \A k \in Nat : k < Len(s) => g[k + 1] = AssignField(g[k], s[k + 1])
    BY <2>1, AssignFolds
  <2> QED BY <2>2 DEF b
<1>2. PICK o : /\ o[0] = <<>> /\ o[Len(s)] = OthersOf(s)
               /\ \A k \in Nat : k < Len(s) => o[k + 1] = AddOther(o[k], s[k + 1])
  BY OtherFolds
<1> DEFINE S == {k \in Nat : k <= Len(s) => g[k] = Partly(l, k, o[k])}
<1>3. Len(s) \in Nat
  OBVIOUS
<1>4. 0 \in S
  BY <1>1, <1>2
<1>5. ASSUME NEW k \in Nat, k \in S PROVE k + 1 \in S
  <2> SUFFICES ASSUME k + 1 <= Len(s) PROVE g[k + 1] = Partly(l, k + 1, o[k + 1])
    OBVIOUS
  <2>1. k < Len(s) /\ k <= Len(s)
    BY <1>3
  <2>2. g[k] = Partly(l, k, o[k])
    BY <1>5, <2>1
  <2>3. g[k + 1] = AssignField(Partly(l, k, o[k]), s[k + 1])
    BY <1>1, <2>1, <2>2
  <2>4. AssignField(Partly(l, k, o[k]), l.fields[k + 1]) = Partly(l, k + 1, AddOther(o[k], l.fields[k + 1]))
    BY PartlyStep
  <2>5. o[k + 1] = AddOther(o[k], s[k + 1])
    BY <1>2, <2>1
  <2> QED BY <2>3, <2>4, <2>5
<1>6. Len(s) \in S
  <2> HIDE DEF S
  <2> QED BY <1>3, <1>4, <1>5, SetInduction
<1>7. AllAssigned(Partly(l, 0, <<>>), s) = Partly(l, Len(s), OthersOf(s))
  BY <1>1, <1>2, <1>3, <1>6
<1>8. \A keys : LastUpTo(l.fields, keys, Len(s)) = LastOf(l.fields, keys)
  <2>1. DOMAIN l.fields = 1..Len(s)
    OBVIOUS
  <2> QED BY <2>1, Zenon DEF LastUpTo, LastOf
<1> DEFINE u == OthersOf(l.fields)
<1>9. Partly(l, Len(s), u) = TagOf(l)
  <2>1. TagOf(l) = 
          Columns(l.name, l.number, IF l.number = 0 THEN TrimPattern(l.pattern) ELSE <<>>, l.thisFile,
            IF LastOf(l.fields, {"language"}).value \in {"C", "C++"}
              THEN "C/C++" ELSE LastOf(l.fields, {"language"}).value,
            LastOf(l.fields, Owners).value, LastOf(l.fields, Owners).key,
            LastOf(l.fields, {"inherits"}).value, LastOf(l.fields, {"signature"}).value,
            LastOf(l.fields, {"access"}).value, LastOf(l.fields, {"implementation"}).value, u)
    BY Zenon DEF TagOf, Columns, OthersOf
  <2>2. Partly(l, Len(s), u) =
          Columns(l.name, l.number, IF l.number = 0 THEN TrimPattern(l.pattern) ELSE <<>>, l.thisFile,
            IF LastUpTo(l.fields, {"language"}, Len(s)).value \in {"C", "C++"}
              THEN "C/C++" ELSE LastUpTo(l.fields, {"language"}, Len(s)).value,
            LastUpTo(l.fields, Owners, Len(s)).value, LastUpTo(l.fields, Owners, Len(s)).key,
            LastUpTo(l.fields, {"inherits"}, Len(s)).value, LastUpTo(l.fields, {"signature"}, Len(s)).value,
            LastUpTo(l.fields, {"access"}, Len(s)).value, LastUpTo(l.fields, {"implementation"}, Len(s)).value, u)
    BY Zenon DEF Partly
  <2>3. /\ LastUpTo(l.fields, {"language"}, Len(s)) = LastOf(l.fields, {"language"})
        /\ LastUpTo(l.fields, Owners, Len(s)) = LastOf(l.fields, Owners)
        /\ LastUpTo(l.fields, {"inherits"}, Len(s)) = LastOf(l.fields, {"inherits"})
        /\ LastUpTo(l.fields, {"signature"}, Len(s)) = LastOf(l.fields, {"signature"})
        /\ LastUpTo(l.fields, {"access"}, Len(s)) = LastOf(l.fields, {"access"})
        /\ LastUpTo(l.fields, {"implementation"}, Len(s)) = LastOf(l.fields, {"implementation"})
    BY <1>8
  <2> HIDE DEF u
  <2> QED BY <2>1, <2>2, <2>3, SMT
<1> QED BY <1>7, <1>9

-----------------------------------------------------------------------------
(***************************************************************************)
(* The patterns that ctags writes, and what TrimPattern makes of them.     *)
(***************************************************************************)
Backslash == "\\"

\* What is kept escaped: TrimPattern gives back the slashes only.
Kept(text, n) == text[n] = Backslash \/ (text[n] = "$" /\ n = Len(text))
Unescaped(text, n) == UnescapeSlashes(Escape(text, n))

\* The pattern of one character more.
LEMMA EscapeOneMore ==
  ASSUME NEW text, NEW n \in Nat
  PROVE  /\ Escape(text, 0) = <<>>
         /\ Escape(text, n + 1) =
              Escape(text, n) \o (IF Escaped(text, n + 1) THEN <<Backslash, text[n + 1]>> ELSE <<text[n + 1]>>)
<1> DEFINE part(k) == IF Escaped(text, k) THEN <<Backslash, text[k]>> ELSE <<text[k]>>
           T == {part(k) : k \in 1..(n + 1)}
           s == [k \in 1..n |-> part(k)]
           r == [k \in 1..(n + 1) |-> part(k)]
<1>1. s \in Seq(T) /\ part(n + 1) \in T
  <2>1. \A k \in 1..n : k \in 1..(n + 1)
    OBVIOUS
  <2>2. n + 1 \in 1..(n + 1)
    OBVIOUS
  <2> HIDE DEF part
  <2> QED BY <2>1, <2>2
<1>2. r = Append(s, part(n + 1))
  <2> HIDE DEF part
  <2>1. Len(s) = n /\ DOMAIN Append(s, part(n + 1)) = 1..(n + 1)
    OBVIOUS
  <2>2. \A k \in 1..(n + 1) : Append(s, part(n + 1))[k] = part(k)
    OBVIOUS
  <2> QED BY <2>1, <2>2
<1>3. [k \in 1..0 |-> part(k)] = <<>>
  OBVIOUS
<1>4. Escape(text, 0) = WrittenAs([k \in 1..0 |-> part(k)])
  BY Zenon DEF Escape, WrittenAs, Backslash
<1>5. Escape(text, n) = WrittenAs(s) /\ Escape(text, n + 1) = WrittenAs(r)
  BY Zenon DEF Escape, WrittenAs, Backslash
<1> HIDE DEF part, s, r, T
<1>6. WrittenAs(<<>>) = <<>> /\ WrittenAs(Append(s, part(n + 1))) = Write(WrittenAs(s), part(n + 1))
  BY <1>1, WriteOneMore
<1>7. Escape(text, n + 1) = Escape(text, n) \o part(n + 1)
  BY <1>2, <1>5, <1>6 DEF Write
<1>8. Escape(text, 0) = <<>>
  BY <1>3, <1>4, <1>6
<1> QED BY <1>7, <1>8 DEF part

\* A character that is written after an unescaped text, as it is or escaped.
LEMMA UnescapeStep ==
  ASSUME NEW T, NEW e \in Seq(T), NEW c \in T, Backslash \in T, UnescapeSlashes(e) \in Seq(T)
  PROVE  /\ c # "/" => UnescapeSlashes(e \o <<c>>) = Append(UnescapeSlashes(e), c)
         /\ UnescapeSlashes(e \o <<Backslash, c>>) =
              IF c = "/" THEN Append(UnescapeSlashes(e), c)
              ELSE UnescapeSlashes(e) \o <<Backslash, c>>
<1>1. PICK u : u = UnescapeSlashes(e)
  OBVIOUS
<1>2. e \o <<c>> = Append(e, c) /\ e \o <<Backslash, c>> = Append(Append(e, Backslash), c)
  OBVIOUS
<1>3. ASSUME NEW x \in T PROVE UnescapeSlashes(Append(e, x)) = Unescape(u, x)
  BY <1>1, UnescapeOneMore
<1>4. c # "/" => UnescapeSlashes(Append(e, c)) = Append(u, c)
  BY <1>3 DEF Unescape
<1>5. UnescapeSlashes(Append(e, Backslash)) = Append(u, Backslash)
  <2>1. Backslash # "/"
    BY DEF Backslash
  <2> QED BY <1>3, <2>1 DEF Unescape
<1>6. PICK f : f = Append(e, Backslash)
  OBVIOUS
<1>61. f \in Seq(T)
  BY <1>6
<1>7. UnescapeSlashes(Append(f, c)) = Unescape(Append(u, Backslash), c)
  <2>1. UnescapeSlashes(Append(f, c)) = Unescape(UnescapeSlashes(f), c)
    BY <1>61, UnescapeOneMore
  <2> QED BY <1>5, <1>6, <2>1
<1>8. /\ u \in Seq(T) /\ Append(u, Backslash) # <<>> /\ Last(Append(u, Backslash)) = Backslash
      /\ Front(Append(u, Backslash)) = u /\ Append(Append(u, Backslash), c) = u \o <<Backslash, c>>
  <2>1. u \in Seq(T)
    BY <1>1
  <2>2. PICK v : v = Append(u, Backslash)
    OBVIOUS
  <2>3. v \in Seq(T) /\ Len(v) = Len(u) + 1 /\ v[Len(u) + 1] = Backslash /\ \A k \in 1..Len(u) : v[k] = u[k]
    BY <2>1, <2>2
  <2>4. Front(v) = u
    BY <2>1, <2>3 DEF Front
  <2>5. Last(v) = Backslash /\ v # <<>>
    BY <2>1, <2>3 DEF Last
  <2>6. Append(v, c) = u \o <<Backslash, c>>
    BY <2>1, <2>2
  <2> QED BY <2>1, <2>2, <2>4, <2>5, <2>6
<1>9. Unescape(Append(u, Backslash), c) = IF c = "/" THEN Append(u, c) ELSE u \o <<Backslash, c>>
  BY <1>8, Zenon DEF Unescape, Backslash
<1> QED BY <1>1, <1>2, <1>4, <1>6, <1>7, <1>9

\* Of a text that ctags has escaped, backslashes are doubled, and so is the
\* dollar sign at its end; the slashes are those of the text.
LEMMA UnescapedIs ==
  ASSUME NEW T, NEW text \in Seq(T), Backslash \in T
  PROVE  \A n \in Nat : n <= Len(text) =>
           /\ Escape(text, n) \in Seq(T) /\ Unescaped(text, n) \in Seq(T)
           /\ n = 0 => Unescaped(text, n) = <<>>
           /\ n > 0 => Unescaped(text, n) =
                         IF Kept(text, n) THEN Unescaped(text, n - 1) \o <<Backslash, text[n]>>
                         ELSE Append(Unescaped(text, n - 1), text[n])
<1> DEFINE P(n) ==
             /\ Escape(text, n) \in Seq(T) /\ Unescaped(text, n) \in Seq(T)
             /\ n = 0 => Unescaped(text, n) = <<>>
             /\ n > 0 => Unescaped(text, n) =
                           IF Kept(text, n) THEN Unescaped(text, n - 1) \o <<Backslash, text[n]>>
                           ELSE Append(Unescaped(text, n - 1), text[n])
           S == {n \in Nat : n <= Len(text) => P(n)}
<1>1. 0 \in S
  <2>1. Escape(text, 0) = <<>>
    BY EscapeOneMore
  <2>2. PICK r : r = <<>>
    OBVIOUS
  <2>3. r \in Seq(T) /\ Len(r) = 0
    BY <2>2
  <2>4. UnescapeSlashes(<<>>) = <<>>
    <3>1. PICK g : g[0] = <<>> /\ g[Len(r)] = UnescapeSlashes(r)
      BY <2>3, UnescapeFolds
    <3> QED BY <2>2, <2>3, <3>1
  <2>5. Unescaped(text, 0) = <<>>
    BY <2>1, <2>4 DEF Unescaped
  <2>6. P(0)
    <3>1. Escape(text, 0) \in Seq(T) /\ Unescaped(text, 0) \in Seq(T)
      BY <2>1, <2>2, <2>3, <2>5
    <3> QED BY <2>5, <3>1
  <2> HIDE DEF P
  <2> QED BY <2>6
<1>2. ASSUME NEW n \in Nat, n \in S PROVE n + 1 \in S
  <2> SUFFICES ASSUME n + 1 <= Len(text) PROVE P(n + 1)
    <3> HIDE DEF P
    <3> QED OBVIOUS
  <2> HIDE DEF S
  <2>1. PICK e, c, m : e = Escape(text, n) /\ c = text[n + 1] /\ m = n + 1
    OBVIOUS
  <2>2. e \in Seq(T) /\ c \in T /\ UnescapeSlashes(e) \in Seq(T)
    BY <1>2, <2>1 DEF Unescaped, S
  <2>3. Escape(text, n + 1) = e \o (IF Escaped(text, n + 1) THEN <<Backslash, c>> ELSE <<c>>)
    BY <2>1, EscapeOneMore
  <2>4. /\ c # "/" => UnescapeSlashes(e \o <<c>>) = Append(UnescapeSlashes(e), c)
        /\ UnescapeSlashes(e \o <<Backslash, c>>) =
             IF c = "/" THEN Append(UnescapeSlashes(e), c)
             ELSE UnescapeSlashes(e) \o <<Backslash, c>>
    BY <2>2, UnescapeStep
  <2>5. Unescaped(text, n + 1) = IF Kept(text, n + 1) THEN UnescapeSlashes(e) \o <<Backslash, c>>
                                 ELSE Append(UnescapeSlashes(e), c)
    <3>0. /\ Kept(text, n + 1) <=> c = Backslash \/ (c = "$" /\ m = Len(text))
          /\ Escaped(text, n + 1) <=> c \in {"/", Backslash} \/ (c = "$" /\ m = Len(text))
          /\ "/" # Backslash /\ "/" # "$"
      BY <2>1, Zenon DEF Kept, Escaped, Backslash
    <3>1. CASE c = "/"
      <4>1. Escaped(text, n + 1) /\ ~Kept(text, n + 1)
        BY <3>0, <3>1
      <4> QED BY <2>3, <2>4, <3>1, <4>1 DEF Unescaped
    <3>2. CASE c # "/" /\ Kept(text, n + 1)
      <4>1. Escaped(text, n + 1)
        BY <3>0, <3>2
      <4> QED BY <2>3, <2>4, <3>2, <4>1 DEF Unescaped
    <3>3. CASE c # "/" /\ ~Kept(text, n + 1)
      <4>1. ~Escaped(text, n + 1)
        BY <3>0, <3>3
      <4> QED BY <2>3, <2>4, <3>3, <4>1 DEF Unescaped
    <3> QED BY <3>1, <3>2, <3>3
  <2>6. Escape(text, n + 1) \in Seq(T)
    <3>1. e \o <<Backslash, c>> \in Seq(T) /\ e \o <<c>> \in Seq(T)
      BY <2>2
    <3> QED BY <2>3, <3>1
  <2>7. Unescaped(text, n + 1) \in Seq(T)
    <3>1. UnescapeSlashes(e) \o <<Backslash, c>> \in Seq(T) /\ Append(UnescapeSlashes(e), c) \in Seq(T)
      BY <2>2
    <3> QED BY <2>5, <3>1
  <2>8. n + 1 > 0 /\ n + 1 # 0 /\ (n + 1) - 1 = n /\ UnescapeSlashes(e) = Unescaped(text, n)
    BY <2>1 DEF Unescaped
  <2> QED BY <2>1, <2>5, <2>6, <2>7, <2>8
<1>3. \A n \in Nat : n \in S
  <2> HIDE DEF S
  <2> QED BY <1>1, <1>2, SetInduction
<1> QED BY <1>3

\* Where a character of the text ends in what is unescaped.
Place(text, n) == Len(Unescaped(text, n))

\* One character more of the text is one more or two.
LEMMA PlaceStep ==
  ASSUME NEW T, NEW text \in Seq(T), Backslash \in T, NEW n \in Nat, n < Len(text)
  PROVE  /\ Unescaped(text, n) \in Seq(T) /\ Unescaped(text, n + 1) \in Seq(T)
         /\ Place(text, n) \in Nat
         /\ Place(text, n + 1) = Place(text, n) + (IF Kept(text, n + 1) THEN 2 ELSE 1)
         /\ \A k \in 1..Place(text, n) : Unescaped(text, n + 1)[k] = Unescaped(text, n)[k]
         /\ Unescaped(text, n + 1)[Place(text, n + 1)] = text[n + 1]
         /\ Unescaped(text, n + 1)[Place(text, n) + 1] =
              IF Kept(text, n + 1) THEN Backslash ELSE text[n + 1]
<1>1. PICK a, b, c : a = Unescaped(text, n) /\ b = Unescaped(text, n + 1) /\ c = text[n + 1]
  OBVIOUS
<1>2. n + 1 \in Nat /\ n + 1 <= Len(text) /\ n <= Len(text) /\ n + 1 > 0 /\ (n + 1) - 1 = n
  OBVIOUS
<1>3. \A m \in Nat : m <= Len(text) =>
         /\ Unescaped(text, m) \in Seq(T)
         /\ m > 0 => Unescaped(text, m) =
                       IF Kept(text, m) THEN Unescaped(text, m - 1) \o <<Backslash, text[m]>>
                       ELSE Append(Unescaped(text, m - 1), text[m])
  BY UnescapedIs
<1>4. a \in Seq(T) /\ b \in Seq(T) /\ c \in T
  <2>1. a \in Seq(T) /\ b \in Seq(T)
    BY <1>1, <1>2, <1>3
  <2>2. c \in T
    BY <1>1
  <2> QED BY <2>1, <2>2
<1>5. b = IF Kept(text, n + 1) THEN a \o <<Backslash, c>> ELSE Append(a, c)
  BY <1>1, <1>2, <1>3
<1>6. /\ Len(a) \in Nat
      /\ Len(b) = Len(a) + (IF Kept(text, n + 1) THEN 2 ELSE 1)
      /\ \A k \in 1..Len(a) : b[k] = a[k]
      /\ b[Len(b)] = c /\ b[Len(a) + 1] = IF Kept(text, n + 1) THEN Backslash ELSE c
  <2>1. CASE Kept(text, n + 1)
    BY <1>4, <1>5, <2>1
  <2>2. CASE ~Kept(text, n + 1)
    BY <1>4, <1>5, <2>2
  <2> QED BY <2>1, <2>2
<1> QED BY <1>1, <1>4, <1>6 DEF Place

\* Every character of the text has a place in what is unescaped, and what is
\* kept escaped has its backslash before it.
LEMMA EveryPlace ==
  ASSUME NEW T, NEW text \in Seq(T), Backslash \in T
  PROVE  \A j \in Nat : j <= Len(text) => \A i \in 1..j :
           /\ Place(text, i) \in Nat /\ Place(text, i - 1) \in Nat
           /\ Place(text, i - 1) + 1 <= Place(text, i) /\ Place(text, i) <= Place(text, j)
           /\ Unescaped(text, j)[Place(text, i)] = text[i]
           /\ Unescaped(text, j)[Place(text, i - 1) + 1] =
                IF Kept(text, i) THEN Backslash ELSE text[i]
<1> DEFINE P(i, j) ==
             /\ Place(text, i) \in Nat /\ Place(text, i - 1) \in Nat
             /\ Place(text, i - 1) + 1 <= Place(text, i) /\ Place(text, i) <= Place(text, j)
             /\ Unescaped(text, j)[Place(text, i)] = text[i]
             /\ Unescaped(text, j)[Place(text, i - 1) + 1] =
                  IF Kept(text, i) THEN Backslash ELSE text[i]
           S == {j \in Nat : j <= Len(text) => \A i \in 1..j : P(i, j)}
<1>1. 0 \in S
  OBVIOUS
<1>2. ASSUME NEW j \in Nat, j \in S PROVE j + 1 \in S
  <2> SUFFICES ASSUME j + 1 <= Len(text), NEW i \in 1..(j + 1) PROVE P(i, j + 1)
    <3> HIDE DEF P
    <3> QED OBVIOUS
  <2>0. j < Len(text)
    OBVIOUS
  <2>1. /\ Place(text, j) \in Nat
        /\ Place(text, j + 1) = Place(text, j) + (IF Kept(text, j + 1) THEN 2 ELSE 1)
        /\ \A k \in 1..Place(text, j) : Unescaped(text, j + 1)[k] = Unescaped(text, j)[k]
        /\ Unescaped(text, j + 1)[Place(text, j + 1)] = text[j + 1]
        /\ Unescaped(text, j + 1)[Place(text, j) + 1] =
             IF Kept(text, j + 1) THEN Backslash ELSE text[j + 1]
    BY <2>0, PlaceStep
  <2>2. CASE i = j + 1
    <3>1. i - 1 = j
      BY <2>2
    <3> QED BY <2>1, <2>2, <3>1
  <2>3. CASE i # j + 1
    <3>1. i \in 1..j
      BY <2>3
    <3>2. P(i, j)
      BY <1>2, <3>1
    <3>3. Place(text, i) \in 1..Place(text, j) /\ Place(text, i - 1) + 1 \in 1..Place(text, j)
      BY <2>1, <3>2
    <3> QED BY <2>1, <3>2, <3>3
  <2> QED BY <2>2, <2>3
<1>3. \A n \in Nat : n \in S
  <2> HIDE DEF S
  <2> QED BY <1>1, <1>2, SetInduction
<1> QED BY <1>3

\* A part of the text does not get shorter, and longer if there is something
\* in it that is kept escaped.
LEMMA PartGrows ==
  ASSUME NEW T, NEW text \in Seq(T), Backslash \in T, NEW i \in Nat
  PROVE  \A j \in Nat : i <= j /\ j <= Len(text) =>
           /\ Place(text, i) \in Nat /\ Place(text, j) \in Nat
           /\ Place(text, j) - Place(text, i) >= j - i
           /\ (\E c \in (i + 1)..j : Kept(text, c)) => Place(text, j) - Place(text, i) > j - i
<1> DEFINE P(j) == /\ Place(text, i) \in Nat /\ Place(text, j) \in Nat
                   /\ Place(text, j) - Place(text, i) >= j - i
                   /\ (\E c \in (i + 1)..j : Kept(text, c)) => Place(text, j) - Place(text, i) > j - i
           S == {j \in Nat : i <= j /\ j <= Len(text) => P(j)}
<1>0. ASSUME i <= Len(text) PROVE Place(text, i) \in Nat /\ P(i)
  <2>1. Unescaped(text, i) \in Seq(T)
    BY <1>0, UnescapedIs
  <2>2. Place(text, i) \in Nat
    BY <2>1 DEF Place
  <2> QED BY <2>2
<1>1. 0 \in S
  <2>1. ASSUME i <= 0, 0 <= Len(text) PROVE P(0)
    <3>1. i = 0
      BY <2>1
    <3> HIDE DEF P
    <3> QED BY <1>0, <2>1, <3>1
  <2> HIDE DEF P
  <2> QED BY <2>1
<1>2. ASSUME NEW j \in Nat, j \in S PROVE j + 1 \in S
  <2> SUFFICES ASSUME i <= j + 1, j + 1 <= Len(text) PROVE P(j + 1)
    <3> HIDE DEF P
    <3> QED OBVIOUS
  <2>1. CASE i = j + 1
    <3> HIDE DEF P
    <3> QED BY <1>0, <2>1
  <2>2. CASE i <= j
    <3>1. P(j) /\ j < Len(text)
      BY <1>2, <2>2
    <3>2. Place(text, j + 1) = Place(text, j) + (IF Kept(text, j + 1) THEN 2 ELSE 1)
      BY <3>1, PlaceStep
    <3>3. \A c \in (i + 1)..(j + 1) : c = j + 1 \/ c \in (i + 1)..j
      OBVIOUS
    <3> QED BY <3>1, <3>2, <3>3
  <2> QED BY <2>1, <2>2
<1>3. \A n \in Nat : n \in S
  <2> HIDE DEF S
  <2> QED BY <1>1, <1>2, SetInduction
<1> QED BY <1>3

\* A text in which nothing is kept escaped comes back as it was.
LEMMA NothingKept ==
  ASSUME NEW T, NEW text \in Seq(T), Backslash \in T
  PROVE  \A j \in Nat : j <= Len(text) /\ (\A i \in 1..j : ~Kept(text, i)) =>
           Unescaped(text, j) = SubSeq(text, 1, j)
<1> DEFINE S == {j \in Nat : j <= Len(text) /\ (\A i \in 1..j : ~Kept(text, i)) =>
                               Unescaped(text, j) = SubSeq(text, 1, j)}
<1>1. 0 \in S
  <2>1. PICK n \in Nat : n = 0 /\ n <= Len(text)
    OBVIOUS
  <2>2. Unescaped(text, n) = <<>>
    BY <2>1, UnescapedIs
  <2>3. SubSeq(text, 1, 0) = <<>>
    OBVIOUS
  <2> QED BY <2>1, <2>2, <2>3
<1>2. ASSUME NEW j \in Nat, j \in S PROVE j + 1 \in S
  <2> SUFFICES ASSUME j + 1 <= Len(text), \A i \in 1..(j + 1) : ~Kept(text, i)
               PROVE  Unescaped(text, j + 1) = SubSeq(text, 1, j + 1)
    OBVIOUS
  <2>1. Unescaped(text, j) = SubSeq(text, 1, j)
    BY <1>2
  <2>2. j + 1 \in Nat /\ j + 1 > 0 /\ (j + 1) - 1 = j /\ ~Kept(text, j + 1)
    OBVIOUS
  <2>3. Unescaped(text, j + 1) = Append(Unescaped(text, j), text[j + 1])
    BY <2>2, UnescapedIs
  <2>4. Append(SubSeq(text, 1, j), text[j + 1]) = SubSeq(text, 1, j + 1)
    OBVIOUS
  <2> QED BY <2>1, <2>3, <2>4
<1>3. \A n \in Nat : n \in S
  <2> HIDE DEF S
  <2> QED BY <1>1, <1>2, SetInduction
<1> QED BY <1>3

\* Sequences with the same elements.
LEMMA SameSequence ==
  ASSUME NEW T, NEW s \in Seq(T), NEW t \in Seq(T), Len(s) = Len(t),
         \A n \in 1..Len(t) : s[n] = t[n]
  PROVE  s = t
OBVIOUS

Blank == " "

\* What Trim leaves: nothing, or from the first character that is not blank
\* to the last.
LEMMA TrimIs ==
  ASSUME NEW T, NEW s \in Seq(T)
  PROVE  \/ (\A n \in 1..Len(s) : s[n] = Blank) /\ Trim(s) = <<>>
         \/ \E a \in 1..Len(s), b \in 1..Len(s) :
              /\ a <= b /\ s[a] # Blank /\ s[b] # Blank
              /\ \A n \in 1..Len(s) : s[n] # Blank => a <= n /\ n <= b
              /\ Trim(s) = SubSeq(s, a, b)
<1> DEFINE K == {n \in DOMAIN s : s[n] # Blank}
<1>1. Len(s) \in Nat /\ DOMAIN s = 1..Len(s)
  OBVIOUS
<1>2. CASE K = {}
  <2>1. \A n \in 1..Len(s) : s[n] = Blank
    BY <1>1, <1>2
  <2>2. Trim(s) = <<>>
    BY <1>2, Zenon DEF Trim, Blank
  <2> QED BY <2>1, <2>2
<1>3. CASE K # {}
  <2>1. K \in SUBSET (1..Len(s)) /\ K \in SUBSET Nat
    <3>1. \A k \in K : k \in 1..Len(s)
      BY <1>1, Zenon
    <3>2. 1..Len(s) \subseteq Nat
      BY <1>1
    <3> HIDE DEF K
    <3> QED BY <3>1, <3>2
  <2>2. Trim(s) = SubSeq(s, Min(K), Max(K))
    BY <1>3, Zenon DEF Trim, Blank
  <2>3. Max(K) \in K /\ \A k \in K : Max(K) >= k
    <3> HIDE DEF K
    <3> QED BY <1>1, <1>3, <2>1, MaxIs
  <2>4. Min(K) \in K /\ \A k \in K : Min(K) <= k
    <3>1. \E x \in K : \A k \in K : x <= k
      <4> HIDE DEF K
      <4> QED BY <1>3, <2>1, LeastNatural
    <3> HIDE DEF K
    <3> QED BY <3>1 DEF Min
  <2>5. PICK a, b : a = Min(K) /\ b = Max(K)
    OBVIOUS
  <2>6. a \in 1..Len(s) /\ b \in 1..Len(s) /\ s[a] # Blank /\ s[b] # Blank /\ a <= b
    BY <1>1, <2>3, <2>4, <2>5
  <2>7. \A n \in 1..Len(s) : s[n] # Blank => a <= n /\ n <= b
    BY <1>1, <2>3, <2>4, <2>5
  <2> QED BY <2>2, <2>5, <2>6, <2>7
<1> QED BY <1>2, <1>3

\* The trimmed begin of a text is found in it.
LEMMA BeginFound ==
  ASSUME NEW T, NEW text \in Seq(T), NEW j \in Nat, j <= Len(text)
  PROVE  Found(Trim(SubSeq(text, 1, j)), text)
<1>1. PICK s : s = SubSeq(text, 1, j)
  OBVIOUS
<1>2. s \in Seq(T) /\ Len(s) = j /\ \A n \in 1..j : s[n] = text[n]
  BY <1>1
<1>3. CASE Trim(s) = <<>>
  <2>1. PICK t : t = Trim(s)
    OBVIOUS
  <2>2. Len(t) = 0 /\ 0 \in 0..(Len(text) - Len(t)) /\ SubSeq(text, 0 + 1, 0 + Len(t)) = t
    BY <1>3, <2>1
  <2>3. Found(t, text)
    BY <2>2, Zenon DEF Found
  <2> QED BY <1>1, <2>1, <2>3
<1>4. CASE Trim(s) # <<>>
  <2>1. PICK a \in 1..Len(s), b \in 1..Len(s) : a <= b /\ Trim(s) = SubSeq(s, a, b)
    BY <1>2, <1>4, TrimIs
  <2>2. PICK t : t = Trim(s)
    OBVIOUS
  <2>3. Len(t) = b - a + 1 /\ \A n \in 1..Len(t) : t[n] = text[a - 1 + n]
    BY <1>2, <2>1, <2>2
  <2>4. PICK m : m = a - 1 /\ m \in Nat
    BY <1>2, <2>1
  <2>5. m \in 0..(Len(text) - Len(t))
    BY <1>2, <2>1, <2>3, <2>4
  <2>6. SubSeq(text, m + 1, m + Len(t)) = t
    <3>1. t \in Seq(T) /\ Len(t) \in Nat
      BY <1>2, <2>1, <2>2
    <3>2. m + 1 \in 1..Len(text) /\ m + Len(t) \in 1..Len(text)
      BY <1>2, <2>1, <2>3, <2>4, <2>5
    <3>3. PICK u : u = SubSeq(text, m + 1, m + Len(t))
      OBVIOUS
    <3>4. u \in Seq(T) /\ Len(u) = Len(t) /\ \A n \in 1..Len(t) : u[n] = text[m + n]
      BY <2>4, <3>1, <3>2, <3>3
    <3>5. \A n \in 1..Len(t) : u[n] = t[n]
      BY <2>3, <2>4, <3>1, <3>4
    <3>6. u = t
      BY <3>1, <3>4, <3>5, SameSequence
    <3> QED BY <3>3, <3>6
  <2> QED BY <1>1, <2>2, <2>5, <2>6 DEF Found
<1> QED BY <1>3, <1>4

\* What is found between two characters that are not blank is not longer
\* than the text without the blanks around it.
LEMMA FoundInside ==
  ASSUME NEW T, NEW text \in Seq(T), NEW t \in Seq(T), Len(t) > 0,
         t[1] # Blank, t[Len(t)] # Blank, Found(t, text)
  PROVE  \E a \in 1..Len(text), b \in 1..Len(text) :
           /\ text[a] # Blank /\ text[b] # Blank /\ b - a + 1 >= Len(t)
           /\ \A n \in 1..Len(text) : text[n] # Blank => a <= n /\ n <= b
<1>00. PICK N, L : N = Len(text) /\ L = Len(t)
  OBVIOUS
<1>0. N = Len(text) /\ L = Len(t) /\ N \in Nat /\ L \in Nat
  BY <1>00
<1>1. PICK m \in 0..(N - L) : SubSeq(text, m + 1, m + L) = t
  BY <1>0, Zenon DEF Found
<1>2. L > 0 /\ m \in Nat /\ m + 1 \in 1..N /\ m + L \in 1..N
  BY <1>0, <1>1
<1>3. text[m + 1] = t[1] /\ text[m + L] = t[L]
  <2>1. \A n \in 1..L : SubSeq(text, m + 1, m + L)[n] = text[m + n]
    BY <1>0, <1>2
  <2>2. 1 \in 1..L /\ L \in 1..L
    BY <1>0, <1>2
  <2> QED BY <1>1, <2>1, <2>2
<1>4. PICK a \in 1..Len(text), b \in 1..Len(text) :
        /\ text[a] # Blank /\ text[b] # Blank
        /\ \A n \in 1..Len(text) : text[n] # Blank => a <= n /\ n <= b
  BY <1>0, <1>2, <1>3, TrimIs
<1>5. a <= m + 1 /\ m + L <= b
  BY <1>0, <1>2, <1>3, <1>4
<1>6. b - a + 1 >= Len(t)
  <2>1. a \in Nat /\ b \in Nat
    BY <1>0, <1>4
  <2> QED BY <1>0, <1>2, <1>5, <2>1
<1> QED BY <1>4, <1>6

\* What is kept escaped is not in the text: it is longer there.
LEMMA KeptNotFound ==
  ASSUME NEW T, NEW text \in Seq(T), Backslash \in T,
         NEW c \in 1..Len(text), Kept(text, c)
  PROVE  ~Found(Trim(Unescaped(text, Len(text))), text)
<1>00. PICK N : N = Len(text)
  OBVIOUS
<1>0. N = Len(text) /\ N \in Nat /\ N <= Len(text)
  BY <1>00
<1>1. PICK d, t : d = Unescaped(text, N) /\ t = Trim(d)
  OBVIOUS
<1>2. d \in Seq(T) /\ Len(d) = Place(text, N) /\ Len(d) \in Nat
  <2>1. Unescaped(text, N) \in Seq(T)
    BY <1>0, UnescapedIs
  <2> QED BY <1>1, <2>1 DEF Place
<1>3. \A i \in 1..N :
        /\ Place(text, i) \in Nat /\ Place(text, i - 1) \in Nat
        /\ Place(text, i - 1) + 1 <= Place(text, i) /\ Place(text, i) <= Len(d)
        /\ d[Place(text, i)] = text[i]
        /\ d[Place(text, i - 1) + 1] = IF Kept(text, i) THEN Backslash ELSE text[i]
  <2>1. N <= Len(text)
    BY <1>0
  <2> QED BY <1>0, <1>1, <1>2, <2>1, EveryPlace
<1>4. Backslash # Blank /\ "$" # Blank
  BY Zenon DEF Backslash, Blank
<1>5. text[c] # Blank
  BY <1>4 DEF Kept
<1>6. d[Place(text, c)] # Blank /\ Place(text, c) \in 1..Len(d)
  BY <1>0, <1>3, <1>5
<1>7. PICK p \in 1..Len(d), q \in 1..Len(d) :
        /\ p <= q /\ d[p] # Blank /\ d[q] # Blank
        /\ \A n \in 1..Len(d) : d[n] # Blank => p <= n /\ n <= q
        /\ t = SubSeq(d, p, q)
  BY <1>1, <1>2, <1>6, TrimIs
<1>8. /\ t \in Seq(T) /\ Len(t) = q - p + 1 /\ Len(t) > 0
      /\ t[1] = d[p] /\ t[Len(t)] = d[q]
  <2>1. p \in Nat /\ q \in Nat
    BY <1>2
  <2>2. \A n \in 1..(q - p + 1) : t[n] = d[p + n - 1]
    BY <1>2, <1>7, <2>1
  <2>3. t \in Seq(T) /\ Len(t) = q - p + 1
    BY <1>2, <1>7, <2>1
  <2>4. Len(t) > 0 /\ 1 \in 1..(q - p + 1) /\ q - p + 1 \in 1..(q - p + 1)
    BY <1>7, <2>1, <2>3
  <2>5. p + 1 - 1 = p /\ p + (q - p + 1) - 1 = q
    BY <2>1
  <2> QED BY <2>2, <2>3, <2>4, <2>5
<1>9. SUFFICES ASSUME Found(t, text) PROVE FALSE
  BY <1>0, <1>1
<1>10. PICK a \in 1..N, b \in 1..N :
         /\ text[a] # Blank /\ text[b] # Blank /\ b - a + 1 >= Len(t)
         /\ \A n \in 1..N : text[n] # Blank => a <= n /\ n <= b
  <2>1. t[1] # Blank /\ t[Len(t)] # Blank
    BY <1>7, <1>8
  <2>2. \E a \in 1..Len(text), b \in 1..Len(text) :
          /\ text[a] # Blank /\ text[b] # Blank /\ b - a + 1 >= Len(t)
          /\ \A n \in 1..Len(text) : text[n] # Blank => a <= n /\ n <= b
    BY <1>8, <1>9, <2>1, FoundInside
  <2> QED BY <1>0, <2>2
<1>11. a <= c /\ c <= b
  BY <1>0, <1>5, <1>10
<1>12. Place(text, b) - Place(text, a - 1) > b - (a - 1)
  <2>0. PICK i : i = a - 1
    OBVIOUS
  <2>1. i = a - 1 /\ i \in Nat /\ i + 1 = a /\ i <= N
    BY <1>0, <1>10, <2>0
  <2>2. i <= b /\ b <= Len(text) /\ b \in Nat /\ c \in (i + 1)..b
    BY <1>0, <1>10, <1>11, <2>1
  <2>3. \E e \in (i + 1)..b : Kept(text, e)
    BY <2>2
  <2>4. Place(text, b) - Place(text, i) > b - i
    BY <2>1, <2>2, <2>3, PartGrows
  <2> QED BY <2>1, <2>4
<1>13. Place(text, a - 1) + 1 \in 1..Len(d) /\ d[Place(text, a - 1) + 1] # Blank
  <2>1. /\ Place(text, a) \in Nat /\ Place(text, a - 1) \in Nat
        /\ Place(text, a - 1) + 1 <= Place(text, a) /\ Place(text, a) <= Len(d)
        /\ d[Place(text, a - 1) + 1] = IF Kept(text, a) THEN Backslash ELSE text[a]
    BY <1>3, <1>10
  <2>2. Place(text, a - 1) + 1 \in 1..Len(d)
    BY <1>2, <2>1
  <2> QED BY <1>4, <1>10, <2>1, <2>2
<1>14. Place(text, b) \in 1..Len(d) /\ d[Place(text, b)] # Blank
  <2>1. /\ Place(text, b) \in Nat /\ Place(text, b - 1) \in Nat
        /\ Place(text, b - 1) + 1 <= Place(text, b) /\ Place(text, b) <= Len(d)
        /\ d[Place(text, b)] = text[b]
    BY <1>3, <1>10
  <2>2. Place(text, b) \in 1..Len(d)
    BY <1>2, <2>1
  <2> QED BY <1>10, <2>1, <2>2
<1>15. p <= Place(text, a - 1) + 1 /\ Place(text, b) <= q
  BY <1>7, <1>13, <1>14
<1>16. /\ Place(text, a - 1) \in Nat /\ Place(text, b) \in Nat
       /\ a \in Nat /\ b \in Nat /\ p \in Nat /\ q \in Nat
  BY <1>0, <1>2, <1>3, <1>7, <1>10
<1>17. Len(t) = q - p + 1 /\ b - a + 1 >= Len(t)
  BY <1>8, <1>10
<1> QED BY <1>12, <1>15, <1>16, <1>17

\* Trim takes nothing away but blanks.
LEMMA TrimKeeps ==
  ASSUME NEW T, NEW s \in Seq(T), NEW n \in 1..Len(s), s[n] # Blank
  PROVE  s[n] \in ToSet(Trim(s))
<1>1. PICK a \in 1..Len(s), b \in 1..Len(s) :
        a <= b /\ a <= n /\ n <= b /\ Trim(s) = SubSeq(s, a, b)
  BY TrimIs
<1>2. PICK t : t = Trim(s)
  OBVIOUS
<1>3. /\ DOMAIN t = 1..(b - a + 1) /\ n - a + 1 \in 1..(b - a + 1)
      /\ a + (n - a + 1) - 1 = n
      /\ \A k \in 1..(b - a + 1) : t[k] = s[a + k - 1]
  BY <1>1, <1>2
<1>4. n - a + 1 \in DOMAIN t /\ t[n - a + 1] = s[n]
  <2>1. t[n - a + 1] = s[a + (n - a + 1) - 1]
    BY <1>3
  <2> QED BY <1>3, <2>1
<1> QED BY <1>2, <1>4, Zenon DEF ToSet

\* TrimPattern takes two characters off at both ends.
LEMMA Middle ==
  ASSUME NEW T, NEW e \in Seq(T), NEW a \in T, NEW b \in T, NEW c \in T, NEW d \in T,
         NEW s, s = <<a, b>> \o e \o <<c, d>>,
         NEW r, r = <<a, b>> \o e \o <<c>>
  PROVE  /\ SubSeq(s, 3, Len(s) - 2) = e
         /\ e # <<>> => SubSeq(r, 3, Len(r) - 2) = SubSeq(e, 1, Len(e) - 1)
<1>1. PICK L : L = Len(e)
  OBVIOUS
<1>2. L \in Nat /\ Len(e) = L
  BY <1>1
<1>3. s \in Seq(T) /\ Len(s) = L + 4 /\ \A k \in 1..L : s[k + 2] = e[k]
  <2>1. PICK f : f = <<a, b>> \o e
    OBVIOUS
  <2>2. f \in Seq(T) /\ Len(f) = L + 2 /\ \A k \in 1..L : f[k + 2] = e[k]
    BY <1>2, <2>1
  <2>3. PICK g : g = <<c, d>>
    OBVIOUS
  <2>4. s = f \o g /\ g \in Seq(T) /\ Len(g) = 2
    BY <2>1, <2>3
  <2>5. s \in Seq(T) /\ Len(s) = L + 4
    BY <1>2, <2>2, <2>4
  <2>6. \A k \in 1..(L + 2) : s[k] = f[k]
    BY <1>2, <2>2, <2>4
  <2> QED BY <1>2, <2>2, <2>5, <2>6
<1>4. r \in Seq(T) /\ Len(r) = L + 3 /\ \A k \in 1..L : r[k + 2] = e[k]
  <2>1. PICK f : f = <<a, b>> \o e
    OBVIOUS
  <2>2. f \in Seq(T) /\ Len(f) = L + 2 /\ \A k \in 1..L : f[k + 2] = e[k]
    BY <1>2, <2>1
  <2>3. PICK g : g = <<c>>
    OBVIOUS
  <2>4. r = f \o g /\ g \in Seq(T) /\ Len(g) = 1
    BY <2>1, <2>3
  <2>5. r \in Seq(T) /\ Len(r) = L + 3
    BY <1>2, <2>2, <2>4
  <2>6. \A k \in 1..(L + 2) : r[k] = f[k]
    BY <1>2, <2>2, <2>4
  <2> QED BY <1>2, <2>2, <2>5, <2>6
<1>5. SubSeq(s, 3, L + 2) = e
  <2>1. PICK u : u = SubSeq(s, 3, L + 2)
    OBVIOUS
  <2>2. u \in Seq(T) /\ Len(u) = L /\ \A k \in 1..L : u[k] = s[k + 2]
    BY <1>2, <1>3, <2>1
  <2>3. \A k \in 1..Len(e) : u[k] = e[k]
    BY <1>2, <1>3, <2>2
  <2>4. u = e
    BY <1>2, <2>2, <2>3, SameSequence
  <2> QED BY <2>1, <2>4
<1>6. ASSUME e # <<>> PROVE SubSeq(r, 3, L + 1) = SubSeq(e, 1, L - 1)
  <2>0. L >= 1
    BY <1>2, <1>6
  <2>1. PICK u, v : u = SubSeq(r, 3, L + 1) /\ v = SubSeq(e, 1, L - 1)
    OBVIOUS
  <2>2. u \in Seq(T) /\ Len(u) = L - 1 /\ \A k \in 1..(L - 1) : u[k] = r[k + 2]
    BY <1>2, <1>4, <2>0, <2>1
  <2>3. v \in Seq(T) /\ Len(v) = L - 1 /\ \A k \in 1..(L - 1) : v[k] = e[k]
    BY <1>2, <2>0, <2>1
  <2>4. u = v
    BY <1>2, <1>4, <2>0, <2>2, <2>3
  <2> QED BY <2>1, <2>4
<1> QED BY <1>2, <1>3, <1>4, <1>5, <1>6

\* The pattern of a whole line.
LEMMA WholePattern ==
  ASSUME NEW T, NEW text \in Seq(T), {"/", "^", "$", Backslash} \subseteq T, text # <<>>
  PROVE  Found(TrimPattern(Pattern(text)), text)
           <=> Backslash \notin ToSet(text) /\ Last(text) # "$"
<1>1. PICK N : N = Len(text)
  OBVIOUS
<1>2. N \in Nat /\ N >= 1 /\ N <= Len(text) /\ Len(text) = N /\ DOMAIN text = 1..N
  BY <1>1
<1>3. PICK e, p : e = Escape(text, N) /\ p = Pattern(text)
  OBVIOUS
<1>4. e \in Seq(T)
  BY <1>2, <1>3, UnescapedIs
<1>5. SubSeq(p, 3, Len(p) - 2) = e
  <2>1. p = <<"/", "^">> \o e \o <<"$", "/">>
    BY <1>1, <1>3 DEF Pattern
  <2>2. "/" \in T /\ "^" \in T /\ "$" \in T
    OBVIOUS
  <2> QED BY <1>4, <2>1, <2>2, Middle
<1>6. TrimPattern(Pattern(text)) = Trim(Unescaped(text, N))
  BY <1>3, <1>5 DEF TrimPattern, Unescaped
<1>7. CASE \E c \in 1..N : Kept(text, c)
  <2>1. ~Found(Trim(Unescaped(text, Len(text))), text)
    BY <1>1, <1>7, KeptNotFound
  <2>2. Backslash \in ToSet(text) \/ Last(text) = "$"
    BY <1>2, <1>7 DEF Kept, ToSet, Last
  <2> QED BY <1>1, <1>6, <2>1, <2>2
<1>8. CASE \A c \in 1..N : ~Kept(text, c)
  <2>1. Unescaped(text, N) = SubSeq(text, 1, N)
    BY <1>2, <1>8, NothingKept
  <2>2. Found(Trim(SubSeq(text, 1, N)), text)
    BY <1>2, BeginFound
  <2>3. Backslash \notin ToSet(text) /\ Last(text) # "$"
    BY <1>2, <1>8 DEF Kept, ToSet, Last
  <2> QED BY <1>6, <2>1, <2>2, <2>3
<1> QED BY <1>7, <1>8

\* The pattern of a line that has been cut off behind its k-th character.
LEMMA CutIs ==
  ASSUME NEW T, NEW text \in Seq(T), {"/", "^", "$", Backslash} \subseteq T,
         NEW k \in 1..Len(text)
  PROVE  TrimPattern(CutPattern(text, k)) =
           Trim(IF Escaped(text, k) THEN Append(Unescaped(text, k - 1), Backslash)
                ELSE Unescaped(text, k - 1))
<1>1. PICK n : n = k - 1
  OBVIOUS
<1>2. n \in Nat /\ n + 1 = k /\ n <= Len(text) /\ k \in Nat /\ k <= Len(text)
  BY <1>1
<1>3. PICK e, f, p, c : e = Escape(text, n) /\ f = Escape(text, k) /\ p = CutPattern(text, k) /\ c = text[k]
  OBVIOUS
<1>4. e \in Seq(T) /\ f \in Seq(T) /\ c \in T /\ Unescaped(text, n) \in Seq(T)
  <2>1. e \in Seq(T) /\ Unescaped(text, n) \in Seq(T)
    BY <1>2, <1>3, UnescapedIs
  <2>2. f \in Seq(T)
    BY <1>2, <1>3, UnescapedIs
  <2>3. c \in T
    BY <1>3
  <2> QED BY <2>1, <2>2, <2>3
<1>5. f = e \o (IF Escaped(text, k) THEN <<Backslash, c>> ELSE <<c>>)
  BY <1>2, <1>3, EscapeOneMore
<1>6. f # <<>> /\ SubSeq(f, 1, Len(f) - 1) = IF Escaped(text, k) THEN Append(e, Backslash) ELSE e
  <2>1. CASE Escaped(text, k)
    BY <1>4, <1>5, <2>1
  <2>2. CASE ~Escaped(text, k)
    BY <1>4, <1>5, <2>2
  <2> QED BY <2>1, <2>2
<1>7. SubSeq(p, 3, Len(p) - 2) = SubSeq(f, 1, Len(f) - 1)
  <2>1. p = <<"/", "^">> \o f \o <<"/">>
    BY <1>3 DEF CutPattern
  <2>2. "/" \in T /\ "^" \in T /\ "$" \in T
    OBVIOUS
  <2> QED BY <1>4, <1>6, <2>1, <2>2, Middle
<1>8. UnescapeSlashes(Append(e, Backslash)) = Append(UnescapeSlashes(e), Backslash)
  <2>1. Backslash # "/"
    BY DEF Backslash
  <2>2. e \o <<Backslash>> = Append(e, Backslash)
    BY <1>4
  <2>3. UnescapeSlashes(e) \in Seq(T)
    BY <1>3, <1>4 DEF Unescaped
  <2>4. PICK b \in T : b = Backslash
    OBVIOUS
  <2>5. UnescapeSlashes(e \o <<b>>) = Append(UnescapeSlashes(e), b)
    BY <1>4, <2>1, <2>3, <2>4, UnescapeStep
  <2> QED BY <2>2, <2>4, <2>5
<1>9. UnescapeSlashes(SubSeq(p, 3, Len(p) - 2)) =
        IF Escaped(text, k) THEN Append(Unescaped(text, n), Backslash) ELSE Unescaped(text, n)
  BY <1>3, <1>6, <1>7, <1>8 DEF Unescaped
<1> QED BY <1>1, <1>3, <1>9, Zenon DEF TrimPattern

\* It is found, unless there is a backslash in it.
LEMMA CutFound ==
  ASSUME NEW T, NEW text \in Seq(T), {"/", "^", "$", Backslash} \subseteq T,
         NEW k \in 1..Len(text), Backslash \notin ToSet(TrimPattern(CutPattern(text, k)))
  PROVE  Found(TrimPattern(CutPattern(text, k)), text)
<1>1. PICK n : n = k - 1
  OBVIOUS
<1>2. n \in Nat /\ n + 1 = k /\ n <= Len(text)
  BY <1>1
<1>3. PICK d : d = Unescaped(text, n)
  OBVIOUS
<1>4. d \in Seq(T) /\ Len(d) = Place(text, n) /\ Len(d) \in Nat
  <2>1. d \in Seq(T)
    BY <1>2, <1>3, UnescapedIs
  <2> QED BY <1>3, <2>1 DEF Place
<1>5. Backslash # Blank
  BY Zenon DEF Backslash, Blank
<1>6. ~Escaped(text, k)
  <2> SUFFICES ASSUME Escaped(text, k) PROVE FALSE
    OBVIOUS
  <2>1. PICK f : f = Append(d, Backslash)
    OBVIOUS
  <2>2. f \in Seq(T) /\ Len(d) + 1 \in 1..Len(f) /\ f[Len(d) + 1] = Backslash
    BY <1>4, <2>1
  <2>3. f[Len(d) + 1] \in ToSet(Trim(f))
    BY <1>5, <2>2, TrimKeeps
  <2>4. TrimPattern(CutPattern(text, k)) = Trim(f)
    BY <1>1, <1>3, <2>1, CutIs
  <2> QED BY <2>2, <2>3, <2>4
<1>7. TrimPattern(CutPattern(text, k)) = Trim(d)
  BY <1>1, <1>3, <1>6, CutIs
<1>8. ASSUME NEW i \in 1..n PROVE ~Kept(text, i)
  <2> SUFFICES ASSUME Kept(text, i) PROVE FALSE
    OBVIOUS
  <2>1. /\ Place(text, i) \in Nat /\ Place(text, i - 1) \in Nat
        /\ Place(text, i - 1) + 1 <= Place(text, i) /\ Place(text, i) <= Place(text, n)
        /\ Unescaped(text, n)[Place(text, i - 1) + 1] = Backslash
    BY <1>2, EveryPlace
  <2>2. PICK m : m = Place(text, i - 1) + 1
    OBVIOUS
  <2>3. m \in 1..Len(d) /\ d[m] = Backslash
    BY <1>3, <1>4, <2>1, <2>2
  <2>4. d[m] \in ToSet(Trim(d))
    BY <1>4, <1>5, <2>3, TrimKeeps
  <2> QED BY <1>7, <2>3, <2>4
<1>9. d = SubSeq(text, 1, n)
  BY <1>2, <1>3, <1>8, NothingKept
<1>10. Found(Trim(SubSeq(text, 1, n)), text)
  BY <1>2, BeginFound
<1> QED BY <1>7, <1>9, <1>10

-----------------------------------------------------------------------------
(***************************************************************************)
(* The inductive invariant.                                                *)
(***************************************************************************)
\* A position: of a line that has been read in part, only its end is left.
Position(a, o) ==
  /\ a \in 1..(Len(file) + 1) /\ o \in Nat
  /\ a <= Len(file) => /\ o < file[a].len + file[a].end
                       /\ o = 0 \/ o >= file[a].len
  /\ a > Len(file) => o = 0

\* The lines that have been read at a position.
Passed(a, o) == IF o = 0 THEN a - 1 ELSE a

\* The reader stands where no line is cut apart.
Reader ==
  /\ file \in Files /\ size \in Nat /\ size >= 2
  /\ Position(at, off) /\ Position(start[1], start[2])
  /\ start[1] <= at /\ Passed(start[1], start[2]) <= Passed(at, off)

\* Only pseudo tags are passed over when the file is opened, and all that
\* stand at the head of the file.
Header ==
  /\ pc = "pseudo" =>
       /\ rows = <<>>
       /\ \A k \in 1..Passed(at, off) : file[k].kind \in {"blank", "pseudo"}
       /\ \A k \in 1..Passed(at, off) : Passed(start[1], start[2]) < k => file[k].kind = "blank"
  /\ pc \in {"read", "fields", "save"} =>
       /\ \A k \in 1..Passed(at, off) : file[k].kind # "bad"
       /\ \A m \in DOMAIN file :
            Passed(at, off) < m /\ file[m].kind = "pseudo" =>
              \E k \in 1..(m - 1) : file[k].kind \in {"tag", "bad"}

\* The line that is worked on is the one that has been read last, and the
\* list holds the first of its fields.
Parsed ==
  /\ pc \in {"fields", "save"} =>
       /\ Passed(at, off) >= 1 /\ IsTag(Passed(at, off))
       /\ line = file[Passed(at, off)]
  /\ pc = "fields" =>
       /\ list \in Seq(ToSet(line.fields)) /\ Len(list) <= Len(line.fields)
       /\ \A n \in 1..Len(list) : list[n] = line.fields[n]

\* The list of fields does not run over.
Fits ==
  /\ max \in Nat
  /\ FewFields => max > 0 /\ (pc = "fields" => Len(list) <= max)

\* The Tag says what the line says, and the rows what the lines before it.
Said == {TagOf(file[n]) : n \in DOMAIN file}
Imported == [n \in DOMAIN rows |-> SetFromDB(rows[n])]
Stored ==
  /\ pc \in {"pseudo", "read", "fields", "save", "done", "failed"}
  /\ DOMAIN tag = DOMAIN EmptyTag /\ DOMAIN bound = DOMAIN EmptyTag
  /\ pc = "save" => tag = TagOf(line)
  /\ rows \in Seq({Bind(t) : t \in Said})
  /\ pc = "read" => Imported = TagsUpTo(Passed(at, off))
  /\ pc \in {"fields", "save"} => Imported = TagsUpTo(Passed(at, off) - 1)
  /\ pc = "done" => Good \in 0..Len(file) /\ Imported = TagsUpTo(Good)
  /\ pc = "failed" => \E n \in 0..Len(file) : Imported = TagsUpTo(n)

TInv == Reader /\ Header /\ Parsed /\ Fits /\ Stored

\* What the assumption says of the file that is read.
LEMMA FileIs ==
  ASSUME file \in Files
  PROVE  /\ file \in Seq(ToSet(file)) /\ Len(file) \in Nat /\ DOMAIN file = 1..Len(file)
         /\ \A n \in 1..Len(file) :
              /\ file[n].kind \in {"blank", "pseudo", "tag", "bad"}
              /\ file[n].len \in Nat /\ file[n].end \in Nat
              /\ file[n].len + file[n].end > 0
              /\ file[n].len = 0 => file[n].kind = "blank"
              /\ file[n].fields \in Seq(ToSet(file[n].fields))
<1>1. file \in Seq(ToSet(file))
  BY FilesAssumption
<1>2. Len(file) \in Nat /\ DOMAIN file = 1..Len(file)
  BY <1>1
<1>3. ASSUME NEW n \in 1..Len(file)
      PROVE  /\ file[n].kind \in {"blank", "pseudo", "tag", "bad"}
             /\ file[n].len \in Nat /\ file[n].end \in Nat
             /\ file[n].len + file[n].end > 0
             /\ file[n].len = 0 => file[n].kind = "blank"
             /\ file[n].fields \in Seq(ToSet(file[n].fields))
  <2>1. n \in DOMAIN file
    BY <1>2
  <2>2. /\ file[n].kind \in {"blank", "pseudo", "tag", "bad"}
        /\ file[n].len \in Nat /\ file[n].end \in 0..2
        /\ file[n].len + file[n].end > 0
        /\ file[n].len = 0 => file[n].kind = "blank"
        /\ file[n].fields \in Seq(ToSet(file[n].fields))
    BY <2>1, FilesAssumption
  <2> QED BY <2>2
<1> QED BY <1>1, <1>2, <1>3

\* Where a line has been read to, and which.
LEMMA AdvanceIs ==
  ASSUME Reader, ~Eof, ~Overflows, Advance, UNCHANGED file
  PROVE  /\ Position(at', off') /\ at <= at'
         /\ Passed(at', off') = at /\ at \in 1..Len(file)
         /\ Passed(at, off) = IF off = 0 THEN at - 1 ELSE at
         /\ Passed(at, off) <= Passed(at', off')
         /\ off = 0 \/ off >= file[at].len
<1> DEFINE l == file[at].len
           e == file[at].end
<1>1. at \in 1..Len(file) /\ at \in Nat /\ Len(file) \in Nat /\ off \in Nat /\ size \in Nat /\ size >= 2
  <2>1. Len(file) \in Nat
    BY FileIs DEF Reader
  <2> QED BY <2>1 DEF Reader, Position, Eof
<1>2. l \in Nat /\ e \in Nat /\ l + e > 0 /\ off < l + e /\ (off = 0 \/ off >= l)
  <2>1. l \in Nat /\ e \in Nat /\ l + e > 0
    BY <1>1, FileIs DEF Reader
  <2> QED BY <1>1, <2>1 DEF Reader, Position
<1> HIDE DEF l, e
<1>3. Got = (IF l + e - off < size - 1 THEN l + e - off ELSE size - 1)
  BY DEF Got, l, e
<1>4. Got \in Nat /\ Got >= 1 /\ off + Got <= l + e
  BY <1>1, <1>2, <1>3
<1>5. off + Got = l + e \/ off + Got > l
  BY <1>1, <1>2, <1>3, <1>4 DEF Overflows, l
<1>6. CASE off + Got = l + e
  <2>1. at' = at + 1 /\ off' = 0
    BY <1>6 DEF Advance, l, e
  <2>2. Passed(at', off') = at
    BY <1>1, <2>1 DEF Passed
  <2>3. Position(at', off')
    <3>1. at + 1 \in 1..(Len(file) + 1)
      BY <1>1
    <3>2. at + 1 <= Len(file) => 0 < file[at + 1].len + file[at + 1].end
      BY <1>1, FileIs DEF Reader
    <3> QED BY <2>1, <3>1, <3>2 DEF Position
  <2> QED BY <1>1, <1>2, <2>1, <2>2, <2>3 DEF Passed, l
<1>7. CASE off + Got # l + e
  <2>1. at' = at /\ off' = off + Got
    BY <1>7 DEF Advance, l, e
  <2>2. off' \in Nat /\ off' > 0 /\ off' < l + e /\ off' > l
    BY <1>1, <1>2, <1>4, <1>5, <1>7, <2>1
  <2>3. Passed(at', off') = at
    BY <2>1, <2>2 DEF Passed
  <2>4. Position(at', off')
    BY <1>1, <1>2, <2>1, <2>2 DEF Position, l, e
  <2> QED BY <1>1, <1>2, <2>1, <2>3, <2>4 DEF Passed, l
<1> QED BY <1>6, <1>7

\* A line with a name is read whole.
LEMMA LineIs ==
  ASSUME Reader, LineRead
  PROVE  /\ Line = file[at] /\ off = 0 /\ at \in 1..Len(file)
         /\ file[at].kind \in {"pseudo", "tag", "bad"}
<1>1. at \in 1..Len(file) /\ Len(file) \in Nat /\ off \in Nat /\ size \in Nat /\ size >= 2
  <2>1. Len(file) \in Nat
    BY FileIs DEF Reader
  <2> QED BY <2>1 DEF Reader, Position, Eof, LineRead
<1>2. /\ file[at].len \in Nat /\ file[at].end \in Nat
      /\ file[at].kind \in {"blank", "pseudo", "tag", "bad"}
  BY <1>1, FileIs DEF Reader
<1>3. off = 0 /\ file[at].kind # "blank" /\ file[at].len > 0
  BY <1>1, <1>2 DEF LineRead, IsBlank, Reader, Position
<1>4. Got = (IF file[at].len + file[at].end - 0 < size - 1
               THEN file[at].len + file[at].end - 0 ELSE size - 1)
  BY <1>3 DEF Got
<1>5. Got >= file[at].len
  BY <1>1, <1>2, <1>3, <1>4 DEF LineRead, Overflows
<1> QED BY <1>1, <1>2, <1>3, <1>5 DEF Line, Whole

-----------------------------------------------------------------------------
(***************************************************************************)
(* Every step keeps it.                                                    *)
(***************************************************************************)
LEMMA ReaderStep == ASSUME Reader, [Next]_vars PROVE Reader'
<1>0. /\ file \in Files /\ size \in Nat /\ size >= 2 /\ Position(at, off)
      /\ Position(start[1], start[2]) /\ start[1] <= at
      /\ Passed(start[1], start[2]) <= Passed(at, off)
  BY DEF Reader
<1>1. ASSUME UNCHANGED <<file, at, off, start>>, size' \in Nat /\ size' >= 2 PROVE Reader'
  BY <1>0, <1>1 DEF Reader, Position, Passed
<1>2. ASSUME Advance, ~Eof, ~Overflows, UNCHANGED <<file, size>>,
             start' = start \/ start' = <<at', off'>>
      PROVE  Reader'
  <2>1. /\ Position(at', off') /\ at <= at' /\ Passed(at', off') = at /\ at \in 1..Len(file)
        /\ Passed(at, off) <= Passed(at', off')
    BY <1>2, AdvanceIs
  <2>2. PICK a, o : a = at' /\ o = off'
    OBVIOUS
  <2>3. /\ Position(a, o) /\ at <= a /\ Passed(a, o) \in Int /\ a \in Int
        /\ Passed(at, off) <= Passed(a, o)
    BY <1>0, <2>1, <2>2, FileIs DEF Position
  <2>4. Position(a, o)'
    BY <1>2, <2>3 DEF Position
  <2>5. start[1] \in Int /\ at \in Int /\ Passed(start[1], start[2]) \in Int /\ Passed(at, off) \in Int
    BY <1>0, FileIs DEF Position, Passed
  <2>6. CASE start' = start
    <3>1. PICK b, p : b = start[1] /\ p = start[2]
      OBVIOUS
    <3>2. Position(b, p)'
      BY <1>0, <1>2, <3>1 DEF Position
    <3>3. b <= a /\ Passed(b, p) <= Passed(a, o)
      BY <1>0, <2>3, <2>5, <3>1
    <3> QED BY <1>0, <1>2, <2>2, <2>4, <2>6, <3>1, <3>2, <3>3 DEF Reader, Passed
  <2>7. CASE start' = <<at', off'>>
    <3>1. a <= a /\ Passed(a, o) <= Passed(a, o)
      BY <2>3
    <3>2. start'[1] = a /\ start'[2] = o
      BY <2>2, <2>7
    <3> QED BY <1>0, <1>2, <2>2, <2>4, <3>1, <3>2 DEF Reader, Passed
  <2> QED BY <1>2, <2>6, <2>7
<1>3. CASE Grow
  BY <1>0, <1>1, <1>3 DEF Grow
<1>4. CASE ReadBlank
  BY <1>2, <1>4 DEF ReadBlank
<1>5. CASE ReadPseudo
  BY <1>2, <1>5 DEF ReadPseudo, LineRead
<1>6. CASE Open
  <2>1. at' = start[1] /\ off' = start[2] /\ UNCHANGED <<file, start, size>>
    BY <1>6 DEF Open
  <2>2. start[1] <= start[1] /\ Passed(start[1], start[2]) <= Passed(start[1], start[2])
    <3>1. start[1] \in Int /\ Passed(start[1], start[2]) \in Int
      BY <1>0, FileIs DEF Position, Passed
    <3> QED BY <3>1
  <2> QED BY <1>0, <2>1, <2>2 DEF Reader, Position, Passed
<1>7. CASE tagsNext
  BY <1>2, <1>7 DEF tagsNext, LineRead
<1>8. CASE EndOfFile \/ ParseField \/ Assign \/ Skip \/ SaveToDB \/ Fails \/ UNCHANGED vars
  BY <1>0, <1>1, <1>8 DEF EndOfFile, ParseField, Assign, Skip, SaveToDB, Fails, vars, reader
<1> QED BY <1>3, <1>4, <1>5, <1>6, <1>7, <1>8 DEF Next, Step

\* What has been passed over before a file is read stays so, and goes on being
\* what stands at the head of it.
LEMMA HeaderStep == ASSUME Reader, Header, Parsed, [Next]_vars PROVE Header'
<1>0. Len(file) \in Nat /\ Passed(at, off) \in Int /\ Passed(start[1], start[2]) \in Int
  BY FileIs DEF Reader, Position, Passed
<1>1. ASSUME UNCHANGED <<file, at, off, start, rows>>,
             pc' = pc \/ pc' \in {"done", "failed"} \/ (pc \in {"read", "fields", "save"} /\ pc' \in {"read", "fields", "save"})
      PROVE  Header'
  BY <1>1 DEF Header, Passed
<1>2. ASSUME Advance, ~Eof, ~Overflows, UNCHANGED file
      PROVE  /\ Passed(at', off') = at /\ at \in 1..Len(file)
             /\ Passed(at, off) = IF off = 0 THEN at - 1 ELSE at
             /\ Passed(at, off) <= Passed(at', off')
             /\ off = 0 \/ off >= file[at].len
  BY <1>2, AdvanceIs DEF Reader
<1>3. CASE Grow
  BY <1>1, <1>3 DEF Grow
<1>4. CASE ReadBlank
  <2>1. Advance /\ ~Eof /\ ~Overflows /\ IsBlank /\ UNCHANGED <<file, pc, start, rows>>
    BY <1>4 DEF ReadBlank
  <2>2. pc \in {"pseudo", "read"}
    BY <1>4 DEF ReadBlank
  <2>3. Passed(at', off') = at /\ at \in 1..Len(file) /\ Passed(at, off) = IF off = 0 THEN at - 1 ELSE at
    BY <1>2, <2>1
  <2>4. off = 0 => file[at].kind = "blank"
    <3>1. file[at].len \in Nat /\ (file[at].len = 0 => file[at].kind = "blank")
      BY <2>3, FileIs DEF Reader
    <3> QED BY <2>1, <3>1 DEF IsBlank
  <2>5. \A k \in 1..at : k \in 1..Passed(at, off) \/ (file[k].kind = "blank" /\ k = at)
    BY <1>0, <2>3, <2>4
  <2>6. PICK a, o : a = at' /\ o = off'
    OBVIOUS
  <2>7. Passed(a, o) = at
    BY <2>3, <2>6
  <2>8. CASE pc = "pseudo"
    BY <2>1, <2>5, <2>6, <2>7, <2>8 DEF Header, Passed
  <2>9. CASE pc = "read"
    <3>1. \A k \in 1..at : file[k].kind # "bad"
      BY <2>5, <2>9 DEF Header
    <3>2. ASSUME NEW m \in DOMAIN file, at < m, file[m].kind = "pseudo"
          PROVE  \E k \in 1..(m - 1) : file[k].kind \in {"tag", "bad"}
      <4>1. Passed(at, off) < m
        <5>1. m \in Int /\ at \in Int
          BY <2>3, FileIs DEF Reader
        <5> QED BY <1>0, <2>3, <3>2, <5>1
      <4> QED BY <2>9, <3>2, <4>1 DEF Header
    <3> QED BY <2>1, <2>6, <2>7, <2>9, <3>1, <3>2 DEF Header, Passed
  <2> QED BY <2>2, <2>8, <2>9
<1>5. CASE ReadPseudo
  <2>1. Advance /\ ~Eof /\ ~Overflows /\ LineRead /\ UNCHANGED <<file, pc, rows>>
    BY <1>5 DEF ReadPseudo, LineRead
  <2>2. pc = "pseudo" /\ Line.kind = "pseudo" /\ start' = <<at', off'>>
    BY <1>5 DEF ReadPseudo
  <2>3. Passed(at', off') = at /\ at \in 1..Len(file) /\ Passed(at, off) = IF off = 0 THEN at - 1 ELSE at
    BY <1>2, <2>1
  <2>4. file[at].kind = "pseudo" /\ off = 0
    BY <2>1, <2>2, LineIs
  <2>5. \A k \in 1..at : k \in 1..Passed(at, off) \/ k = at
    BY <1>0, <2>3
  <2>6. PICK a, o : a = at' /\ o = off'
    OBVIOUS
  <2>7. Passed(a, o) = at
    BY <2>3, <2>6
  <2>8. start'[1] = a /\ start'[2] = o
    BY <2>2, <2>6
  <2>9. \A k \in 1..at : file[k].kind \in {"blank", "pseudo"}
    BY <2>2, <2>4, <2>5 DEF Header
  <2>10. \A k \in 1..at : ~(at < k)
    BY <2>3
  <2> QED BY <2>1, <2>2, <2>6, <2>7, <2>8, <2>9, <2>10 DEF Header, Passed
<1>6. CASE Open
  <2>1. at' = start[1] /\ off' = start[2] /\ UNCHANGED <<file, start, rows>> /\ pc = "pseudo" /\ pc' = "read"
    BY <1>6 DEF Open
  <2>2. Eof \/ (LineRead /\ Line.kind # "pseudo")
    BY <1>6 DEF Open
  <2>3. PICK s : s = Passed(start[1], start[2])
    OBVIOUS
  <2>4. s \in Int /\ s <= Passed(at, off)
    BY <1>0, <2>3 DEF Reader
  <2>5. \A k \in 1..s : file[k].kind # "bad"
    <3>1. \A k \in 1..s : k \in 1..Passed(at, off)
      BY <1>0, <2>4
    <3> QED BY <2>1, <3>1 DEF Header
  <2>6. ASSUME NEW m \in DOMAIN file, s < m, file[m].kind = "pseudo"
        PROVE  \E k \in 1..(m - 1) : file[k].kind \in {"tag", "bad"}
    <3>1. m \in 1..Len(file)
      BY FileIs DEF Reader
    <3>2. m \notin 1..Passed(at, off)
      <4>1. \A k \in 1..Passed(at, off) : s < k => file[k].kind = "blank"
        BY <2>1, <2>3 DEF Header
      <4> QED BY <2>6, <4>1
    <3>3. Passed(at, off) < m
      BY <1>0, <3>1, <3>2
    <3>4. at \in 1..(Len(file) + 1) /\ off \in Nat /\ (at > Len(file) => off = 0)
      BY DEF Reader, Position
    <3>5. ~Eof
      BY <1>0, <3>1, <3>3, <3>4 DEF Eof, Passed
    <3>6. off = 0 /\ file[at].kind \in {"tag", "bad"} /\ at \in 1..Len(file)
      BY <2>2, <3>5, LineIs
    <3>7. at <= m /\ at # m
      BY <2>6, <3>1, <3>3, <3>6 DEF Passed
    <3>8. at \in 1..(m - 1)
      BY <3>1, <3>6, <3>7
    <3> QED BY <3>6, <3>8
  <2>7. Passed(start[1], start[2]) = s /\ Passed(at, off)' = s
    BY <2>1, <2>3 DEF Passed
  <2> QED BY <2>1, <2>5, <2>6, <2>7 DEF Header
<1>7. CASE tagsNext
  <2>1. Advance /\ ~Eof /\ ~Overflows /\ LineRead /\ UNCHANGED file /\ pc = "read"
    BY <1>7 DEF tagsNext, LineRead
  <2>2. Passed(at', off') = at /\ at \in 1..Len(file) /\ Passed(at, off) = IF off = 0 THEN at - 1 ELSE at
    BY <1>2, <2>1
  <2>3. Line = file[at] /\ off = 0 /\ file[at].kind \in {"pseudo", "tag", "bad"}
    BY <2>1, LineIs
  <2>4. pc' = IF file[at].kind = "bad" THEN "done" ELSE "fields"
    BY <1>7, <2>3 DEF tagsNext
  <2>5. CASE file[at].kind = "bad"
    BY <2>4, <2>5 DEF Header
  <2>6. CASE file[at].kind # "bad"
    <3>1. PICK a, o : a = at' /\ o = off'
      OBVIOUS
    <3>2. Passed(a, o) = at
      BY <2>2, <3>1
    <3>3. \A k \in 1..at : k \in 1..Passed(at, off) \/ k = at
      BY <1>0, <2>2
    <3>4. \A k \in 1..at : file[k].kind # "bad"
      BY <2>1, <2>6, <3>3 DEF Header
    <3>5. ASSUME NEW m \in DOMAIN file, at < m, file[m].kind = "pseudo"
          PROVE  \E k \in 1..(m - 1) : file[k].kind \in {"tag", "bad"}
      <4>1. Passed(at, off) < m
        <5>1. m \in Int /\ at \in Int
          BY <2>2, FileIs DEF Reader
        <5> QED BY <1>0, <2>2, <3>5, <5>1
      <4> QED BY <2>1, <3>5, <4>1 DEF Header
    <3> QED BY <2>1, <2>4, <2>6, <3>1, <3>2, <3>4, <3>5 DEF Header, Passed
  <2> QED BY <2>5, <2>6
<1>8. CASE EndOfFile \/ ParseField \/ Assign \/ Skip \/ Fails \/ UNCHANGED vars
  BY <1>1, <1>8 DEF EndOfFile, ParseField, Assign, Skip, Fails, vars, reader
<1>9. CASE SaveToDB
  BY <1>9 DEF SaveToDB, reader, Header, Passed
<1> QED BY <1>3, <1>4, <1>5, <1>6, <1>7, <1>8, <1>9 DEF Next, Step

\* tagsNext takes the line it has read last, and ParseField its fields in turn.
LEMMA ParsedStep == ASSUME Reader, Header, Parsed, [Next]_vars PROVE Parsed'
<1>1. ASSUME UNCHANGED <<file, at, off, line, list>>, pc' = pc \/ (pc = "fields" /\ pc' = "save")
      PROVE  Parsed'
  BY <1>1 DEF Parsed, Passed, IsTag
<1>2. ASSUME pc' \notin {"fields", "save"} PROVE Parsed'
  BY <1>2 DEF Parsed
<1>3. CASE Grow \/ Assign \/ UNCHANGED vars
  BY <1>1, <1>3 DEF Grow, Assign, vars, reader
<1>4. CASE ReadBlank \/ ReadPseudo \/ Open \/ EndOfFile \/ Skip \/ SaveToDB \/ Fails
  BY <1>2, <1>4 DEF ReadBlank, ReadPseudo, Open, EndOfFile, Skip, SaveToDB, Fails
<1>5. CASE tagsNext
  <2>1. Advance /\ ~Eof /\ ~Overflows /\ LineRead /\ UNCHANGED file /\ pc = "read"
    BY <1>5 DEF tagsNext, LineRead
  <2>2. Passed(at', off') = at /\ at \in 1..Len(file) /\ Passed(at, off) = IF off = 0 THEN at - 1 ELSE at
    BY <2>1, AdvanceIs
  <2>3. Line = file[at] /\ off = 0 /\ file[at].kind \in {"pseudo", "tag", "bad"}
    BY <2>1, LineIs
  <2>4. /\ pc' = IF file[at].kind = "bad" THEN "done" ELSE "fields"
        /\ line' = file[at] /\ list' = <<>>
    BY <1>5, <2>3 DEF tagsNext
  <2>5. CASE file[at].kind = "bad"
    BY <1>2, <2>4, <2>5
  <2>6. CASE file[at].kind # "bad"
    <3>1. IsTag(at)
      <4>1. CASE file[at].kind = "pseudo"
        <5>1. PICK k \in 1..(at - 1) : file[k].kind \in {"tag", "bad"}
          <6>1. at \in DOMAIN file /\ at - 1 < at
            BY <2>2, FileIs DEF Reader
          <6> QED BY <2>1, <2>2, <2>3, <4>1, <6>1 DEF Header
        <5>2. k \in 1..Passed(at, off)
          BY <2>2, <2>3
        <5>3. file[k].kind # "bad"
          BY <2>1, <5>2 DEF Header
        <5> QED BY <4>1, <5>1, <5>3 DEF IsTag
      <4> QED BY <2>3, <2>6, <4>1 DEF IsTag
    <3>2. PICK a, o : a = at' /\ o = off'
      OBVIOUS
    <3>3. Passed(a, o) = at /\ at >= 1
      BY <2>2, <3>2
    <3>4. /\ <<>> \in Seq(ToSet(file[at].fields)) /\ Len(<<>>) <= Len(file[at].fields)
          /\ \A n \in 1..Len(<<>>) : <<>>[n] = file[at].fields[n]
      <4>1. file[at].fields \in Seq(ToSet(file[at].fields))
        BY <2>2, FileIs DEF Reader
      <4> QED BY <4>1
    <3>5. PICK n : n = at
      OBVIOUS
    <3>6. IsTag(n)'
      BY <2>1, <3>1, <3>5 DEF IsTag
    <3>7. Passed(at, off)' = n
      BY <3>2, <3>3, <3>5 DEF Passed
    <3>8. pc' = "fields"
      BY <2>4, <2>6
    <3> QED BY <2>1, <2>4, <3>3, <3>4, <3>5, <3>6, <3>7, <3>8 DEF Parsed
  <2> QED BY <2>5, <2>6
<1>6. CASE ParseField
  <2>1. /\ pc = "fields" /\ pc' = "fields" /\ UNCHANGED <<file, at, off, line>>
        /\ Len(list) < Len(line.fields) /\ list' = Append(list, line.fields[Len(list) + 1])
    BY <1>6 DEF ParseField, reader
  <2> DEFINE s == line.fields
             l == list
             x == s[Len(l) + 1]
  <2>2. l \in Seq(ToSet(s)) /\ Len(l) < Len(s) /\ \A n \in 1..Len(l) : l[n] = s[n]
    BY <2>1 DEF Parsed
  <2>3. s \in Seq(ToSet(s))
    <3>1. Passed(at, off) \in 1..Len(file)
      BY <2>1, FileIs DEF Reader, Position, Passed, Parsed
    <3> QED BY <2>1, <3>1, FileIs DEF Reader, Parsed
  <2> HIDE DEF s, l
  <2>4. x \in ToSet(s)
    BY <2>2, <2>3 DEF ToSet
  <2> HIDE DEF x
  <2>5. Append(l, x) \in Seq(ToSet(s)) /\ Len(Append(l, x)) = Len(l) + 1 /\ Len(l) + 1 <= Len(s)
    BY <2>2, <2>3, <2>4
  <2>6. ASSUME NEW n \in 1..Len(Append(l, x)) PROVE Append(l, x)[n] = s[n]
    BY <2>2, <2>3, <2>5, <2>6 DEF x
  <2>7. list' = Append(l, x) /\ line'.fields = s
    BY <2>1 DEF l, x, s
  <2>8. Passed(at, off)' = Passed(at, off) /\ (IsTag(Passed(at, off))' <=> IsTag(Passed(at, off)))
    BY <2>1 DEF Passed, IsTag
  <2> QED BY <2>1, <2>5, <2>6, <2>7, <2>8 DEF Parsed
<1> QED BY <1>3, <1>4, <1>5, <1>6 DEF Next, Step

\* The list is doubled when it is full, which an unsigned short can hold.
LEMMA FitsStep == ASSUME Reader, Parsed, Fits, [Next]_vars PROVE Fits'
<1>1. ASSUME UNCHANGED <<file, max>>, pc' # "fields" \/ list' = <<>> \/ (pc' = pc /\ list' = list)
      PROVE  Fits'
  <2>1. FewFields' <=> FewFields
    BY <1>1 DEF FewFields
  <2>2. Len(<<>>) = 0
    OBVIOUS
  <2> QED BY <1>1, <2>1, <2>2 DEF Fits
<1>2. CASE ParseField
  <2>1. /\ pc = "fields" /\ pc' = "fields" /\ UNCHANGED <<file, line>>
        /\ Len(list) < Len(line.fields) /\ list' = Append(list, line.fields[Len(list) + 1])
        /\ max' = IF Len(list) = max THEN (2 * max) % FieldsModulus ELSE max
    BY <1>2 DEF ParseField, Full
  <2>2. Passed(at, off) \in DOMAIN file /\ line = file[Passed(at, off)] /\ list \in Seq(ToSet(line.fields))
    BY <2>1, FileIs DEF Reader, Position, Passed, Parsed
  <2>3. line.fields \in Seq(ToSet(line.fields))
    BY <2>2, FileIs DEF Reader
  <2>4. Len(list) \in Nat /\ Len(list') = Len(list) + 1 /\ Len(line.fields) \in Nat
    BY <2>1, <2>2, <2>3
  <2>5. FieldsModulus \in Nat \ {0} /\ max \in Nat
    BY TagsFileAssumption DEF Fits
  <2>6. FewFields' <=> FewFields
    BY <2>1 DEF FewFields
  <2>7. max' \in Nat
    BY <2>1, <2>5
  <2>8. ASSUME FewFields PROVE max' > 0 /\ Len(list') <= max'
    <3>1. Len(line.fields) <= FieldsModulus \div 2
      BY <2>2, <2>8 DEF FewFields
    <3>2. max > 0 /\ Len(list) <= max
      BY <2>1, <2>8 DEF Fits
    <3>3. CASE Len(list) = max
      <4>1. max < FieldsModulus \div 2
        BY <2>1, <2>4, <2>5, <3>1, <3>3
      <4>2. 2 * max < FieldsModulus
        BY <2>5, <4>1
      <4>3. (2 * max) % FieldsModulus = 2 * max
        BY <2>5, <4>2
      <4> QED BY <2>1, <2>4, <2>5, <3>2, <3>3, <4>3
    <3>4. CASE Len(list) # max
      BY <2>1, <2>4, <2>5, <3>2, <3>4
    <3> QED BY <3>3, <3>4
  <2> QED BY <2>1, <2>6, <2>7, <2>8 DEF Fits
<1>3. CASE Grow
  BY <1>1, <1>3 DEF Grow
<1>4. CASE ReadBlank
  BY <1>1, <1>4 DEF ReadBlank
<1>5. CASE ReadPseudo
  BY <1>1, <1>5 DEF ReadPseudo
<1>6. CASE Open
  BY <1>1, <1>6 DEF Open
<1>7. CASE tagsNext
  BY <1>1, <1>7 DEF tagsNext
<1>8. CASE EndOfFile \/ Assign \/ Skip \/ SaveToDB \/ Fails \/ UNCHANGED vars
  BY <1>1, <1>8 DEF EndOfFile, Assign, Skip, SaveToDB, Fails, vars
<1> QED BY <1>2, <1>3, <1>4, <1>5, <1>6, <1>7, <1>8 DEF Next, Step

-----------------------------------------------------------------------------
(***************************************************************************)
(* The tags of a file, line by line.                                       *)
(***************************************************************************)
LEMMA FirstLines ==
  ASSUME file \in Files, NEW n \in Nat, n <= Len(file)
  PROVE  \E g : /\ g[0] = <<>> /\ g[n] = TagsUpTo(n)
                /\ \A k \in Nat : k < n => g[k + 1] = AddTag(g[k], k + 1)
<1> DEFINE s == [i \in 1..n |-> i]
           b == <<>>
<1>1. file \in Seq(ToSet(file)) /\ Len(file) \in Nat
  BY FileIs
<1>2. DOMAIN SubSeq(file, 1, n) = 1..n
  BY <1>1
<1>3. \A k \in Nat : k < n => s[k + 1] = k + 1
  OBVIOUS
<1> DEFINE h == CHOOSE h : TagTree(h, s, b, n)
           g == [k \in Nat |-> h[1..k]]
<1>4. TagTree(h, s, b, n)
  BY TagTreeExists
<1>5. TagsUpTo(n) = h[1..n]
  <2>1. TagsUpTo(n) = FoldLeft(AddTag, b, s)
    BY <1>2, Zenon DEF TagsUpTo, FoldLeftDomain
  <2>2. FoldLeft(AddTag, b, s) =
          LET iter[x \in SUBSET (DOMAIN s)] ==
                IF x = {} THEN b ELSE AddTag(iter[x \ {Max(x)}], s[Max(x)])
          IN  iter[DOMAIN s]
    <3> HIDE DEF s, b
    <3> QED BY Zenon DEF FoldLeft, MapThenFoldSet
  <2>3. DOMAIN s = 1..n
    OBVIOUS
  <2> QED BY <2>1, <2>2, <2>3, Zenon DEF TagTree
<1> HIDE DEF h, s, b
<1>6. h[{}] = b /\ \A x \in SUBSET (1..n) :
                     x # {} => h[x] = AddTag(h[x \ {Max(x)}], s[Max(x)])
  <2>1. {} \in SUBSET (1..n)
    OBVIOUS
  <2> QED BY <1>4, <2>1, Zenon DEF TagTree
<1>7. g[0] = b
  <2>1. 1..0 = {}
    OBVIOUS
  <2> QED BY <1>6, <2>1
<1>8. ASSUME NEW k \in Nat, k < n PROVE g[k + 1] = AddTag(g[k], k + 1)
  <2>1. k + 1 \in Nat
    OBVIOUS
  <2>2. g[k + 1] = h[1..(k + 1)] /\ g[k] = h[1..k]
    BY <2>1
  <2>3. /\ 1..(k + 1) \in SUBSET (1..n) /\ 1..(k + 1) # {}
        /\ Max(1..(k + 1)) = k + 1 /\ (1..(k + 1)) \ {k + 1} = 1..k
    BY <1>8, UpTo
  <2>4. s[k + 1] = k + 1
    BY <1>3, <1>8
  <2> HIDE DEF g
  <2> QED BY <1>6, <2>2, <2>3, <2>4, Zenon
<1>9. g[n] = TagsUpTo(n)
  BY <1>5
<1> HIDE DEF g
<1> QED BY <1>7, <1>8, <1>9 DEF b

\* One line more.
LEMMA TagsUpToIs ==
  ASSUME file \in Files
  PROVE  /\ TagsUpTo(0) = <<>>
         /\ \A n \in Nat : n < Len(file) => TagsUpTo(n + 1) = AddTag(TagsUpTo(n), n + 1)
<1>0. Len(file) \in Nat
  BY FileIs
<1>1. TagsUpTo(0) = <<>>
  BY <1>0, FirstLines
<1>2. ASSUME NEW n \in Nat, n < Len(file)
      PROVE  TagsUpTo(n + 1) = AddTag(TagsUpTo(n), n + 1)
  <2>1. PICK g : /\ g[0] = <<>> /\ g[n] = TagsUpTo(n)
                 /\ \A k \in Nat : k < n => g[k + 1] = AddTag(g[k], k + 1)
    BY <1>0, <1>2, FirstLines
  <2>2. PICK h : /\ h[0] = <<>> /\ h[n + 1] = TagsUpTo(n + 1)
                 /\ \A k \in Nat : k < n + 1 => h[k + 1] = AddTag(h[k], k + 1)
    <3>1. n + 1 \in Nat /\ n + 1 <= Len(file)
      BY <1>0, <1>2
    <3> QED BY <3>1, FirstLines
  <2> DEFINE S == {k \in Nat : k <= n => g[k] = h[k]}
  <2>3. 0 \in S
    BY <2>1, <2>2
  <2>4. ASSUME NEW k \in Nat, k \in S PROVE k + 1 \in S
    <3> SUFFICES ASSUME k + 1 <= n PROVE g[k + 1] = h[k + 1]
      OBVIOUS
    <3>1. k < n /\ k < n + 1 /\ g[k] = h[k]
      BY <2>4
    <3>2. g[k + 1] = AddTag(g[k], k + 1) /\ h[k + 1] = AddTag(h[k], k + 1)
      BY <2>1, <2>2, <3>1
    <3> QED BY <3>1, <3>2
  <2>5. n \in S
    <3> HIDE DEF S
    <3> QED BY <2>3, <2>4, SetInduction
  <2>6. g[n] = h[n] /\ h[n + 1] = AddTag(h[n], n + 1)
    BY <2>2, <2>5
  <2> QED BY <2>1, <2>2, <2>6
<1> QED BY <1>1, <1>2

\* They are tags that lines say, and those of more lines go on where those of
\* fewer lines end.
LEMMA TagsUpToGrows ==
  ASSUME file \in Files
  PROVE  \A n \in Nat : n <= Len(file) =>
           \A k \in 0..n : TagsUpTo(k) \in Seq(Said) /\ IsPrefix(TagsUpTo(k), TagsUpTo(n))
<1> DEFINE S == {n \in Nat : n <= Len(file) =>
                   \A k \in 0..n : TagsUpTo(k) \in Seq(Said) /\ IsPrefix(TagsUpTo(k), TagsUpTo(n))}
<1>0. Len(file) \in Nat /\ DOMAIN file = 1..Len(file)
  BY FileIs
<1>1. 0 \in S
  <2>1. TagsUpTo(0) = <<>>
    BY TagsUpToIs
  <2>2. <<>> \in Seq(Said) /\ IsPrefix(<<>>, <<>>)
    BY DEF IsPrefix
  <2>3. \A k \in 0..0 : k = 0
    OBVIOUS
  <2> QED BY <2>1, <2>2, <2>3
<1>2. ASSUME NEW n \in Nat, n \in S PROVE n + 1 \in S
  <2> SUFFICES ASSUME n + 1 <= Len(file)
               PROVE  \A k \in 0..(n + 1) : /\ TagsUpTo(k) \in Seq(Said)
                                             /\ IsPrefix(TagsUpTo(k), TagsUpTo(n + 1))
    OBVIOUS
  <2> DEFINE s == TagsUpTo(n)
             t == TagOf(file[n + 1])
             r == TagsUpTo(n + 1)
  <2>1. s \in Seq(Said) /\ \A k \in 0..n : TagsUpTo(k) \in Seq(Said) /\ IsPrefix(TagsUpTo(k), s)
    BY <1>0, <1>2
  <2>2. r = AddTag(s, n + 1)
    BY <1>0, TagsUpToIs
  <2>3. r = Append(s, t) \/ r = s
    BY <2>2 DEF AddTag
  <2>4. t \in Said
    BY <1>0 DEF Said
  <2> HIDE DEF r, s, t
  <2>5. r \in Seq(Said)
    BY <2>1, <2>3, <2>4
  <2>6. IsPrefix(r, r)
    BY <2>5 DEF IsPrefix
  <2>7. ASSUME NEW k \in 0..n PROVE IsPrefix(TagsUpTo(k), r)
    <3> DEFINE q == TagsUpTo(k)
    <3>1. IsPrefix(q, s)
      BY <2>1
    <3>2. q \in Seq(Said)
      BY <2>1
    <3> HIDE DEF q
    <3>3. CASE r = s
      BY <3>1, <3>3 DEF q
    <3>4. CASE r = Append(s, t)
      <4>1. Len(q) \in Nat /\ Len(s) \in Nat /\ Len(q) <= Len(s) /\ Len(r) = Len(s) + 1
        BY <2>1, <2>4, <3>1, <3>2, <3>4 DEF IsPrefix
      <4>2. \A i \in 1..Len(s) : r[i] = s[i]
        BY <2>1, <2>4, <3>4
      <4>3. SubSeq(r, 1, Len(q)) = SubSeq(s, 1, Len(q))
        BY <2>1, <2>5, <4>1, <4>2
      <4> QED BY <3>1, <4>1, <4>3 DEF IsPrefix, q
    <3> QED BY <2>3, <3>3, <3>4
  <2>8. \A k \in 0..(n + 1) : k \in 0..n \/ k = n + 1
    OBVIOUS
  <2> QED BY <2>1, <2>5, <2>6, <2>7, <2>8 DEF r
<1>3. \A n \in Nat : n \in S
  <2> HIDE DEF S
  <2> QED BY <1>1, <1>2, SetInduction
<1> QED BY <1>3

-----------------------------------------------------------------------------
(***************************************************************************)
(* From the Tag to the row and back.                                       *)
(***************************************************************************)
LEMMA SaidIs ==
  ASSUME file \in Files, NEW t \in Said
  PROVE  DOMAIN t = DOMAIN EmptyTag /\ t = [c \in DOMAIN t |-> t[c]] /\ \A c \in DOMAIN t : t[c] # Null
<1>1. PICK n \in DOMAIN file : t = TagOf(file[n])
  BY DEF Said
<1>2. DOMAIN TagOf(file[n]) = DOMAIN EmptyTag
  BY DEF TagOf, EmptyTag
<1>3. TagOf(file[n]) = [c \in DOMAIN TagOf(file[n]) |-> TagOf(file[n])[c]]
  <2>1. ASSUME NEW name, NEW number, NEW pattern, NEW this, NEW g, NEW m, NEW y,
               NEW i, NEW s, NEW a, NEW j, NEW u,
               NEW r, r = Columns(name, number, pattern, this, g, m, y, i, s, a, j, u)
        PROVE  r = [c \in DOMAIN r |-> r[c]]
    BY <2>1 DEF Columns
  <2> QED BY <2>1 DEF TagOf, Columns
<1>4. \A c \in DOMAIN EmptyTag : TagOf(file[n])[c] # Null
  BY NullAssumption
<1> HIDE DEF Said
<1> QED BY <1>1, <1>2, <1>3, <1>4

\* What is bound for a Tag is read back as the Tag.
LEMMA BoundIs ==
  ASSUME file \in Files, NEW t \in Said
  PROVE  DOMAIN Bind(t) = DOMAIN EmptyTag /\ SetFromDB(Bind(t)) = t
<1>1. DOMAIN t = DOMAIN EmptyTag /\ t = [c \in DOMAIN t |-> t[c]] /\ \A c \in DOMAIN t : t[c] # Null
  BY SaidIs
<1> DEFINE b == Bind(t)
<1>2. DOMAIN b = DOMAIN t /\ \A c \in DOMAIN t : b[c] = IF IsEmpty(t, c) THEN Null ELSE t[c]
  BY DEF Bind
<1> HIDE DEF b
<1>3. \A c \in DOMAIN t : (IF b[c] = Null THEN EmptyTag[c] ELSE b[c]) = t[c]
  BY <1>1, <1>2 DEF IsEmpty
<1>4. SetFromDB(b) = [c \in DOMAIN t |-> IF b[c] = Null THEN EmptyTag[c] ELSE b[c]]
  BY <1>2, Zenon DEF SetFromDB
<1>5. SetFromDB(b) = t
  <2> DEFINE r == [c \in DOMAIN t |-> IF b[c] = Null THEN EmptyTag[c] ELSE b[c]]
             q == [c \in DOMAIN t |-> t[c]]
  <2>1. r = q
    BY <1>3, Zenon
  <2> QED BY <1>1, <1>4, <2>1, Zenon
<1> QED BY <1>1, <1>2, <1>5 DEF b

\* The Tag that Assign makes of a line.
LEMMA AssignedIs ==
  ASSUME NEW T, line.fields \in Seq(T), list = line.fields
  PROVE  AssignFrom(EmptyTag) = TagOf(line)
<1> DEFINE p == IF line.number = 0 THEN TrimPattern(line.pattern) ELSE EmptyTag.pattern
           q == IF line.number = 0 THEN TrimPattern(line.pattern) ELSE <<>>
           b == [EmptyTag EXCEPT !.name = line.name, !.line = line.number,
                                 !.pattern = p, !.thisFile = line.thisFile]
<1>1. PICK l : l = line
  OBVIOUS
<1>2. \A keys : LastUpTo(l.fields, keys, 0) = [key |-> "", value |-> ""]
  <2>1. ASSUME NEW keys PROVE {n \in 1..0 : l.fields[n].key \in keys} = {}
    OBVIOUS
  <2> QED BY <2>1 DEF LastUpTo
<1>3. Partly(l, 0, <<>>) = Columns(l.name, l.number, q, l.thisFile, "", "", "", "", "", "", "", <<>>)
  <2>1. /\ LastUpTo(l.fields, {"language"}, 0).value = ""
        /\ LastUpTo(l.fields, Owners, 0).value = "" /\ LastUpTo(l.fields, Owners, 0).key = ""
        /\ LastUpTo(l.fields, {"inherits"}, 0).value = "" /\ LastUpTo(l.fields, {"signature"}, 0).value = ""
        /\ LastUpTo(l.fields, {"access"}, 0).value = ""
        /\ LastUpTo(l.fields, {"implementation"}, 0).value = ""
    <3> DEFINE nothing == [key |-> "", value |-> ""]
    <3>1. nothing.key = "" /\ nothing.value = ""
      OBVIOUS
    <3>2. \A keys : LastUpTo(l.fields, keys, 0) = nothing
      BY <1>2
    <3> HIDE DEF nothing
    <3> QED BY <3>1, <3>2
  <2>2. "" \notin {"C", "C++"}
    OBVIOUS
  <2> QED BY <1>1, <2>1, <2>2, Zenon DEF Partly
<1>4. b = Columns(l.name, l.number, q, l.thisFile, "", "", "", "", "", "", "", <<>>)
  <2>1. EmptyTag.pattern = <<>>
    BY DEF EmptyTag
  <2>2. p = q
    BY <2>1
  <2> HIDE DEF p, q
  <2>3. ASSUME NEW n, NEW m, NEW y, NEW t
        PROVE  [EmptyTag EXCEPT !.name = n, !.line = m, !.pattern = y, !.thisFile = t] =
                 Columns(n, m, y, t, "", "", "", "", "", "", "", <<>>)
    <3>1. PICK no, e, z, w : no = FALSE /\ e = "" /\ z = 0 /\ w = <<>>
      OBVIOUS
    <3>2. EmptyTag = Columns(e, z, w, no, e, e, e, e, e, e, e, w)
      BY <3>1, Zenon DEF EmptyTag, Columns
    <3>3. [Columns(e, z, w, no, e, e, e, e, e, e, e, w) EXCEPT !.name = n] =
            Columns(n, z, w, no, e, e, e, e, e, e, e, w)
      BY DEF Columns
    <3>4. [Columns(n, z, w, no, e, e, e, e, e, e, e, w) EXCEPT !.line = m] =
            Columns(n, m, w, no, e, e, e, e, e, e, e, w)
      BY DEF Columns
    <3>5. [Columns(n, m, w, no, e, e, e, e, e, e, e, w) EXCEPT !.pattern = y] =
            Columns(n, m, y, no, e, e, e, e, e, e, e, w)
      BY DEF Columns
    <3>6. [Columns(n, m, y, no, e, e, e, e, e, e, e, w) EXCEPT !.thisFile = t] =
            Columns(n, m, y, t, e, e, e, e, e, e, e, w)
      BY DEF Columns
    <3>7. [EmptyTag EXCEPT !.name = n, !.line = m, !.pattern = y, !.thisFile = t] =
            [[[[EmptyTag EXCEPT !.name = n] EXCEPT !.line = m] EXCEPT !.pattern = y] EXCEPT !.thisFile = t]
      OBVIOUS
    <3>8. [[EmptyTag EXCEPT !.name = n] EXCEPT !.line = m] = Columns(n, m, w, no, e, e, e, e, e, e, e, w)
      BY <3>2, <3>3, <3>4, Zenon
    <3>9. [[[EmptyTag EXCEPT !.name = n] EXCEPT !.line = m] EXCEPT !.pattern = y] =
            Columns(n, m, y, no, e, e, e, e, e, e, e, w)
      BY <3>5, <3>8, Zenon
    <3>10. [EmptyTag EXCEPT !.name = n, !.line = m, !.pattern = y, !.thisFile = t] =
             Columns(n, m, y, t, e, e, e, e, e, e, e, w)
      BY <3>6, <3>7, <3>9, Zenon
    <3> QED BY <3>1, <3>10, Zenon
  <2> QED BY <1>1, <2>2, <2>3, Zenon
<1>5. AssignFrom(EmptyTag) = AllAssigned(b, list)
  BY Zenon DEF AssignFrom, AllAssigned
<1> HIDE DEF b
<1>6. AssignFrom(EmptyTag) = AllAssigned(Partly(l, 0, <<>>), l.fields)
  BY <1>1, <1>3, <1>4, <1>5, Zenon
<1>7. AllAssigned(Partly(l, 0, <<>>), l.fields) = TagOf(l)
  BY <1>1, TagIsAssigned
<1> QED BY <1>1, <1>6, <1>7

\* The lines that are imported are those before the first that is bad.
LEMMA GoodIs ==
  ASSUME file \in Files, NEW n \in 0..Len(file), \A k \in 1..n : file[k].kind # "bad",
         n < Len(file) => file[n + 1].kind = "bad"
  PROVE  Good = n
<1>0. Len(file) \in Nat
  BY FileIs
<1> DEFINE P(m) == /\ \A k \in 1..m : file[k].kind # "bad"
                   /\ m < Len(file) => file[m + 1].kind = "bad"
<1>1. P(n)
  OBVIOUS
<1>2. ASSUME NEW m \in 0..Len(file), P(m) PROVE m = n
  <2>1. CASE m < n
    <3>1. m + 1 \in 1..n /\ m < Len(file)
      BY <1>0, <2>1
    <3> QED BY <1>2, <3>1
  <2>2. CASE n < m
    <3>1. n + 1 \in 1..m /\ n < Len(file)
      BY <1>0, <2>2
    <3> QED BY <1>2, <3>1
  <2> QED BY <1>0, <2>1, <2>2
<1>3. Good = CHOOSE m \in 0..Len(file) : P(m)
  BY Zenon DEF Good
<1> HIDE DEF P
<1> QED BY <1>1, <1>2, <1>3

\* A file that stays has the same tags.
LEMMA Steady ==
  ASSUME UNCHANGED file
  PROVE  /\ Said' = Said /\ Good' = Good
         /\ \A n : TagsUpTo(n)' = TagsUpTo(n)
<1>1. Said' = Said
  BY DEF Said
<1>2. Good' = Good
  BY DEF Good
<1>3. \A n : TagsUpTo(n)' = TagsUpTo(n)
  BY DEF TagsUpTo, FoldLeftDomain, FoldLeft, MapThenFoldSet, AddTag, IsTag
<1> QED BY <1>1, <1>2, <1>3

-----------------------------------------------------------------------------
(***************************************************************************)
(* The rows, and the theorems.                                             *)
(***************************************************************************)
\* The head of a file has no tags.
LEMMA NoTags ==
  ASSUME file \in Files, NEW n \in Nat, n <= Len(file),
         \A k \in 1..n : file[k].kind \in {"blank", "pseudo"}
  PROVE  TagsUpTo(n) = <<>>
<1>0. Len(file) \in Nat
  BY FileIs
<1> DEFINE S == {k \in Nat : k <= n => TagsUpTo(k) = <<>>}
<1>1. 0 \in S
  BY TagsUpToIs
<1>2. ASSUME NEW k \in Nat, k \in S PROVE k + 1 \in S
  <2> SUFFICES ASSUME k + 1 <= n PROVE TagsUpTo(k + 1) = <<>>
    OBVIOUS
  <2>1. k <= n /\ k < Len(file) /\ k + 1 \in 1..n /\ TagsUpTo(k) = <<>>
    BY <1>0, <1>2
  <2>2. TagsUpTo(k + 1) = AddTag(TagsUpTo(k), k + 1)
    BY <2>1, TagsUpToIs
  <2>3. ~IsTag(k + 1)
    <3>1. file[k + 1].kind # "tag" /\ \A i \in 1..((k + 1) - 1) : i \in 1..n
      BY <2>1
    <3> QED BY <3>1 DEF IsTag
  <2> QED BY <2>1, <2>2, <2>3 DEF AddTag
<1>3. n \in S
  <2> HIDE DEF S
  <2> QED BY <1>1, <1>2, SetInduction
<1> QED BY <1>3

\* One row more.
LEMMA OneRowMore ==
  ASSUME file \in Files, rows \in Seq({Bind(t) : t \in Said}), NEW t \in Said,
         rows' = Append(rows, Bind(t)), UNCHANGED file
  PROVE  /\ rows' \in Seq({Bind(u) : u \in Said})
         /\ Imported' = Append(Imported, t)
<1> DEFINE B == {Bind(u) : u \in Said}
           b == Bind(t)
<1>1. b \in B /\ rows \in Seq(B) /\ SetFromDB(b) = t
  BY BoundIs
<1> HIDE DEF B, b
<1>2. PICK r, s : r = rows /\ s = rows'
  OBVIOUS
<1>3. r \in Seq(B) /\ s = Append(r, b) /\ s \in Seq(B)
  BY <1>1, <1>2 DEF b
<1>4. [n \in DOMAIN s |-> SetFromDB(s[n])] = Append([n \in DOMAIN r |-> SetFromDB(r[n])], t)
  <2> DEFINE f == [n \in DOMAIN r |-> SetFromDB(r[n])]
             g == [n \in DOMAIN s |-> SetFromDB(s[n])]
  <2>1. DOMAIN r = 1..Len(r) /\ DOMAIN s = 1..(Len(r) + 1) /\ Len(r) \in Nat
    BY <1>1, <1>3
  <2>2. \A n \in 1..Len(r) : s[n] = r[n]
    BY <1>1, <1>3
  <2>3. s[Len(r) + 1] = b
    BY <1>1, <1>3
  <2> DEFINE V == {SetFromDB(r[n]) : n \in DOMAIN r} \cup {t}
  <2>4. f \in Seq(V) /\ Len(f) = Len(r) /\ t \in V
    BY <2>1
  <2>5. \A n \in 1..(Len(r) + 1) : g[n] = Append(f, t)[n]
    <3> SUFFICES ASSUME NEW n \in 1..(Len(r) + 1) PROVE g[n] = Append(f, t)[n]
      OBVIOUS
    <3>1. CASE n = Len(r) + 1
      <4>1. g[n] = t
        BY <1>1, <2>1, <2>3, <3>1
      <4>2. Append(f, t)[n] = t
        <5> HIDE DEF f, V
        <5> QED BY <2>1, <2>4, <3>1
      <4> QED BY <4>1, <4>2
    <3>2. CASE n # Len(r) + 1
      <4>1. n \in 1..Len(r)
        BY <2>1, <3>2
      <4>2. g[n] = f[n]
        BY <2>1, <2>2, <4>1
      <4>3. Append(f, t)[n] = f[n]
        <5> HIDE DEF f, V
        <5> QED BY <2>1, <2>4, <4>1
      <4> QED BY <4>2, <4>3
    <3> QED BY <3>1, <3>2
  <2>6. DOMAIN g = 1..(Len(r) + 1) /\ g = [n \in DOMAIN g |-> g[n]]
    BY <2>1
  <2>7. /\ DOMAIN Append(f, t) = 1..(Len(r) + 1)
        /\ Append(f, t) = [n \in DOMAIN Append(f, t) |-> Append(f, t)[n]]
    <3> HIDE DEF f, V
    <3>1. PICK a : a = Append(f, t)
      OBVIOUS
    <3>2. a \in Seq(V) /\ Len(a) = Len(r) + 1
      BY <2>1, <2>4, <3>1
    <3>3. DOMAIN a = 1..(Len(r) + 1) /\ a = [n \in DOMAIN a |-> a[n]]
      BY <2>1, <3>2
    <3> QED BY <3>1, <3>3
  <2> DEFINE a == Append(f, t)
  <2>8. a = g
    <3> HIDE DEF a, g
    <3> QED BY <2>5, <2>6, <2>7 DEF a
  <2> QED BY <2>8
<1>5. {Bind(u) : u \in Said'} = B
  BY Steady DEF B
<1>6. Imported' = [n \in DOMAIN s |-> SetFromDB(s[n])] /\ Imported = [n \in DOMAIN r |-> SetFromDB(r[n])]
  BY <1>2 DEF Imported, SetFromDB, EmptyTag
<1>7. rows' \in Seq(B)
  BY <1>2, <1>3
<1>8. rows' \in Seq({Bind(u) : u \in Said})
  BY <1>7 DEF B
<1>9. Imported' = Append(Imported, t)
  BY <1>4, <1>6, Zenon
<1> QED BY <1>8, <1>9

\* Wherever the import is, the rows are those of the lines up to some line.
LEMMA RowsSoFar == ASSUME TInv PROVE \E n \in 0..Len(file) : Imported = TagsUpTo(n)
<1>0. file \in Files /\ Len(file) \in Nat /\ Passed(at, off) \in 0..Len(file)
  BY FileIs DEF TInv, Reader, Position, Passed
<1>1. CASE pc = "pseudo"
  <2>1. Imported = <<>>
    BY <1>1 DEF TInv, Header, Imported
  <2>2. TagsUpTo(0) = <<>> /\ 0 \in 0..Len(file)
    BY <1>0, TagsUpToIs
  <2> QED BY <2>1, <2>2
<1>2. CASE pc = "read"
  BY <1>0, <1>2 DEF TInv, Stored
<1>3. CASE pc \in {"fields", "save"}
  <2>1. Passed(at, off) >= 1
    BY <1>3 DEF TInv, Parsed
  <2>2. Passed(at, off) - 1 \in 0..Len(file)
    BY <1>0, <2>1
  <2> QED BY <1>3, <2>2 DEF TInv, Stored
<1>4. CASE pc = "done"
  BY <1>4 DEF TInv, Stored
<1>5. CASE pc = "failed"
  BY <1>5 DEF TInv, Stored
<1> QED BY <1>1, <1>2, <1>3, <1>4, <1>5 DEF TInv, Stored

\* Every step adds the tag of its line to the rows, or there is none.
LEMMA StoredStep == ASSUME TInv, [Next]_vars PROVE Stored'
<1>0. /\ Len(file) \in Nat /\ DOMAIN file = 1..Len(file) /\ Passed(at, off) \in 0..Len(file)
      /\ file \in Files
  BY FileIs DEF TInv, Reader, Position, Passed
<1>1. ASSUME UNCHANGED <<file, rows, tag, bound>>,
             pc' \in {"pseudo", "read", "fields", "done"},
             pc' = "read" => Imported = TagsUpTo(Passed(at, off)'),
             pc' = "fields" => Imported = TagsUpTo(Passed(at, off)' - 1),
             pc' = "done" => Good \in 0..Len(file) /\ Imported = TagsUpTo(Good)
      PROVE  Stored'
  <2>1. Imported' = Imported
    BY <1>1 DEF Imported, SetFromDB, EmptyTag
  <2>2. /\ Said' = Said /\ Good' = Good
        /\ \A n : TagsUpTo(n)' = TagsUpTo(n)
    BY <1>1, Steady
  <2>3. PICK p : p = Passed(at, off)'
    OBVIOUS
  <2>4. rows' \in Seq({Bind(t) : t \in Said'})
    BY <1>1, <2>2 DEF TInv, Stored
  <2>5. TagsUpTo(Passed(at, off))' = TagsUpTo(p) /\ TagsUpTo(Passed(at, off) - 1)' = TagsUpTo(p - 1)
    <3>1. TagsUpTo(Passed(at, off))' = TagsUpTo(p)'
      BY <2>3
    <3>2. TagsUpTo(Passed(at, off) - 1)' = TagsUpTo(p - 1)'
      BY <2>3
    <3> QED BY <2>2, <3>1, <3>2
  <2>6. TagsUpTo(Good)' = TagsUpTo(Good)
    <3>1. PICK g : g = Good
      OBVIOUS
    <3>2. TagsUpTo(Good)' = TagsUpTo(g)'
      BY <2>2, <3>1
    <3> QED BY <2>2, <3>1, <3>2
  <2>7. DOMAIN tag' = DOMAIN EmptyTag /\ DOMAIN bound' = DOMAIN EmptyTag
    BY <1>1 DEF TInv, Stored, EmptyTag
  <2> QED BY <1>1, <2>1, <2>2, <2>3, <2>4, <2>5, <2>6, <2>7 DEF Stored
<1>2. CASE Grow
  BY <1>0, <1>1, <1>2 DEF Grow, TInv, Stored, Passed
<1>3. CASE ReadBlank
  <2>1. Advance /\ ~Eof /\ ~Overflows /\ IsBlank /\ UNCHANGED <<file, pc, rows, tag, bound>> /\ pc \in {"pseudo", "read"}
    BY <1>3 DEF ReadBlank
  <2>2. Passed(at', off') = at /\ at \in 1..Len(file) /\ Passed(at, off) = IF off = 0 THEN at - 1 ELSE at
    BY <2>1, AdvanceIs DEF TInv
  <2>3. off = 0 => TagsUpTo(at) = TagsUpTo(at - 1)
    <3> SUFFICES ASSUME off = 0 PROVE TagsUpTo(at) = TagsUpTo(at - 1)
      OBVIOUS
    <3>1. file[at].len \in Nat /\ (file[at].len = 0 => file[at].kind = "blank")
      BY <1>0, <2>2, FileIs
    <3>2. file[at].kind = "blank"
      BY <2>1, <3>1 DEF IsBlank
    <3>3. ~IsTag(at)
      BY <3>2 DEF IsTag
    <3>4. PICK n \in Nat : n + 1 = at /\ n < Len(file)
      BY <1>0, <2>2
    <3>5. TagsUpTo(n + 1) = AddTag(TagsUpTo(n), n + 1) /\ at - 1 = n
      BY <1>0, <3>4, TagsUpToIs
    <3>6. AddTag(TagsUpTo(n), n + 1) = TagsUpTo(n)
      BY <3>3, <3>4 DEF AddTag
    <3> QED BY <3>4, <3>5, <3>6
  <2>4. pc = "read" => Imported = TagsUpTo(at)
    BY <2>2, <2>3 DEF TInv, Stored
  <2>5. Passed(at, off)' = at
    BY <2>2 DEF Passed
  <2> QED BY <1>1, <2>1, <2>4, <2>5
<1>4. CASE ReadPseudo
  <2>1. UNCHANGED <<file, pc, rows, tag, bound>> /\ pc = "pseudo"
    BY <1>4 DEF ReadPseudo
  <2> QED BY <1>1, <2>1
<1>5. CASE Open
  <2>1. at' = start[1] /\ off' = start[2] /\ UNCHANGED <<file, rows, tag, bound>> /\ pc = "pseudo" /\ pc' = "read"
    BY <1>5 DEF Open
  <2>2. PICK s : s = Passed(start[1], start[2])
    OBVIOUS
  <2>3. s \in Nat /\ s <= Passed(at, off) /\ s <= Len(file)
    BY <1>0, <2>2 DEF TInv, Reader, Position, Passed
  <2>4. \A k \in 1..s : file[k].kind \in {"blank", "pseudo"}
    <3>1. \A k \in 1..s : k \in 1..Passed(at, off)
      BY <1>0, <2>3
    <3> QED BY <2>1, <3>1 DEF TInv, Header
  <2>5. TagsUpTo(s) = <<>>
    BY <1>0, <2>3, <2>4, NoTags
  <2>6. Imported = <<>>
    BY <2>1 DEF TInv, Header, Imported
  <2>7. Passed(at, off)' = s
    BY <2>1, <2>2 DEF Passed
  <2> QED BY <1>1, <2>1, <2>5, <2>6, <2>7
<1>6. CASE tagsNext
  <2>1. /\ Advance /\ ~Eof /\ ~Overflows /\ LineRead /\ pc = "read"
        /\ UNCHANGED <<file, tag, bound>>
    BY <1>6 DEF tagsNext, LineRead
  <2>2. Passed(at', off') = at /\ at \in 1..Len(file) /\ Passed(at, off) = IF off = 0 THEN at - 1 ELSE at
    BY <2>1, AdvanceIs DEF TInv
  <2>3. Line = file[at] /\ off = 0 /\ file[at].kind \in {"pseudo", "tag", "bad"}
    BY <2>1, LineIs DEF TInv
  <2>4. pc' = (IF file[at].kind = "bad" THEN "done" ELSE "fields") /\ rows' = rows
    BY <1>6, <2>3 DEF tagsNext
  <2>5. Imported = TagsUpTo(at - 1)
    BY <2>1, <2>2, <2>3 DEF TInv, Stored
  <2>6. Passed(at, off)' = at
    BY <2>2 DEF Passed
  <2>7. file[at].kind = "bad" => Good = at - 1 /\ Good \in 0..Len(file)
    <3> SUFFICES ASSUME file[at].kind = "bad" PROVE Good = at - 1 /\ Good \in 0..Len(file)
      OBVIOUS
    <3>1. PICK n \in 0..Len(file) : n = at - 1 /\ n + 1 = at
      BY <1>0, <2>2
    <3>2. \A k \in 1..n : file[k].kind # "bad"
      BY <2>1, <2>2, <2>3, <3>1 DEF TInv, Header
    <3>3. n < Len(file) => file[n + 1].kind = "bad"
      BY <3>1
    <3>4. Good = n
      BY <1>0, <3>2, <3>3, GoodIs
    <3> QED BY <3>1, <3>4
  <2>8. CASE file[at].kind = "bad"
    BY <1>1, <2>1, <2>4, <2>5, <2>7, <2>8
  <2>9. CASE file[at].kind # "bad"
    BY <1>1, <2>1, <2>4, <2>5, <2>6, <2>9
  <2> QED BY <2>8, <2>9
<1>7. CASE EndOfFile
  <2>1. pc = "read" /\ Eof /\ pc' = "done" /\ UNCHANGED <<file, rows, tag, bound>>
    BY <1>7 DEF EndOfFile
  <2>2. Passed(at, off) = Len(file)
    BY <1>0, <2>1 DEF Eof, TInv, Reader, Position, Passed
  <2>3. Good = Len(file)
    <3>0. Len(file) \in 0..Len(file)
      BY <1>0
    <3>1. PICK n \in 0..Len(file) : n = Len(file)
      BY <3>0, Zenon
    <3>2. \A k \in 1..n : file[k].kind # "bad"
      BY <2>1, <2>2, <3>1 DEF TInv, Header
    <3>3. n < Len(file) => file[n + 1].kind = "bad"
      BY <1>0, <3>1
    <3>4. Good = n
      BY <1>0, <3>2, <3>3, GoodIs
    <3> QED BY <3>1, <3>4
  <2>4. Imported = TagsUpTo(Good)
    BY <2>1, <2>2, <2>3 DEF TInv, Stored
  <2>5. Good \in 0..Len(file)
    BY <1>0, <2>3
  <2> QED BY <1>1, <2>1, <2>4, <2>5
<1>8. CASE ParseField
  <2>1. pc = "fields" /\ UNCHANGED <<file, pc, at, off, rows, tag, bound>>
    BY <1>8 DEF ParseField, reader
  <2> QED BY <1>1, <2>1 DEF TInv, Stored, Passed
<1> DEFINE p == Passed(at, off)
<1>9. ASSUME pc \in {"fields", "save"}
      PROVE  /\ p \in 1..Len(file) /\ IsTag(p) /\ line = file[p]
             /\ TagOf(line) \in Said /\ p - 1 \in Nat
             /\ TagsUpTo(p) = IF Wanted(TagOf(line)) THEN Append(TagsUpTo(p - 1), TagOf(line))
                                                     ELSE TagsUpTo(p - 1)
             /\ Imported = TagsUpTo(p - 1)
  <2>1. p \in 1..Len(file) /\ IsTag(p) /\ line = file[p]
    BY <1>0, <1>9 DEF TInv, Parsed
  <2>2. TagOf(line) \in Said
    BY <1>0, <2>1 DEF Said
  <2>3. PICK n \in Nat : n + 1 = p /\ p - 1 = n /\ n < Len(file)
    BY <1>0, <2>1
  <2>4. TagsUpTo(n + 1) = AddTag(TagsUpTo(n), n + 1)
    BY <1>0, <2>3, TagsUpToIs
  <2>5. TagsUpTo(p) = IF Wanted(TagOf(line)) THEN Append(TagsUpTo(p - 1), TagOf(line))
                                             ELSE TagsUpTo(p - 1)
    BY <2>1, <2>3, <2>4 DEF AddTag
  <2>6. Imported = TagsUpTo(p - 1)
    BY <1>9 DEF TInv, Stored
  <2> QED BY <2>1, <2>2, <2>3, <2>5, <2>6
<1>10. CASE Assign
  <2>1. /\ pc = "fields" /\ pc' = "save" /\ UNCHANGED <<file, at, off, line, bound, rows>>
        /\ Len(list) = Len(line.fields) /\ tag' = AssignFrom(EmptyTag)
    BY <1>10 DEF Assign, reader
  <2>2. line.fields \in Seq(ToSet(line.fields))
    BY <1>0, <1>9, <2>1, FileIs
  <2>3. list = line.fields
    <3> DEFINE s == line.fields
               l == list
    <3>1. l \in Seq(ToSet(s)) /\ Len(l) = Len(s) /\ \A n \in 1..Len(l) : l[n] = s[n]
      BY <2>1 DEF TInv, Parsed
    <3> HIDE DEF s, l
    <3>2. l = s
      BY <2>2, <3>1 DEF s
    <3> QED BY <3>2 DEF s, l
  <2>4. tag' = TagOf(line)
    BY <2>1, <2>2, <2>3, AssignedIs
  <2>5. tag' = TagOf(line)'
    BY <2>1, <2>4 DEF TagOf
  <2>6. DOMAIN tag' = DOMAIN EmptyTag
    BY <1>0, <1>9, <2>1, <2>4, SaidIs
  <2>7. Imported' = Imported
    BY <2>1 DEF Imported, SetFromDB, EmptyTag
  <2>8. rows' \in Seq({Bind(t) : t \in Said'})
    <3>1. Said' = Said
      BY <2>1, Steady
    <3> QED BY <2>1, <3>1 DEF TInv, Stored
  <2>9. Imported' = TagsUpTo(Passed(at, off) - 1)'
    <3>1. PICK q : q = p
      OBVIOUS
    <3>2. TagsUpTo(Passed(at, off) - 1)' = TagsUpTo(q - 1)'
      BY <2>1, <3>1 DEF Passed
    <3>3. TagsUpTo(q - 1)' = TagsUpTo(q - 1)
      BY <2>1, Steady
    <3> QED BY <1>9, <2>1, <2>7, <3>1, <3>2, <3>3
  <2>10. DOMAIN bound' = DOMAIN EmptyTag
    BY <2>1 DEF TInv, Stored
  <2> QED BY <2>1, <2>5, <2>6, <2>8, <2>9, <2>10 DEF Stored, EmptyTag
<1>11. CASE Skip
  <2>1. pc = "save" /\ pc' = "read" /\ ~Wanted(tag) /\ UNCHANGED <<file, at, off, rows, tag, bound>>
    BY <1>11 DEF Skip, reader
  <2>2. tag = TagOf(line)
    BY <2>1 DEF TInv, Stored
  <2>3. Imported = TagsUpTo(p)
    BY <1>9, <2>1, <2>2
  <2>4. Passed(at, off)' = p
    BY <2>1 DEF Passed
  <2> QED BY <1>1, <2>1, <2>3, <2>4
<1>12. CASE SaveToDB
  <2>1. /\ pc = "save" /\ pc' = "read" /\ Wanted(tag) /\ UNCHANGED <<file, at, off, tag>>
        /\ bound' = Bind(tag) /\ rows' = Append(rows, Bind(tag))
    BY <1>12 DEF SaveToDB, reader
  <2>2. tag = TagOf(line) /\ tag \in Said /\ rows \in Seq({Bind(t) : t \in Said})
    BY <1>9, <2>1 DEF TInv, Stored
  <2>3. /\ rows' \in Seq({Bind(t) : t \in Said})
        /\ Imported' = Append(Imported, tag)
    <3>1. PICK t : t = tag
      OBVIOUS
    <3>2. t \in Said /\ rows' = Append(rows, Bind(t))
      BY <2>1, <2>2, <3>1
    <3> QED BY <1>0, <2>1, <2>2, <3>1, <3>2, OneRowMore
  <2>4. Imported' = TagsUpTo(p)
    BY <1>9, <2>1, <2>2, <2>3
  <2>5. DOMAIN tag' = DOMAIN EmptyTag /\ DOMAIN bound' = DOMAIN EmptyTag
    BY <1>0, <2>1, <2>2, SaidIs, BoundIs
  <2>6. Imported' = TagsUpTo(Passed(at, off))'
    <3>1. PICK q : q = p
      OBVIOUS
    <3>2. TagsUpTo(Passed(at, off))' = TagsUpTo(q)'
      BY <2>1, <3>1 DEF Passed
    <3>3. TagsUpTo(q)' = TagsUpTo(q)
      BY <2>1, Steady
    <3> QED BY <2>4, <3>1, <3>2, <3>3
  <2>7. Said' = Said
    BY <2>1, Steady
  <2> QED BY <2>1, <2>3, <2>5, <2>6, <2>7 DEF Stored, EmptyTag
<1>14. ASSUME UNCHANGED <<file, rows, tag, bound>>, pc' = "failed" PROVE Stored'
  <2>1. PICK n \in 0..Len(file) : Imported = TagsUpTo(n)
    BY RowsSoFar
  <2>2. Imported' = Imported /\ Said' = Said
    BY <1>14, Steady DEF Imported, SetFromDB, EmptyTag
  <2>3. TagsUpTo(n)' = TagsUpTo(n)
    BY <1>14, Steady
  <2>4. \E k \in 0..Len(file)' : Imported' = TagsUpTo(k)'
    <3>1. n \in 0..Len(file)'
      BY <1>14
    <3>2. Imported' = TagsUpTo(n)'
      BY <2>1, <2>2, <2>3
    <3> QED BY <3>1, <3>2
  <2>5. (\E k \in 0..Len(file) : Imported = TagsUpTo(k))'
    BY <2>4
  <2>6. rows' \in Seq({Bind(t) : t \in Said'})
    BY <1>14, <2>2 DEF TInv, Stored
  <2>7. DOMAIN tag' = DOMAIN EmptyTag /\ DOMAIN bound' = DOMAIN EmptyTag
    BY <1>14 DEF TInv, Stored, EmptyTag
  <2> QED BY <1>14, <2>5, <2>6, <2>7 DEF Stored
<1>15. CASE Fails
  BY <1>14, <1>15 DEF Fails
<1>13. CASE UNCHANGED vars
  <2>1. UNCHANGED <<file, pc, at, off, line, rows, tag, bound>>
    BY <1>13 DEF vars, reader
  <2>2. CASE pc \notin {"save", "failed"}
    BY <1>1, <2>1, <2>2 DEF TInv, Stored, Passed
  <2>4. CASE pc = "failed"
    BY <1>14, <2>1, <2>4
  <2>3. CASE pc = "save"
    <3>1. Imported' = Imported /\ Said' = Said
      BY <2>1, Steady DEF Imported, SetFromDB, EmptyTag
    <3>2. Imported' = TagsUpTo(Passed(at, off) - 1)'
      <4>1. PICK q : q = p
        OBVIOUS
      <4>2. TagsUpTo(Passed(at, off) - 1)' = TagsUpTo(q - 1)'
        BY <2>1, <4>1 DEF Passed
      <4>3. TagsUpTo(q - 1)' = TagsUpTo(q - 1)
        BY <2>1, Steady
      <4> QED BY <1>9, <2>3, <3>1, <4>1, <4>2, <4>3
    <3>3. tag' = TagOf(line)'
      BY <2>1, <2>3 DEF TInv, Stored, TagOf
    <3> QED BY <2>1, <2>3, <3>1, <3>2, <3>3 DEF TInv, Stored, EmptyTag
  <2> QED BY <2>2, <2>3, <2>4
<1> QED
  BY <1>2, <1>3, <1>4, <1>5, <1>6, <1>7, <1>8, <1>10, <1>11, <1>12, <1>13, <1>15 DEF Next, Step

\* The invariant holds when a file is opened ...
LEMMA InitTInv == ASSUME Init PROVE TInv
<1>1. file \in Files /\ pc = "pseudo" /\ at = 1 /\ off = 0 /\ start = <<1, 0>>
  BY DEF Init
<1>2. Len(file) \in Nat
  BY <1>1, FileIs
<1>3. Position(1, 0)
  <2>1. 1 <= Len(file) => file[1].len + file[1].end > 0 /\ file[1].len \in Nat /\ file[1].end \in Nat
    BY <1>1, <1>2, FileIs
  <2> QED BY <1>2, <2>1 DEF Position
<1>4. start[1] = 1 /\ start[2] = 0 /\ Passed(1, 0) = 0
  BY <1>1 DEF Passed
<1>5. Reader
  BY <1>1, <1>3, <1>4, TagsFileAssumption DEF Reader, Init
<1>6. Header /\ Parsed
  BY <1>1, <1>4 DEF Init, Header, Parsed
<1>7. Fits
  BY <1>1, TagsFileAssumption DEF Init, Fits
<1>8. Stored
  BY <1>1 DEF Init, Stored
<1> QED BY <1>5, <1>6, <1>7, <1>8 DEF TInv

\* ... and every step keeps it.
LEMMA NextTInv == ASSUME TInv, [Next]_vars PROVE TInv'
<1>1. Reader'
  BY ReaderStep DEF TInv
<1>2. Header'
  BY HeaderStep DEF TInv
<1>3. Parsed'
  BY ParsedStep DEF TInv
<1>4. Fits'
  BY FitsStep DEF TInv
<1>5. Stored'
  BY StoredStep
<1> QED BY <1>1, <1>2, <1>3, <1>4, <1>5 DEF TInv

\* The invariant holds for every set of tags files, every size of the buffer
\* and of the list of fields.
THEOREM Invariance == Spec => []TInv
BY InitTInv, NextTInv, PTL DEF Spec

\* Type correctness: the reader stays in the file and stands inside of no
\* line, and Tag and statement have all their columns.
THEOREM TypeCorrect == Spec => []TypeOK
<1>1. ASSUME TInv PROVE TypeOK
  <2>1. at \in 1..(Len(file) + 1) /\ start[1] \in 1..at
    BY <1>1, FileIs DEF TInv, Reader, Position
  <2>2. at <= Len(file) => /\ off = 0 \/ off >= file[at].len
                           /\ off < file[at].len + file[at].end
    BY <1>1 DEF TInv, Reader, Position
  <2>3. size \in Nat /\ max \in Nat
    BY <1>1 DEF TInv, Reader, Fits
  <2>4. /\ pc \in {"pseudo", "read", "fields", "save", "done", "failed"}
        /\ DOMAIN tag = DOMAIN EmptyTag /\ DOMAIN bound = DOMAIN EmptyTag
    BY <1>1 DEF TInv, Stored
  <2> QED BY <2>1, <2>2, <2>3, <2>4 DEF TypeOK
<1> QED BY <1>1, Invariance, PTL

\* No field is written behind the end of the list of fields, whatever the
\* lines before have made of it (parseExtensionFields, growFields).
THEOREM NoFieldIsLost == Spec => []FieldsFit
<1>1. ASSUME TInv PROVE FieldsFit
  BY <1>1 DEF TInv, Fits, FieldsFit
<1> QED BY <1>1, Invariance, PTL

\* Every wanted line, up to a bad one or to a failure, becomes one row that
\* says what the line says, wherever it ends in the buffer and whatever the
\* lines before it were (readTagLineRaw,
\* readPseudoTags, Tag::operator=, Tag::SaveToDB).
THEOREM LinesBecomeRows == Spec => []RowsAreLines
<1>1. ASSUME TInv PROVE RowsAreLines
  <2>0. file \in Files /\ Len(file) \in Nat /\ Passed(at, off) \in 0..Len(file)
    BY <1>1, FileIs DEF TInv, Reader, Position, Passed
  <2>1. \E n \in 0..Len(file) : Imported = TagsUpTo(n)
    BY <1>1, RowsSoFar
  <2>2. IsPrefix(Imported, TagsUpTo(Len(file)))
    <3>1. PICK n \in 0..Len(file) : Imported = TagsUpTo(n)
      BY <2>1
    <3>2. PICK m \in Nat : m = Len(file)
      BY <2>0
    <3>3. IsPrefix(TagsUpTo(n), TagsUpTo(m))
      BY <2>0, <3>1, <3>2, TagsUpToGrows
    <3> QED BY <3>1, <3>2, <3>3
  <2>3. pc = "done" => Imported = TagsUpTo(Good)
    BY <1>1 DEF TInv, Stored
  <2> QED BY <2>2, <2>3 DEF RowsAreLines, Imported
<1> QED BY <1>1, Invariance, PTL

\* Jump to Tag finds the line of a tag by its pattern unless a backslash or a
\* dollar sign at its end is in the way, for lines of any text and length
\* (Tag::TrimPattern).
THEOREM PatternsAreFound == Spec => []PatternFindsLine
<1>1. ASSUME TInv, pc = "save", ByPattern(line)
      PROVE  IF line.cut
               THEN "\\" \notin ToSet(tag.pattern) => Found(tag.pattern, line.text)
               ELSE Found(tag.pattern, line.text)
                      <=> "\\" \notin ToSet(line.text) /\ Last(line.text) # "$"
  <2>1. PICK n \in DOMAIN file : line = file[n]
    <3>1. file \in Files /\ Position(at, off) /\ line = file[Passed(at, off)]
          /\ Passed(at, off) >= 1
      BY <1>1 DEF TInv, Reader, Parsed
    <3>2. Passed(at, off) \in DOMAIN file
      BY <3>1, FileIs DEF Position, Passed
    <3> QED BY <3>1, <3>2
  <2>2. PICK l : l = line
    OBVIOUS
  <2>3. /\ l.text \in Seq(ToSet(l.text)) /\ l.text # <<>>
        /\ l.cut \in BOOLEAN
        /\ l.cut => \E k \in DOMAIN l.text : l.pattern = CutPattern(l.text, k)
        /\ ~l.cut => l.pattern = Pattern(l.text)
    BY <1>1, <2>1, <2>2, PatternAssumption DEF TInv, Reader
  <2>4. PICK text, p : text = l.text /\ p = l.pattern
    OBVIOUS
  <2>5. PICK T : T = ToSet(text) \cup {"/", "^", "$", Backslash}
    OBVIOUS
  <2>6. text \in Seq(T) /\ {"/", "^", "$", Backslash} \subseteq T /\ text # <<>>
    BY <2>3, <2>4, <2>5
  <2>7. tag.pattern = TrimPattern(p)
    <3>1. tag = TagOf(line) /\ line.number = 0
      BY <1>1 DEF TInv, Stored, ByPattern
    <3>2. TagOf(line).pattern = IF line.number = 0 THEN TrimPattern(line.pattern) ELSE <<>>
      BY DEF TagOf
    <3> QED BY <2>2, <2>4, <3>1, <3>2
  <2>8. CASE l.cut
    <3>1. PICK k \in DOMAIN text : p = CutPattern(text, k)
      BY <2>3, <2>4, <2>8
    <3>2. k \in 1..Len(text)
      BY <2>6, <3>1
    <3>3. Backslash \notin ToSet(TrimPattern(CutPattern(text, k))) =>
            Found(TrimPattern(CutPattern(text, k)), text)
      BY <2>6, <3>2, CutFound
    <3>4. Backslash \notin ToSet(tag.pattern) => Found(tag.pattern, text)
      BY <2>7, <3>1, <3>3
    <3> QED BY <2>2, <2>4, <2>8, <3>4, Zenon DEF Backslash
  <2>9. CASE ~l.cut
    <3>1. Found(TrimPattern(Pattern(text)), text)
            <=> Backslash \notin ToSet(text) /\ Last(text) # "$"
      BY <2>6, WholePattern
    <3>2. Found(tag.pattern, text) <=> Backslash \notin ToSet(text) /\ Last(text) # "$"
      BY <2>3, <2>4, <2>7, <2>9, <3>1
    <3> QED BY <2>2, <2>4, <2>9, <3>2, Zenon DEF Backslash
  <2> QED BY <2>8, <2>9
<1>2. TInv => PatternFindsLine
  BY <1>1 DEF PatternFindsLine
<1> QED BY <1>2, Invariance, PTL

=============================================================================
