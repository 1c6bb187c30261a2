-------------------------------- MODULE Lists --------------------------------
(***************************************************************************)
(* What becomes of a list when a test is made of each of its elements, by  *)
(* a recursive function: what SelectSeq gives, for sets of places.         *)
(*                                                                         *)
(* The lemmas say what the elements are that are kept, for any list.  They *)
(* rest on an induction over the natural numbers, of sets and not of       *)
(* formulas.                                                               *)
(***************************************************************************)
EXTENDS Integers, Sequences, SequenceTheorems, WellFoundedInduction, TLAPS

\* The elements of a list at some places, in the order of the list.
Kept(list, places) ==
  LET kept[n \in 0..Len(list)] ==
        IF n = 0 THEN <<>>
        ELSE IF n \in places THEN Append(kept[n - 1], list[n]) ELSE kept[n - 1]
  IN kept[Len(list)]

\* The least of some places.
Least(places) == CHOOSE i \in places : \A j \in places : i <= j

-----------------------------------------------------------------------------
\* A set that holds zero, and with a number the next, holds every number.
LEMMA Induction ==
  ASSUME NEW S, 0 \in S, \A n \in Nat : n \in S => n + 1 \in S
  PROVE  Nat \subseteq S
<1> DEFINE R == OpToRel(<,Nat)
           T == {n \in Nat : n \notin S}
<1>1. \A x, y \in Nat : x < y => <<x, y>> \in R
  BY DEF OpToRel
<1>2. IsWellFoundedOn(R, Nat)
  BY NatLessThanWellFounded
<1> HIDE DEF R
<1> SUFFICES ASSUME T # {} PROVE FALSE
  OBVIOUS
<1>3. T \subseteq Nat
  OBVIOUS
<1>4. \E x \in T : \A y \in T : ~ (<<y, x>> \in R)
  <2> HIDE DEF T
  <2> QED
    BY <1>2, <1>3, WFMin
<1>5. PICK x \in T : \A y \in T : ~ (<<y, x>> \in R)
  BY <1>4
<1>6. x \in Nat /\ x # 0
  OBVIOUS
<1>7. x - 1 \in Nat /\ x - 1 < x
  BY <1>6
<1>8. x - 1 \in S
  BY <1>1, <1>5, <1>6, <1>7
<1> QED
  BY <1>6, <1>7, <1>8


\* g tells what is kept of the first places of a list.
Keeps(list, places, m, g) ==
  g = [n \in 0..m |-> IF n = 0 THEN <<>> ELSE IF n \in places THEN Append(g[n - 1], list[n]) ELSE g[n - 1]]

\* What is kept of one place more.
LEMMA KeepsNext ==
  ASSUME NEW list, NEW places, NEW m \in Nat, NEW g, Keeps(list, places, m, g)
  PROVE  \E z : Keeps(list, places, m + 1, z)
<1> DEFINE z == [n \in 0..m+1 |-> IF n = m + 1 THEN IF n \in places THEN Append(g[m], list[n]) ELSE g[m] ELSE g[n]]
<1>1. \A n \in 0..m : z[n] = g[n]
  OBVIOUS
<1>2. \A n \in 0..m : g[n] = IF n = 0 THEN <<>> ELSE IF n \in places THEN Append(g[n - 1], list[n]) ELSE g[n - 1]
  BY DEF Keeps
<1>3. z[m+1] = IF m+1 \in places THEN Append(z[m], list[m+1]) ELSE z[m]
  BY <1>1
<1>4. DOMAIN z = 0..m+1 /\ z = [n \in 0..m+1 |-> z[n]]
  OBVIOUS
<1> HIDE DEF z
<1>5. ASSUME NEW n \in 0..m, n # 0
      PROVE  z[n] = IF n \in places THEN Append(z[n - 1], list[n]) ELSE z[n - 1]
  <2>1. n \in Int /\ n - 1 \in 0..m
    BY <1>5
  <2> QED
    BY <1>1, <1>2, <1>5, <2>1
<1>6. z[0] = <<>>
  BY <1>1, <1>2
<1>7. \A n \in 0..m+1 : n = m + 1 \/ n \in 0..m
  OBVIOUS
<1>8. m + 1 # 0 /\ (m + 1) - 1 = m
  OBVIOUS
<1>9. \A n \in 0..m+1 : z[n] = IF n = 0 THEN <<>> ELSE IF n \in places THEN Append(z[n - 1], list[n]) ELSE z[n - 1]
  BY <1>3, <1>5, <1>6, <1>7, <1>8
<1>10. Keeps(list, places, m + 1, z)
  BY <1>4, <1>9 DEF Keeps
<1> QED
  BY <1>10

\* What is kept of a list is kept place by place.
LEMMA KeptDef ==
  ASSUME NEW list, NEW places, Len(list) \in Nat
  PROVE  \E kept : /\ Kept(list, places) = kept[Len(list)] /\ kept[0] = <<>>
                   /\ \A n \in 1..Len(list) :
                        kept[n] = IF n \in places THEN Append(kept[n - 1], list[n]) ELSE kept[n - 1]
<1> DEFINE S == {m \in Nat : \E g : Keeps(list, places, m, g)}
           h == CHOOSE g : Keeps(list, places, Len(list), g)
<1>1. 0 \in S
  <2>1. Keeps(list, places, 0, [n \in 0..0 |-> <<>>])
    BY DEF Keeps
  <2> QED
    BY <2>1
<1>2. \A m \in Nat : m \in S => m + 1 \in S
  BY KeepsNext
<1>3. Len(list) \in S
  <2> HIDE DEF S
  <2> QED
    BY <1>1, <1>2, Induction
<1>4. Keeps(list, places, Len(list), h)
  BY <1>3
<1>5. Kept(list, places) = h[Len(list)]
  BY DEF Kept, Keeps
<1> HIDE DEF h
<1>6. h[0] = <<>>
  BY <1>4 DEF Keeps
<1>7. ASSUME NEW n \in 1..Len(list) PROVE h[n] = IF n \in places THEN Append(h[n - 1], list[n]) ELSE h[n - 1]
  <2>1. n \in 0..Len(list) /\ n # 0
    OBVIOUS
  <2> QED
    BY <1>4, <2>1 DEF Keeps
<1> QED
  BY <1>5, <1>6, <1>7

\* at numbers the places among the first m of a list that are kept.
Ranks(list, places, m, at, len, kept) ==
  /\ at \in [1..len -> places \cap (1..m)]
  /\ kept = [k \in 1..len |-> list[at[k]]]
  /\ \A k, l \in 1..len : k < l => at[k] < at[l]
  /\ \A n \in places \cap (1..m) : \E k \in 1..len : at[k] = n

\* One place more is kept,
LEMMA RanksNext ==
  ASSUME NEW list, NEW places, NEW m \in Nat, NEW at, NEW len \in Nat, NEW kept,
         Ranks(list, places, m, at, len, kept), m + 1 \in places
  PROVE  \E to : Ranks(list, places, m + 1, to, len + 1, Append(kept, list[m + 1]))
<1> DEFINE to == [k \in 1..len + 1 |-> IF k = len + 1 THEN m + 1 ELSE at[k]]
<1>1. ASSUME NEW k \in 1..len PROVE k \in 1..len + 1 /\ to[k] = at[k] /\ at[k] \in places \cap (1..m) /\ at[k] < m + 1
  <2>1. k \in 1..len + 1 /\ k # len + 1
    OBVIOUS
  <2>2. at[k] \in places \cap (1..m)
    BY DEF Ranks
  <2> QED
    BY <2>1, <2>2
<1>2. to[len + 1] = m + 1 /\ len + 1 \in 1..len + 1 /\ m + 1 \in 1..m + 1
  OBVIOUS
<1>3. \A k \in 1..len + 1 : k = len + 1 \/ k \in 1..len
  OBVIOUS
<1>4. DOMAIN to = 1..len + 1 /\ to = [k \in 1..len + 1 |-> to[k]]
  OBVIOUS
<1> HIDE DEF to
<1>5. to \in [1..len + 1 -> places \cap (1..m + 1)]
  <2>1. \A k \in 1..len + 1 : to[k] \in places \cap (1..m + 1)
    BY <1>1, <1>2, <1>3
  <2> QED
    BY <1>4, <2>1
<1>6. Append(kept, list[m + 1]) = [k \in 1..len + 1 |-> list[to[k]]]
  <2>1. kept = [k \in 1..len |-> list[at[k]]]
    BY DEF Ranks
  <2>2. Append(kept, list[m + 1]) = [k \in 1..len + 1 |-> IF k = len + 1 THEN list[m + 1] ELSE list[at[k]]]
    BY <2>1
  <2>3. \A k \in 1..len + 1 : (IF k = len + 1 THEN list[m + 1] ELSE list[at[k]]) = list[to[k]]
    BY <1>1, <1>2, <1>3
  <2> QED
    BY <2>2, <2>3
<1>7. \A k, l \in 1..len + 1 : k < l => to[k] < to[l]
  <2> SUFFICES ASSUME NEW k \in 1..len + 1, NEW l \in 1..len + 1, k < l PROVE to[k] < to[l]
    OBVIOUS
  <2>1. k \in 1..len
    OBVIOUS
  <2>2. CASE l = len + 1
    BY <1>1, <1>2, <2>1, <2>2
  <2>3. CASE l \in 1..len
    BY <1>1, <2>1, <2>3 DEF Ranks
  <2> QED
    BY <1>3, <2>2, <2>3
<1>8. ASSUME NEW n \in places \cap (1..m + 1) PROVE \E k \in 1..len + 1 : to[k] = n
  <2>1. n = m + 1 \/ n \in places \cap (1..m)
    OBVIOUS
  <2>2. CASE n \in places \cap (1..m)
    <3>1. PICK k \in 1..len : at[k] = n
      BY <2>2 DEF Ranks
    <3> QED
      BY <1>1, <3>1
  <2> QED
    BY <1>2, <2>1, <2>2
<1>9. Ranks(list, places, m + 1, to, len + 1, Append(kept, list[m + 1]))
  BY <1>5, <1>6, <1>7, <1>8 DEF Ranks
<1> QED
  BY <1>9

\* or is not.
LEMMA RanksSame ==
  ASSUME NEW list, NEW places, NEW m \in Nat, NEW at, NEW len \in Nat, NEW kept,
         Ranks(list, places, m, at, len, kept), m + 1 \notin places
  PROVE  Ranks(list, places, m + 1, at, len, kept)
<1>1. places \cap (1..m + 1) = places \cap (1..m)
  OBVIOUS
<1> QED
  BY <1>1 DEF Ranks

\* The elements that are kept are those at the places, in their order.
LEMMA KeptRanks ==
  ASSUME NEW list, NEW places, Len(list) \in Nat
  PROVE  \E at : /\ Ranks(list, places, Len(list), at, Len(Kept(list, places)), Kept(list, places))
                 /\ Len(Kept(list, places)) \in Nat
<1>1. PICK kept : /\ Kept(list, places) = kept[Len(list)] /\ kept[0] = <<>>
                  /\ \A n \in 1..Len(list) :
                       kept[n] = IF n \in places THEN Append(kept[n - 1], list[n]) ELSE kept[n - 1]
  BY KeptDef
<1> DEFINE S == {m \in Nat : m <= Len(list) => \E len \in Nat : \E at : Ranks(list, places, m, at, len, kept[m])}
<1>2. 0 \in S
  <2>1. Ranks(list, places, 0, [k \in 1..0 |-> 0], 0, kept[0])
    BY <1>1 DEF Ranks
  <2> QED
    BY <2>1
<1>3. ASSUME NEW m \in Nat, m \in S PROVE m + 1 \in S
  <2> SUFFICES ASSUME m + 1 <= Len(list)
               PROVE  \E len \in Nat : \E at : Ranks(list, places, m + 1, at, len, kept[m + 1])
    OBVIOUS
  <2>1. PICK len \in Nat : \E at : Ranks(list, places, m, at, len, kept[m])
    BY <1>3
  <2>2. PICK at : Ranks(list, places, m, at, len, kept[m])
    BY <2>1
  <2>3. m + 1 \in 1..Len(list) /\ (m + 1) - 1 = m
    OBVIOUS
  <2>4. kept[m + 1] = IF m + 1 \in places THEN Append(kept[m], list[m + 1]) ELSE kept[m]
    BY <1>1, <2>3
  <2>5. CASE m + 1 \in places
    <3>1. \E to : Ranks(list, places, m + 1, to, len + 1, kept[m + 1])
      BY <2>2, <2>4, <2>5, RanksNext
    <3>2. len + 1 \in Nat
      OBVIOUS
    <3> QED
      BY <3>1, <3>2
  <2>6. CASE m + 1 \notin places
    BY <2>2, <2>4, <2>6, RanksSame
  <2> QED
    BY <2>5, <2>6
<1>4. Len(list) \in S
  <2> HIDE DEF S
  <2> QED
    BY <1>2, <1>3, Induction
<1>5. PICK len \in Nat : \E at : Ranks(list, places, Len(list), at, len, kept[Len(list)])
  BY <1>4
<1>6. PICK at : Ranks(list, places, Len(list), at, len, Kept(list, places))
  BY <1>1, <1>5
<1>7. Len(Kept(list, places)) = len
  BY <1>6 DEF Ranks
<1> QED
  BY <1>6, <1>7

\* Places that are numbered in their order are not before their numbers.
LEMMA RankedAfter ==
  ASSUME NEW len \in Nat, NEW at, \A k \in 1..len : at[k] \in Nat \ {0}, \A k, l \in 1..len : k < l => at[k] < at[l]
  PROVE  \A k \in 1..len : at[k] >= k
<1> DEFINE S == {m \in Nat : m \in 1..len => at[m] >= m}
<1>1. 0 \in S
  OBVIOUS
<1>2. ASSUME NEW m \in Nat, m \in S PROVE m + 1 \in S
  <2> SUFFICES ASSUME m + 1 \in 1..len PROVE at[m + 1] >= m + 1
    OBVIOUS
  <2>1. CASE m = 0
    BY <2>1
  <2>2. CASE m # 0
    <3>1. m \in 1..len /\ m < m + 1
      BY <2>2
    <3>2. at[m] >= m /\ at[m] < at[m + 1] /\ at[m] \in Nat /\ at[m + 1] \in Nat
      BY <1>2, <3>1
    <3> QED
      BY <3>2
  <2> QED
    BY <2>1, <2>2
<1>3. Nat \subseteq S
  <2> HIDE DEF S
  <2> QED
    BY <1>1, <1>2, Induction
<1> QED
  BY <1>3

\* What is kept of a list is a list, and its elements come no earlier in that one.
LEMMA KeptIsSeq ==
  ASSUME NEW T, NEW list \in Seq(T), NEW places
  PROVE  /\ Kept(list, places) \in Seq(T)
         /\ \A k \in DOMAIN Kept(list, places) :
              \E n \in DOMAIN list : n >= k /\ n \in places /\ Kept(list, places)[k] = list[n]
<1> DEFINE len == Len(Kept(list, places))
           kept == Kept(list, places)
<1>1. Len(list) \in Nat /\ DOMAIN list = 1..Len(list)
  OBVIOUS
<1>2. PICK at : Ranks(list, places, Len(list), at, len, kept) /\ len \in Nat
  BY <1>1, KeptRanks
<1> HIDE DEF len, kept
<1>3. kept = [k \in 1..len |-> list[at[k]]]
  BY <1>2 DEF Ranks
<1>4. ASSUME NEW k \in 1..len PROVE at[k] \in places /\ at[k] \in 1..Len(list)
  BY <1>2 DEF Ranks
<1>5. \A k \in 1..len : at[k] >= k
  <2>1. \A k \in 1..len : at[k] \in Nat \ {0}
    BY <1>1, <1>4
  <2>2. \A k, l \in 1..len : k < l => at[k] < at[l]
    BY <1>2 DEF Ranks
  <2> QED
    BY <1>2, <2>1, <2>2, RankedAfter
<1>6. \A k \in 1..len : kept[k] = list[at[k]] /\ kept[k] \in T
  BY <1>1, <1>3, <1>4
<1>7. kept \in Seq(T)
  BY <1>2, <1>3, <1>6
<1>8. DOMAIN kept = 1..len
  BY <1>3
<1> QED
  BY <1>1, <1>4, <1>5, <1>6, <1>7, <1>8 DEF kept

\* A list without one of its elements.
OneLess(list, i, c) ==
  /\ Len(c) = Len(list) - 1 /\ DOMAIN c = 1..Len(list) - 1
  /\ \A j \in DOMAIN c : j \in DOMAIN list /\ j + 1 \in DOMAIN list
  /\ \A j \in DOMAIN c : c[j] = IF j < i THEN list[j] ELSE list[j + 1]

\* The part of a list after a place.
LEMMA LaterPart ==
  ASSUME NEW T, NEW list \in Seq(T), NEW i \in DOMAIN list
  PROVE  LET b == SubSeq(list, i + 1, Len(list))
         IN b \in Seq(T) /\ Len(b) = Len(list) - i /\ \A j \in 1..Len(list) - i : b[j] = list[i + j]
<1>1. PICK m \in Int, n \in Nat : m = i + 1 /\ n = Len(list) /\ m \in 1..n + 1
  OBVIOUS
<1>2. \A k \in m..n : list[k] \in T
  BY <1>1
<1>3. /\ SubSeq(list, m, n) \in Seq(T) /\ Len(SubSeq(list, m, n)) = IF m <= n THEN n - m + 1 ELSE 0
      /\ \A k \in 1..n - m + 1 : SubSeq(list, m, n)[k] = list[m + k - 1]
  BY <1>2, SubSeqProperties
<1>4. \A k \in 1..n - m + 1 : m + k - 1 = i + k
  BY <1>1
<1>5. (IF m <= n THEN n - m + 1 ELSE 0) = n - i /\ n - m + 1 = n - i
  BY <1>1
<1> QED
  BY <1>1, <1>3, <1>4, <1>5, Zenon

\* What is left where one of the elements is removed.
LEMMA WithoutOne ==
  ASSUME NEW T, NEW list \in Seq(T), NEW i \in DOMAIN list, NEW c, c = SubSeq(list, 1, i - 1) \o SubSeq(list, i + 1, Len(list))
  PROVE  c \in Seq(T) /\ OneLess(list, i, c)
<1>1. Len(list) \in Nat /\ i \in 1..Len(list) /\ DOMAIN list = 1..Len(list)
  OBVIOUS
<1> DEFINE a == SubSeq(list, 1, i - 1)
           b == SubSeq(list, i + 1, Len(list))
<1>2. a \in Seq(T) /\ Len(a) = i - 1 /\ \A j \in 1..i - 1 : a[j] = list[j]
  BY <1>1
<1>3. b \in Seq(T) /\ Len(b) = Len(list) - i /\ \A j \in 1..Len(list) - i : b[j] = list[i + j]
  BY LaterPart, Zenon
<1> HIDE DEF a, b
<1>4. c = a \o b
  BY DEF a, b
<1>5. c \in Seq(T) /\ Len(c) = Len(a) + Len(b) /\ DOMAIN c = 1..Len(a) + Len(b)
  BY <1>2, <1>3, <1>4
<1>6. ASSUME NEW j \in 1..Len(list) - 1 PROVE c[j] = IF j < i THEN list[j] ELSE list[j + 1]
  <2>1. CASE j < i
    <3>1. j \in 1..Len(a)
      BY <1>1, <1>2, <2>1
    <3> QED
      BY <1>2, <1>3, <1>4, <2>1, <3>1
  <2>2. CASE ~(j < i)
    <3>1. j - Len(a) \in 1..Len(b) /\ i + (j - Len(a)) = j + 1 /\ j > Len(a) /\ j <= Len(a) + Len(b)
      BY <1>1, <1>2, <1>3, <2>2
    <3>2. c[j] = b[j - Len(a)]
      <4>1. j \in 1..Len(a) + Len(b) /\ ~(j <= Len(a))
        BY <1>1, <1>2, <1>3, <3>1
      <4>2. \A k \in 1..Len(a) + Len(b) : (a \o b)[k] = IF k <= Len(a) THEN a[k] ELSE b[k - Len(a)]
        BY <1>2, <1>3, ConcatProperties, Zenon
      <4> QED
        BY <1>4, <4>1, <4>2
    <3> QED
      BY <1>3, <2>2, <3>1, <3>2
  <2> QED
    BY <2>1, <2>2
<1>7. Len(a) + Len(b) = Len(list) - 1
  BY <1>1, <1>2, <1>3
<1>8. DOMAIN c = 1..Len(list) - 1 /\ \A j \in DOMAIN c : j \in DOMAIN list /\ j + 1 \in DOMAIN list
  BY <1>1, <1>5, <1>7
<1> QED
  BY <1>5, <1>6, <1>7, <1>8 DEF OneLess

\* Some places have a least.
LEMMA LeastIs ==
  ASSUME NEW places, places \subseteq Nat, places # {}
  PROVE  Least(places) \in places /\ \A j \in places : Least(places) <= j
<1> DEFINE R == OpToRel(<,Nat)
<1>1. \A x, y \in Nat : x < y => <<x, y>> \in R
  BY DEF OpToRel
<1>2. IsWellFoundedOn(R, Nat)
  BY NatLessThanWellFounded
<1> HIDE DEF R
<1>3. \E x \in places : \A y \in places : ~ (<<y, x>> \in R)
  BY <1>2, WFMin
<1>4. \E x \in places : \A y \in places : x <= y
  <2>1. PICK x \in places : \A y \in places : ~ (<<y, x>> \in R)
    BY <1>3
  <2>2. \A y \in places : ~ (y < x)
    BY <1>1, <2>1
  <2>3. \A y \in places : x <= y
    BY <2>2
  <2> QED
    BY <2>3
<1> QED
  BY <1>4 DEF Least

\* What is kept of a list that has no element twice.
LEMMA KeptDistinct ==
  ASSUME NEW T, NEW list \in Seq(T), NEW places, places \subseteq DOMAIN list,
         \A i, j \in DOMAIN list : list[i] = list[j] => i = j
  PROVE  /\ Kept(list, places) \in Seq(T)
         /\ \A k \in DOMAIN Kept(list, places) : \E i \in places : Kept(list, places)[k] = list[i]
         /\ \A i \in places : \E k \in DOMAIN Kept(list, places) : Kept(list, places)[k] = list[i]
         /\ \A k, l \in DOMAIN Kept(list, places) : Kept(list, places)[k] = Kept(list, places)[l] => k = l
<1> DEFINE new == Kept(list, places)
<1>1. Len(list) \in Nat /\ DOMAIN list = 1..Len(list)
  OBVIOUS
<1>2. PICK at : Ranks(list, places, Len(list), at, Len(new), new)
  BY <1>1, KeptRanks
<1>3. new \in Seq(T)
  BY KeptIsSeq
<1> HIDE DEF new
<1>4. Len(new) \in Nat /\ DOMAIN new = 1..Len(new)
  BY <1>3
<1>5. places \cap (1..Len(list)) = places
  BY <1>1
<1>6. /\ \A k \in 1..Len(new) : at[k] \in places /\ new[k] = list[at[k]]
      /\ \A k, l \in 1..Len(new) : k < l => at[k] < at[l]
      /\ \A n \in places : \E k \in 1..Len(new) : at[k] = n
  BY <1>2, <1>5 DEF Ranks
<1>7. ASSUME NEW k \in 1..Len(new), NEW l \in 1..Len(new), new[k] = new[l] PROVE k = l
  <2>1. at[k] = at[l]
    BY <1>6, <1>7
  <2>2. at[k] \in Nat /\ at[l] \in Nat
    BY <1>1, <1>6
  <2> QED
    BY <1>4, <1>6, <2>1, <2>2
<1> QED
  BY <1>3, <1>4, <1>6, <1>7 DEF new
=============================================================================
