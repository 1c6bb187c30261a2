------------------------ MODULE PrintersPanelProofs ------------------------
(***************************************************************************)
(* Proofs about the printers panel, next to other clients of the server:   *)
(* its buttons act on the printer that is shown, its list follows the      *)
(* server, the page of the model tells what was asked for, and what a      *)
(* rename leaves behind.                                                   *)
(***************************************************************************)
EXTENDS PrintersPanel, FiniteSetTheorems, SequenceTheorems, TLAPS

-----------------------------------------------------------------------------
(***************************************************************************)
(* Finite sets of numbers.                                                 *)
(***************************************************************************)

LEMMA LeastNumber ==
  ASSUME NEW T, T \subseteq Nat, T # {}
  PROVE  \E i \in T : \A j \in T : i <= j
<1>1. \E i \in T : \A j \in T : <<j, i>> \notin OpToRel(<, Nat)
  BY NatLessThanWellFounded, WFMin
<1>2. ASSUME NEW i \in T, NEW j \in T, <<j, i>> \notin OpToRel(<, Nat) PROVE i <= j
  <2>1. <<j, i>> \notin {ss \in Nat \X Nat : ss[1] < ss[2]}
    BY <1>2 DEF OpToRel
  <2> QED BY <2>1
<1> QED BY <1>1, <1>2

\* A bounded set of numbers has a greatest one: the least of the distances to the bound.
LEMMA GreatestNumber ==
  ASSUME NEW n \in Nat, NEW T, T \subseteq 0..n, T # {}
  PROVE  \E i \in T : \A j \in T : j <= i
<1> DEFINE D == {n - i : i \in T}
<1>1. D \subseteq Nat /\ D # {}
  <2>1. \A i \in T : i \in 0..n /\ n - i \in Nat
    OBVIOUS
  <2>2. D \subseteq Nat
    BY <2>1
  <2>3. D # {}
    <3>1. PICK i \in T : TRUE
      OBVIOUS
    <3>2. n - i \in D
      OBVIOUS
    <3> QED
      BY <3>2
  <2> QED
    BY <2>2, <2>3
<1>2. PICK d \in D : \A e \in D : d <= e
  BY <1>1, LeastNumber
<1>3. PICK i \in T : d = n - i
  BY <1>2
<1>4. \A j \in T : j <= i
  <2> TAKE j \in T
  <2>1. n - j \in D
    OBVIOUS
  <2>2. n - i <= n - j
    BY <1>2, <1>3, <2>1
  <2> QED
    BY <2>2
<1> QED
  BY <1>4

Enumerations(S) ==
  {q \in [1..Cardinality(S) -> S] : \A i, j \in DOMAIN q : i < j => q[i] < q[j]}

\* Every finite set of numbers can be listed in order: a smallest one that cannot would lose
\* its least element.
LEMMA Enumerable ==
  ASSUME NEW S, S \subseteq Nat, IsFiniteSet(S)
  PROVE  Enumerations(S) # {}
<1> DEFINE Bad == {n \in Nat : \E T \in SUBSET Nat : IsFiniteSet(T) /\ Cardinality(T) = n
                                                     /\ Enumerations(T) = {}}
<1>1. SUFFICES ASSUME Bad # {} PROVE FALSE
  BY FS_CardinalityType
<1>2. PICK n \in Bad : \A m \in Bad : n <= m
  <2>1. Bad \subseteq Nat
    OBVIOUS
  <2> QED
    BY <1>1, <2>1, LeastNumber
<1>3. PICK T \in SUBSET Nat : IsFiniteSet(T) /\ Cardinality(T) = n /\ Enumerations(T) = {}
  BY <1>2
<1>4. CASE T = {}
  <2> DEFINE q == [i \in 1..0 |-> i]
  <2>1. Cardinality(T) = 0
    BY <1>4, FS_EmptySet
  <2>2. q \in Enumerations(T)
    BY <1>4, <2>1 DEF Enumerations
  <2> QED
    BY <1>3, <2>2
<1>5. CASE T # {}
  <2>1. PICK m \in T : \A k \in T : m <= k
    BY <1>5, LeastNumber
  <2> DEFINE R == T \ {m}
  <2>2. IsFiniteSet(R) /\ Cardinality(R) = n - 1 /\ n \in Nat
    BY <1>2, <1>3, <2>1, FS_RemoveElement
  <2>3. Cardinality(R) \in Nat
    BY <2>2, FS_CardinalityType
  <2>4. n - 1 \notin Bad
    BY <1>2, <2>2
  <2>5. PICK q : q \in Enumerations(R)
    BY <2>2, <2>3, <2>4
  <2> DEFINE p == [i \in 1..n |-> IF i = 1 THEN m ELSE q[i - 1]]
  <2>6. q \in [1..(n - 1) -> R] /\ \A i, j \in 1..(n - 1) : i < j => q[i] < q[j]
    BY <2>2, <2>5 DEF Enumerations
  <2>7. \A i \in 1..n : i # 1 => i - 1 \in 1..(n - 1) /\ q[i - 1] \in R /\ p[i] = q[i - 1]
    BY <2>2, <2>6
  <2>8. p \in [1..n -> T]
    BY <2>1, <2>2, <2>7
  <2>9. ASSUME NEW i \in 1..n, NEW j \in 1..n, i < j PROVE p[i] < p[j]
    <3>1. j # 1 /\ p[j] = q[j - 1] /\ q[j - 1] \in R
      BY <2>7, <2>9, <2>2
    <3>2. CASE i = 1
      <4>1. p[i] = m /\ m \in Nat /\ q[j - 1] \in Nat /\ m <= q[j - 1] /\ m # q[j - 1]
        BY <3>1, <3>2, <2>1, <2>2
      <4> HIDE DEF p
      <4> QED
        BY <4>1, <3>1
    <3>3. CASE i # 1
      <4>1. p[i] = q[i - 1] /\ i - 1 \in 1..(n - 1) /\ j - 1 \in 1..(n - 1) /\ i - 1 < j - 1
        BY <2>2, <2>7, <2>9, <3>1, <3>3
      <4> HIDE DEF p
      <4> QED
        BY <2>6, <3>1, <4>1
    <3> QED
      BY <3>2, <3>3
  <2>10. DOMAIN p = 1..n
    OBVIOUS
  <2> HIDE DEF p
  <2>11. p \in Enumerations(T)
    BY <1>3, <2>8, <2>9, <2>10 DEF Enumerations
  <2> QED
    BY <1>3, <2>11
<1> QED
  BY <1>4, <1>5

-----------------------------------------------------------------------------
(***************************************************************************)
(* The server and what cupsGetDests says of it.                            *)
(***************************************************************************)

Dest == [name : Printers, paused : BOOLEAN, is_default : BOOLEAN]

ServerOK(s) ==
  /\ DOMAIN s = {"queues", "default", "last", "up"} /\ s.up \in BOOLEAN
  /\ s.queues \in [DOMAIN s.queues -> Queue] /\ DOMAIN s.queues \subseteq Printers
  /\ s.default \in DOMAIN s.queues \cup {NoPrinter}

\* Printers in the order of their names
InOrder(dests) ==
  /\ dests \in Seq(Dest)
  /\ \A i, j \in DOMAIN dests : i < j => dests[i].name < dests[j].name

LEMMA DestsInOrder ==
  ASSUME NEW s, ServerOK(s)
  PROVE  InOrder(GetDests(s))
<1> DEFINE listed == IF s.up THEN DOMAIN s.queues ELSE {}
           names == CHOOSE q \in [1..Cardinality(listed) -> listed] :
                      \A i, j \in DOMAIN q : i < j => q[i] < q[j]
           dest(i) == [name |-> names[i], paused |-> s.queues[names[i]].paused,
                       is_default |-> names[i] = s.default]
<1>1. listed \subseteq Printers /\ Printers \subseteq Nat
  BY PrintersAssumption DEF ServerOK
<1>2. IsFiniteSet(listed)
  BY <1>1, PrintersAssumption, FS_Subset
<1>3. Cardinality(listed) \in Nat
  BY <1>2, FS_CardinalityType
<1>4. listed \subseteq DOMAIN s.queues
  OBVIOUS
<1>5. GetDests(s) = [i \in DOMAIN names |-> dest(i)]
  BY DEF GetDests
<1>6. names \in Enumerations(listed)
  <2>1. Enumerations(listed) # {}
    BY <1>1, <1>2, Enumerable
  <2> HIDE DEF listed
  <2> QED
    BY <2>1 DEF Enumerations
<1> HIDE DEF names, listed
<1>7. /\ names \in [1..Cardinality(listed) -> listed]
      /\ \A i, j \in DOMAIN names : i < j => names[i] < names[j]
  BY <1>6 DEF Enumerations
<1>8. \A i \in DOMAIN names : dest(i) \in Dest
  BY <1>1, <1>4, <1>7 DEF Dest, ServerOK, Queue
<1>9. GetDests(s) \in Seq(Dest)
  BY <1>3, <1>5, <1>7, <1>8
<1>10. DOMAIN GetDests(s) = DOMAIN names /\ \A i \in DOMAIN names : GetDests(s)[i].name = names[i]
  BY <1>5
<1> QED
  BY <1>7, <1>9, <1>10 DEF InOrder

\* The list depends on the names, on which of them are paused and on the default only.
LEMMA SameDests ==
  ASSUME NEW s, NEW t, t.up = s.up, t.default = s.default, DOMAIN t.queues = DOMAIN s.queues,
         \A n \in DOMAIN s.queues : t.queues[n].paused = s.queues[n].paused,
         ServerOK(s), ServerOK(t)
  PROVE  GetDests(t) = GetDests(s)
<1> DEFINE listed == IF s.up THEN DOMAIN s.queues ELSE {}
           names == CHOOSE q \in [1..Cardinality(listed) -> listed] :
                      \A i, j \in DOMAIN q : i < j => q[i] < q[j]
<1>1. names \in [1..Cardinality(listed) -> listed]
  <2>1. listed \subseteq Printers /\ Printers \subseteq Nat
    BY PrintersAssumption DEF ServerOK
  <2>2. IsFiniteSet(listed)
    BY <2>1, PrintersAssumption, FS_Subset
  <2>3. Enumerations(listed) # {}
    BY <2>1, <2>2, Enumerable
  <2> HIDE DEF listed
  <2> QED
    BY <2>3 DEF Enumerations
<1>2. GetDests(s) = [i \in DOMAIN names |->
        [name |-> names[i], paused |-> s.queues[names[i]].paused,
         is_default |-> names[i] = s.default]]
  BY DEF GetDests
<1>3. GetDests(t) = [i \in DOMAIN names |->
        [name |-> names[i], paused |-> t.queues[names[i]].paused,
         is_default |-> names[i] = t.default]]
  BY DEF GetDests
<1>4. listed \subseteq DOMAIN s.queues
  OBVIOUS
<1> HIDE DEF names, listed
<1>5. \A i \in DOMAIN names : names[i] \in DOMAIN s.queues
  BY <1>1, <1>4
<1> QED
  BY <1>2, <1>3, <1>5

-----------------------------------------------------------------------------
(***************************************************************************)
(* The rows of the list.                                                   *)
(***************************************************************************)

LEMMA InsertAtFacts ==
  ASSUME NEW T, NEW s \in Seq(T), NEW e \in T, NEW p \in 1..(Len(s) + 1)
  PROVE  /\ InsertAt(s, p, e) \in Seq(T) /\ Len(InsertAt(s, p, e)) = Len(s) + 1
         /\ \A k \in 1..(Len(s) + 1) :
              InsertAt(s, p, e)[k] = IF k < p THEN s[k] ELSE IF k = p THEN e ELSE s[k - 1]
<1> DEFINE a == SubSeq(s, 1, p - 1)
           c == SubSeq(s, p, Len(s))
           b == a \o <<e>>
<1>1. Len(s) \in Nat /\ p \in Nat /\ p - 1 \in Nat
  OBVIOUS
<1>2. a \in Seq(T) /\ Len(a) = p - 1 /\ \A k \in 1..(p - 1) : a[k] = s[k]
  BY <1>1, SubSeqProperties
<1>3. c \in Seq(T) /\ Len(c) = Len(s) - p + 1 /\ \A k \in 1..(Len(s) - p + 1) : c[k] = s[p + k - 1]
  BY <1>1, SubSeqProperties
<1>4. InsertAt(s, p, e) = b \o c
  BY DEF InsertAt
<1> HIDE DEF a, c
<1>5. b \in Seq(T) /\ Len(b) = p /\ b[p] = e /\ \A k \in 1..(p - 1) : b[k] = s[k]
  BY <1>1, <1>2
<1> HIDE DEF b
<1>6. b \o c \in Seq(T) /\ Len(b \o c) = Len(s) + 1
  <2>1. b \o c \in Seq(T) /\ Len(b \o c) = Len(b) + Len(c)
    BY <1>3, <1>5, ConcatProperties
  <2> QED
    BY <1>1, <1>3, <1>5, <2>1
<1>7. ASSUME NEW k \in 1..(Len(s) + 1)
      PROVE  (b \o c)[k] = IF k < p THEN s[k] ELSE IF k = p THEN e ELSE s[k - 1]
  <2>1. CASE k <= p
    <3>1. (b \o c)[k] = b[k]
      BY <1>1, <1>3, <1>5, <2>1
    <3> QED
      BY <1>1, <1>5, <2>1, <3>1
  <2>2. CASE k > p
    <3>1. (b \o c)[k] = c[k - p] /\ k - p \in 1..(Len(s) - p + 1)
      BY <1>1, <1>3, <1>5, <2>2
    <3>2. c[k - p] = s[p + (k - p) - 1]
      BY <1>3, <3>1
    <3>3. p + (k - p) - 1 = k - 1 /\ ~(k < p) /\ k # p
      BY <1>1, <2>2
    <3>4. (b \o c)[k] = s[k - 1]
      BY <3>1, <3>2, <3>3
    <3> QED
      BY <3>3, <3>4
  <2>3. k <= p \/ k > p
    BY <1>1
  <2> QED
    BY <2>1, <2>2, <2>3
<1> QED
  BY <1>4, <1>6, <1>7

Names == Printers \cup {NoPrinter}
Row == [id : Int, name : Names]

\* Row r shows a printer of the list, or the one that is being added.
ListedRow(dests, row) ==
  /\ row.id >= 0 /\ row.id + 1 \in DOMAIN dests
  /\ row.name = dests[row.id + 1].name
NewRow(new, row) == row.id = -1 /\ row.name = new /\ new # NoPrinter

RowsOK(dests, new, rows) ==
  /\ rows \in Seq(Row)
  /\ \A i, j \in DOMAIN rows : i < j => rows[i].name < rows[j].name
  /\ \A i \in DOMAIN rows : \/ ListedRow(dests, rows[i]) \/ NewRow(new, rows[i])
                            \/ dests = <<>> /\ rows[i].name = NoPrinter
  /\ new # NoPrinter => \E i \in DOMAIN rows : rows[i].name = new
  /\ \A i \in DOMAIN dests : \E r \in DOMAIN rows : rows[r].id + 1 = i

\* The row of a printer that is being added comes after those of lesser names.
LEMMA RowsFacts ==
  ASSUME NEW dests, InOrder(dests), NEW new \in Names
  PROVE  RowsOK(dests, new, Rows(dests, new))
<1> DEFINE listed == [i \in DOMAIN dests |-> [id |-> i - 1, name |-> dests[i].name]]
           before == {i \in DOMAIN dests : dests[i].name < new}
           position == IF before = {} THEN 0 ELSE CHOOSE i \in before : \A j \in before : j <= i
           e == [id |-> -1, name |-> new]
<1>1. /\ Len(dests) \in Nat /\ DOMAIN dests = 1..Len(dests)
      /\ \A i \in DOMAIN dests : dests[i].name \in Printers /\ dests[i].name \in Nat
      /\ new \in Nat
  <2>1. dests \in Seq(Dest)
    BY DEF InOrder
  <2>2. Len(dests) \in Nat /\ DOMAIN dests = 1..Len(dests) /\ \A i \in DOMAIN dests : dests[i] \in Dest
    BY <2>1
  <2>3. Printers \subseteq Nat
    BY PrintersAssumption
  <2>4. \A i \in DOMAIN dests : dests[i].name \in Printers
    BY <2>2 DEF Dest
  <2>5. new \in Nat
    BY <2>3 DEF Names, NoPrinter
  <2> QED
    BY <2>2, <2>3, <2>4, <2>5
<1>2. /\ listed \in Seq(Row) /\ Len(listed) = Len(dests) /\ DOMAIN listed = DOMAIN dests
      /\ \A i \in DOMAIN dests : listed[i].id = i - 1 /\ listed[i].name = dests[i].name
  <2>1. \A i \in 1..Len(dests) : [id |-> i - 1, name |-> dests[i].name] \in Row
    BY <1>1 DEF Row, Names
  <2> QED
    BY <1>1, <2>1
<1>3. CASE dests = <<>> /\ new = NoPrinter
  <2>1. Rows(dests, new) = <<[id |-> 0, name |-> NoPrinter]>>
    BY <1>3 DEF Rows
  <2>2. [id |-> 0, name |-> NoPrinter] \in Row
    BY DEF Row, Names, NoPrinter
  <2> DEFINE one == <<[id |-> 0, name |-> NoPrinter]>>
  <2>3. one \in Seq(Row) /\ DOMAIN one = {1} /\ one[1].name = NoPrinter
    BY <2>2
  <2> HIDE DEF one
  <2>4. \A i, j \in DOMAIN one : ~(i < j)
    BY <2>3
  <2>5. DOMAIN dests = {}
    BY <1>3
  <2> QED
    BY <1>3, <2>1, <2>3, <2>4, <2>5 DEF RowsOK, one
<1>4. CASE ~(dests = <<>> /\ new = NoPrinter)
           /\ (new = NoPrinter \/ \E i \in DOMAIN dests : dests[i].name = new)
  <2>1. Rows(dests, new) = listed
    BY <1>4 DEF Rows
  <2> HIDE DEF listed
  <2>2. \A i \in DOMAIN listed : ListedRow(dests, listed[i])
    BY <1>1, <1>2 DEF ListedRow
  <2>3. \A i, j \in DOMAIN listed : i < j => listed[i].name < listed[j].name
    BY <1>2 DEF InOrder
  <2>4. \A i \in DOMAIN dests : listed[i].id + 1 = i /\ i \in DOMAIN listed
    BY <1>1, <1>2
  <2>5. new # NoPrinter => \E i \in DOMAIN listed : listed[i].name = new
    BY <1>2, <1>4
  <2> QED
    BY <1>2, <2>1, <2>2, <2>3, <2>4, <2>5 DEF RowsOK
<1>5. CASE new # NoPrinter /\ \A i \in DOMAIN dests : dests[i].name # new
  <2> DEFINE r == InsertAt(listed, position + 1, e)
  <2>1. Rows(dests, new) = r
    BY <1>5 DEF Rows
  <2>2. /\ position \in 0..Len(dests)
        /\ \A i \in DOMAIN dests : i <= position => dests[i].name < new
        /\ \A i \in DOMAIN dests : i > position => new < dests[i].name
    <3>1. CASE before = {}
      <4>1. position = 0
        BY <3>1
      <4>2. \A i \in DOMAIN dests : new < dests[i].name
        BY <1>1, <1>5, <3>1
      <4> HIDE DEF position
      <4> QED
        BY <1>1, <4>1, <4>2
    <3>2. CASE before # {}
      <4>1. before \subseteq 0..Len(dests)
        BY <1>1
      <4>2. \E i \in before : \A j \in before : j <= i
        BY <1>1, <3>2, <4>1, GreatestNumber
      <4>3. position = CHOOSE i \in before : \A j \in before : j <= i
        BY <3>2
      <4>4. position \in before /\ \A j \in before : j <= position
        <5> HIDE DEF before, position
        <5> QED
          BY <4>2, <4>3
      <4> HIDE DEF position
      <4>5. position \in DOMAIN dests /\ dests[position].name < new
        BY <4>4
      <4>6. ASSUME NEW i \in DOMAIN dests, i <= position PROVE dests[i].name < new
        <5>1. i = position \/ dests[i].name < dests[position].name
          BY <1>1, <4>5, <4>6 DEF InOrder
        <5> QED
          BY <1>1, <4>5, <5>1
      <4>7. ASSUME NEW i \in DOMAIN dests, i > position PROVE new < dests[i].name
        <5>1. i \notin before
          BY <1>1, <4>4, <4>5, <4>7
        <5> QED
          BY <1>1, <1>5, <5>1
      <4> QED
        BY <1>1, <4>5, <4>6, <4>7
    <3> QED
      BY <3>1, <3>2
  <2> HIDE DEF position, listed
  <2>3. e \in Row /\ position + 1 \in 1..(Len(listed) + 1)
    BY <1>1, <1>2, <2>2 DEF Row, Names
  <2>4. /\ r \in Seq(Row) /\ Len(r) = Len(dests) + 1
        /\ \A k \in 1..(Len(dests) + 1) :
             r[k] = IF k < position + 1 THEN listed[k] ELSE IF k = position + 1 THEN e ELSE listed[k - 1]
    <3>1. /\ r \in Seq(Row) /\ Len(r) = Len(listed) + 1
          /\ \A k \in 1..(Len(listed) + 1) :
               r[k] = IF k < position + 1 THEN listed[k]
                      ELSE IF k = position + 1 THEN e ELSE listed[k - 1]
      <4> HIDE DEF e
      <4>1. PICK p : p = position + 1
        OBVIOUS
      <4>2. listed \in Seq(Row) /\ e \in Row /\ p \in 1..(Len(listed) + 1)
        BY <1>2, <2>3, <4>1
      <4>3. /\ InsertAt(listed, p, e) \in Seq(Row)
            /\ Len(InsertAt(listed, p, e)) = Len(listed) + 1
            /\ \A k \in 1..(Len(listed) + 1) :
                 InsertAt(listed, p, e)[k] =
                   IF k < p THEN listed[k] ELSE IF k = p THEN e ELSE listed[k - 1]
        BY <4>2, InsertAtFacts, SMTT(60)
      <4>4. r = InsertAt(listed, p, e)
        BY <4>1
      <4> HIDE DEF r
      <4> QED
        BY <4>1, <4>3, <4>4
    <3> QED
      BY <1>2, <3>1
  <2> HIDE DEF r
  <2>5. DOMAIN r = 1..(Len(dests) + 1)
    BY <2>4
  \* Where each row comes from
  <2>6. ASSUME NEW k \in DOMAIN r
        PROVE  \/ k <= position /\ k \in DOMAIN dests /\ r[k] = listed[k]
               \/ k = position + 1 /\ r[k] = e
               \/ k > position + 1 /\ k - 1 \in DOMAIN dests /\ k - 1 > position /\ r[k] = listed[k - 1]
    <3> HIDE DEF e
    <3>1. k \in 1..(Len(dests) + 1) /\ position \in Nat /\ position <= Len(dests)
      BY <1>1, <2>2, <2>5
    <3>2. r[k] = IF k < position + 1 THEN listed[k] ELSE IF k = position + 1 THEN e ELSE listed[k - 1]
      BY <2>4, <3>1
    <3>3. CASE k < position + 1
      <4>1. k <= position /\ k \in 1..Len(dests)
        BY <1>1, <3>1, <3>3
      <4> QED
        BY <1>1, <3>2, <3>3, <4>1
    <3>4. CASE k = position + 1
      BY <3>1, <3>2, <3>4
    <3>5. CASE k > position + 1
      <4>1. ~(k < position + 1) /\ k # position + 1 /\ k - 1 \in 1..Len(dests) /\ k - 1 > position
        BY <1>1, <3>1, <3>5
      <4> QED
        BY <1>1, <3>2, <3>5, <4>1
    <3> QED
      BY <3>1, <3>3, <3>4, <3>5
  <2>7. e.name = new /\ e.id = -1
    OBVIOUS
  <2> HIDE DEF e
  <2>8. \A k \in DOMAIN r : ListedRow(dests, r[k]) \/ NewRow(new, r[k])
    <3>1. \A i \in DOMAIN dests : ListedRow(dests, listed[i])
      BY <1>1, <1>2 DEF ListedRow
    <3> QED
      BY <1>5, <2>6, <2>7, <3>1 DEF NewRow
  <2>9. ASSUME NEW k \in DOMAIN r, NEW l \in DOMAIN r, k < l PROVE r[k].name < r[l].name
    <3>1. \A i, j \in DOMAIN dests : i < j => listed[i].name < listed[j].name
      BY <1>2 DEF InOrder
    <3>2. \A i \in DOMAIN dests : /\ i <= position => listed[i].name < new
                                  /\ i > position => new < listed[i].name
      BY <1>2, <2>2
    <3>3. k \in Nat /\ l \in Nat /\ position \in Nat
      BY <1>1, <2>2, <2>5
    <3>4. CASE k <= position
      BY <2>6, <2>7, <2>9, <3>1, <3>2, <3>3, <3>4
    <3>5. CASE k = position + 1
      <4>1. r[k].name = new
        BY <2>6, <2>7, <3>3, <3>5
      <4>2. l - 1 \in DOMAIN dests /\ l - 1 > position /\ r[l] = listed[l - 1]
        BY <2>6, <2>9, <3>3, <3>5
      <4> QED
        BY <3>2, <4>1, <4>2
    <3>6. CASE k > position + 1
      <4>1. k - 1 \in DOMAIN dests /\ r[k] = listed[k - 1]
        BY <2>6, <3>3, <3>6
      <4>2. l - 1 \in DOMAIN dests /\ r[l] = listed[l - 1]
        BY <2>6, <2>9, <3>3, <3>6
      <4>3. k - 1 < l - 1
        BY <2>9, <3>3
      <4> QED
        BY <3>1, <4>1, <4>2, <4>3
    <3> QED
      BY <3>3, <3>4, <3>5, <3>6
  <2>10. \E k \in DOMAIN r : r[k].name = new
    <3>1. position + 1 \in DOMAIN r
      BY <1>1, <2>2, <2>5
    <3>2. r[position + 1] = e
      BY <1>1, <2>2, <2>4, <2>5, <3>1
    <3> QED
      BY <2>7, <3>1, <3>2
  <2>11. ASSUME NEW i \in DOMAIN dests PROVE \E k \in DOMAIN r : r[k].id + 1 = i
    <3>1. listed[i].id + 1 = i
      BY <1>1, <1>2
    <3>2. CASE i <= position
      <4>1. i \in DOMAIN r /\ r[i] = listed[i]
        BY <1>1, <2>2, <2>4, <2>5, <3>2
      <4> QED
        BY <3>1, <4>1
    <3>3. CASE i > position
      <4>1. i + 1 \in DOMAIN r /\ r[i + 1] = listed[(i + 1) - 1] /\ (i + 1) - 1 = i
        BY <1>1, <2>2, <2>4, <2>5, <3>3
      <4> QED
        BY <3>1, <4>1
    <3> QED
      BY <1>1, <2>2, <3>2, <3>3
  <2> QED
    BY <2>1, <2>4, <2>8, <2>9, <2>10, <2>11 DEF RowsOK
<1> QED
  BY <1>3, <1>4, <1>5


-----------------------------------------------------------------------------
(***************************************************************************)
(* The panel's functions: what they keep and what they make of the list.   *)
(***************************************************************************)

PanelFields ==
  {"loaded", "crashed", "is_authorized", "dests", "current_dest", "rows", "selected", "page",
   "shown", "num_jobs", "new_printer_name", "select_new_printer", "adding",
   "driver_change_list", "getting_ppd_names", "preferred_drivers", "popup_menu", "chooser",
   "add_button", "remove_button", "editable", "default_button", "model_page"}
ShownFields == {"name", "enabled", "is_default"}
Pages == {"INFO", "NO_PRINTERS", "NO_CUPS"}

SameRequests(p, q) ==
  /\ q.loaded = p.loaded /\ q.crashed = p.crashed /\ q.is_authorized = p.is_authorized
  /\ q.new_printer_name = p.new_printer_name /\ q.adding = p.adding
  /\ q.driver_change_list = p.driver_change_list /\ q.getting_ppd_names = p.getting_ppd_names
  /\ q.preferred_drivers = p.preferred_drivers /\ q.popup_menu = p.popup_menu
  /\ q.chooser = p.chooser
SameRows(p, q) ==
  /\ q.dests = p.dests /\ q.rows = p.rows /\ q.selected = p.selected
  /\ q.current_dest = p.current_dest /\ q.num_jobs = p.num_jobs
SameList(p, q) == SameRows(p, q) /\ q.page = p.page /\ q.shown = p.shown

\* What update_sensitivity shows in the place of the model
ModelPage(p) ==
  IF PrinterSelected(p) /\ Contains(p.driver_change_list, CurrentName(p)) THEN "changing"
  ELSE IF LocalServer /\ ~(~IsNew(p) /\ CurrentName(p) \in Discovered) /\ p.is_authorized
          /\ ~IsNew(p) /\ ~p.getting_ppd_names
  THEN "button" ELSE "label"

\* The list was made from the snapshot and the name that is being added.
ListMade(p) ==
  /\ DOMAIN p = PanelFields /\ DOMAIN p.shown = ShownFields /\ p.page \in Pages
  /\ InOrder(p.dests) /\ p.new_printer_name \in Names
  /\ p.rows = Rows(p.dests, p.new_printer_name)

SelectionOK(p) ==
  /\ p.selected \in DOMAIN p.rows \cup {NoRow}
  /\ p.selected = NoRow => p.current_dest = -1 /\ p.dests = <<>>
  /\ p.selected # NoRow =>
       /\ p.current_dest = p.rows[p.selected].id /\ p.rows[p.selected].name # NoPrinter
       /\ p.shown.name = p.rows[p.selected].name /\ p.page = "INFO"
  /\ PrinterSelected(p) => p.shown.is_default = Current(p).is_default

\* Once the list is made, whatever comes, it has a selection and the details are of it.
ListOK(p) == ListMade(p) /\ SelectionOK(p) /\ p.model_page = ModelPage(p)

LEMMA SensitivityFacts ==
  ASSUME NEW p, DOMAIN p = PanelFields, NEW q, q = UpdateSensitivity(p)
  PROVE  /\ DOMAIN q = PanelFields /\ SameRequests(p, q) /\ SameList(p, q)
         /\ q.model_page = ModelPage(q)
<1> DEFINE a == LocalServer /\ p.is_authorized /\ p.page # "NO_CUPS" /\ p.new_printer_name = NoPrinter
           local == LocalServer /\ ~(~IsNew(p) /\ CurrentName(p) \in Discovered)
                    /\ p.is_authorized /\ ~IsNew(p)
           b == local /\ (PrinterSelected(p) \/ IsNew(p)) /\ p.page # "NO_CUPS"
           d == p.is_authorized /\ ~IsNew(p)
           m == IF PrinterSelected(p) /\ Contains(p.driver_change_list, CurrentName(p))
                THEN "changing" ELSE IF local /\ ~p.getting_ppd_names THEN "button" ELSE "label"
<1>1. q = [p EXCEPT !.add_button = a, !.remove_button = b, !.editable = local,
                    !.default_button = d, !.model_page = m]
  BY Zenon DEF UpdateSensitivity
<1>2. m = ModelPage(p)
  BY Zenon DEF ModelPage
<1> HIDE DEF a, local, b, d, m
<1>3. /\ DOMAIN q = PanelFields /\ q.model_page = m
  BY <1>1 DEF PanelFields
<1>4. SameRequests(p, q) /\ SameList(p, q)
  BY <1>1 DEF PanelFields, SameRequests, SameList, SameRows
<1>5. ModelPage(q) = ModelPage(p)
  BY <1>4, Zenon DEF ModelPage, SameRequests, SameList, SameRows, PrinterSelected, CurrentName, Current,
     IsNew, RowName
<1> QED
  BY <1>2, <1>3, <1>4, <1>5

\* What does not change the list keeps it.
LEMMA ListKept ==
  ASSUME NEW p, NEW q, ListOK(p), DOMAIN q = PanelFields, SameList(p, q),
         q.new_printer_name = p.new_printer_name, q.model_page = ModelPage(q)
  PROVE  ListOK(q)
<1>1. ListMade(q)
  BY DEF ListOK, ListMade, SameList, SameRows
<1>2. SelectionOK(q)
  BY DEF ListOK, SelectionOK, SameList, SameRows, PrinterSelected, Current
<1> QED
  BY <1>1, <1>2 DEF ListOK

\* A row of the list has a printer's name unless the list is empty.
LEMMA RowNamed ==
  ASSUME NEW dests, InOrder(dests), NEW new \in Names, NEW i \in DOMAIN Rows(dests, new)
  PROVE  /\ Rows(dests, new)[i] \in Row
         /\ dests # <<>> => Rows(dests, new)[i].name # NoPrinter
         /\ Rows(dests, new)[i].name # NoPrinter =>
              ListedRow(dests, Rows(dests, new)[i]) \/ NewRow(new, Rows(dests, new)[i])
<1> DEFINE rows == Rows(dests, new)
<1>1. RowsOK(dests, new, rows)
  BY RowsFacts
<1>2. /\ rows \in Seq(Row)
      /\ ListedRow(dests, rows[i]) \/ NewRow(new, rows[i]) \/ (dests = <<>> /\ rows[i].name = NoPrinter)
  BY <1>1 DEF RowsOK
<1> HIDE DEF rows
<1>3. rows[i] \in Row
  BY <1>2 DEF rows
<1>4. ASSUME ListedRow(dests, rows[i]) PROVE rows[i].name # NoPrinter
  <2>1. dests \in Seq(Dest) /\ rows[i].id + 1 \in DOMAIN dests
    BY <1>4 DEF InOrder, ListedRow
  <2>2. dests[rows[i].id + 1] \in Dest
    BY <2>1
  <2> QED
    BY <1>4, <2>2, PrintersAssumption DEF Dest, ListedRow
<1>5. NewRow(new, rows[i]) => rows[i].name # NoPrinter
  BY DEF NewRow
<1> QED
  BY <1>2, <1>3, <1>4, <1>5 DEF rows

LEMMA SelectionFacts ==
  ASSUME NEW p, ListMade(p), NEW s, NEW i \in DOMAIN p.rows, p.rows[i].name # NoPrinter,
         NEW q, q = SelectionChanged(p, s, i)
  PROVE  /\ ListOK(q) /\ SameRequests(p, q) /\ q.dests = p.dests
         /\ PrinterSelected(q) => q.num_jobs = JobsOf(s, CurrentName(q))
<1> DEFINE a == [p EXCEPT !.selected = i, !.current_dest = p.rows[i].id]
           n == IF PrinterSelected(a) THEN JobsOf(s, CurrentName(a)) ELSE -1
           b == [a EXCEPT !.num_jobs = n]
           d == Details(b)
           g == IF PrinterSelected(b) \/ IsNew(b) THEN "INFO" ELSE b.page
           c == [b EXCEPT !.shown = d, !.page = g]
<1>1. p.rows \in Seq(Row) /\ i # NoRow /\ p.rows[i] \in Row
  <2>1. RowsOK(p.dests, p.new_printer_name, p.rows)
    BY RowsFacts DEF ListMade
  <2>2. p.rows \in Seq(Row)
    BY <2>1 DEF RowsOK
  <2> QED
    BY <2>2 DEF NoRow
<1>2. q = UpdateSensitivity(c)
  <2>1. UpdateJobsCount([p EXCEPT !.selected = i,
                                  !.current_dest = IF i = NoRow THEN -1 ELSE p.rows[i].id], s) = b
    BY <1>1 DEF UpdateJobsCount
  <2> QED
    BY <2>1, Zenon DEF SelectionChanged
<1>3. /\ DOMAIN a = PanelFields /\ a.selected = i /\ a.current_dest = p.rows[i].id
      /\ SameRequests(p, a) /\ a.dests = p.dests /\ a.rows = p.rows /\ a.page = p.page
  BY DEF ListMade, PanelFields, SameRequests
<1> HIDE DEF a
<1>4. /\ DOMAIN b = PanelFields /\ b.selected = i /\ b.current_dest = p.rows[i].id /\ b.num_jobs = n
      /\ SameRequests(p, b) /\ b.dests = p.dests /\ b.rows = p.rows /\ b.page = p.page
  BY <1>3 DEF PanelFields, SameRequests
<1>5. n = IF PrinterSelected(b) THEN JobsOf(s, CurrentName(b)) ELSE -1
  BY <1>3, <1>4, Zenon DEF PrinterSelected, CurrentName, Current
<1> HIDE DEF b, n
<1>6. /\ DOMAIN c = PanelFields /\ SameRows(b, c) /\ SameRequests(p, c) /\ c.shown = d /\ c.page = g
  BY <1>4 DEF PanelFields, SameRequests, SameRows
<1>7. DOMAIN d = ShownFields /\ d.name = p.rows[i].name
      /\ (PrinterSelected(b) => d.is_default = Current(b).is_default)
  <2>1. d.name = RowName(b) /\ DOMAIN d = {"name", "enabled", "is_default"}
    BY DEF Details
  <2>2. RowName(b) = p.rows[i].name
    BY <1>1, <1>4 DEF RowName
  <2>3. PrinterSelected(b) => d.is_default = Current(b).is_default
    BY DEF Details
  <2> QED
    BY <2>1, <2>2, <2>3 DEF ShownFields
<1>8. g = "INFO"
  <2>1. ListedRow(p.dests, p.rows[i]) \/ NewRow(p.new_printer_name, p.rows[i])
    BY RowNamed DEF ListMade
  <2>2. CASE ListedRow(p.dests, p.rows[i])
    <3>1. p.dests \in Seq(Dest) /\ p.rows[i].id \in Int
      BY <1>1 DEF ListMade, InOrder, Row
    <3>2. PrinterSelected(b)
      BY <1>4, <2>2, <3>1 DEF ListedRow, PrinterSelected
    <3> QED
      BY <3>2
  <2>3. CASE NewRow(p.new_printer_name, p.rows[i])
    <3>1. b.new_printer_name = p.new_printer_name
      BY <1>4 DEF SameRequests
    <3>2. IsNew(b)
      BY <1>1, <1>4, <2>3, <3>1 DEF NewRow, IsNew, RowName
    <3> QED
      BY <3>2
  <2> QED
    BY <2>1, <2>2, <2>3
<1> HIDE DEF c, d, g
<1>9. DOMAIN q = PanelFields /\ SameRequests(c, q) /\ SameList(c, q) /\ q.model_page = ModelPage(q)
  BY <1>2, <1>6, SensitivityFacts
<1>10. /\ q.selected = i /\ q.current_dest = p.rows[i].id /\ q.num_jobs = n /\ q.dests = p.dests
       /\ q.rows = p.rows /\ q.shown = d /\ q.page = "INFO" /\ q.new_printer_name = p.new_printer_name
  BY <1>4, <1>6, <1>8, <1>9 DEF SameList, SameRows, SameRequests
<1>11. SameRequests(p, q)
  BY <1>6, <1>9 DEF SameRequests
<1>12. PrinterSelected(q) = PrinterSelected(b) /\ Current(q) = Current(b)
       /\ CurrentName(q) = CurrentName(b)
  BY <1>4, <1>10, Zenon DEF PrinterSelected, Current, CurrentName
<1>13. ListMade(q)
  BY <1>7, <1>9, <1>10 DEF ListMade, Pages
<1>14. SelectionOK(q)
  BY <1>1, <1>7, <1>10, <1>12 DEF SelectionOK
<1> QED
  BY <1>5, <1>9, <1>10, <1>11, <1>12, <1>13, <1>14 DEF ListOK

LEMMA FallbackFacts ==
  ASSUME NEW dests, InOrder(dests), NEW new \in Names, NEW s,
         NEW r, r = Fallback(dests, Rows(dests, new), s)
  PROVE  /\ r = NoRow => dests = <<>>
         /\ r # NoRow => r \in DOMAIN Rows(dests, new) /\ Rows(dests, new)[r].name # NoPrinter
<1> DEFINE rows == Rows(dests, new)
           used == {i \in DOMAIN dests : dests[i].name = s.last}
           default == {i \in DOMAIN dests : dests[i].is_default}
           preferred == IF used # {} THEN used ELSE default
<1>1. RowsOK(dests, new, rows)
  BY RowsFacts
<1>2. r = IF preferred # {} THEN CHOOSE k \in DOMAIN rows : rows[k].id + 1 \in preferred
          ELSE IF dests # <<>> THEN 1 ELSE NoRow
  BY DEF Fallback
<1>3. preferred \subseteq DOMAIN dests
  OBVIOUS
<1>4. rows \in Seq(Row) /\ \A i \in DOMAIN dests : \E k \in DOMAIN rows : rows[k].id + 1 = i
  BY <1>1 DEF RowsOK
<1>5. dests \in Seq(Dest)
  BY DEF InOrder
<1> HIDE DEF rows, used, default, preferred
<1>6. CASE preferred # {}
  <2>1. \E k \in DOMAIN rows : rows[k].id + 1 \in preferred
    BY <1>3, <1>4, <1>6
  <2>2. r \in DOMAIN rows
    BY <1>2, <1>6, <2>1
  <2>3. dests # <<>>
    BY <1>3, <1>6
  <2>4. r # NoRow
    BY <1>4, <2>2 DEF NoRow
  <2> QED
    BY <2>2, <2>3, <2>4, RowNamed DEF rows
<1>7. CASE preferred = {} /\ dests # <<>>
  <2>1. r = 1
    BY <1>2, <1>7
  <2>2. 1 \in DOMAIN dests
    BY <1>5, <1>7
  <2>3. PICK k \in DOMAIN rows : rows[k].id + 1 = 1
    BY <1>4, <2>2
  <2>4. 1 \in DOMAIN rows
    BY <1>4, <2>3
  <2>5. r \in DOMAIN rows /\ r # NoRow
    BY <2>1, <2>4 DEF NoRow
  <2> QED
    BY <1>7, <2>5, RowNamed DEF rows
<1>8. CASE preferred = {} /\ dests = <<>>
  BY <1>2, <1>8
<1> QED
  BY <1>6, <1>7, <1>8

\* actualize_printers_list makes the list of the server as it is.
LEMMA ActualizeFacts ==
  ASSUME NEW s, ServerOK(s), NEW p, DOMAIN p = PanelFields, DOMAIN p.shown = ShownFields,
         p.page \in Pages, p.new_printer_name \in Names,
         NEW q, q = ActualizePrintersList(p, s)
  PROVE  /\ ListOK(q) /\ SameRequests(p, q) /\ q.dests = GetDests(s)
         /\ PrinterSelected(q) => q.num_jobs = JobsOf(s, CurrentName(q))
<1> DEFINE select_new == p.new_printer_name # NoPrinter /\ p.select_new_printer
           name == IF select_new THEN p.new_printer_name ELSE RowName(p)
           dests == GetDests(s)
           rows == Rows(dests, p.new_printer_name)
           none == dests = <<>> /\ p.new_printer_name = NoPrinter
           found == {r \in DOMAIN rows : name # NoPrinter /\ rows[r].name = name}
           again == p.select_new_printer /\ ~select_new
           page == IF ~none THEN p.page ELSE IF s.up THEN "NO_PRINTERS" ELSE "NO_CUPS"
           free == FreeDests(p)
           listed == [free EXCEPT !.dests = dests, !.rows = rows, !.selected = NoRow,
                                  !.select_new_printer = again, !.page = page]
           row == IF found # {} THEN CHOOSE r \in found : TRUE ELSE Fallback(dests, rows, s)
<1>1. /\ DOMAIN free = PanelFields /\ free.current_dest = -1 /\ SameRequests(p, free)
      /\ free.select_new_printer = p.select_new_printer /\ free.page = p.page /\ free.shown = p.shown
  BY DEF FreeDests, PanelFields, SameRequests
<1>2. q = IF row = NoRow THEN UpdateSensitivity(listed) ELSE SelectionChanged(listed, s, row)
  <2>1. listed = [free EXCEPT
                   !.dests = dests, !.rows = rows, !.selected = NoRow,
                   !.select_new_printer = @ /\ ~select_new,
                   !.page = IF ~none THEN @ ELSE IF s.up THEN "NO_PRINTERS" ELSE "NO_CUPS"]
    BY <1>1
  <2> HIDE DEF listed
  <2> QED
    BY <2>1, Zenon DEF ActualizePrintersList
<1>3. InOrder(dests)
  BY DestsInOrder
<1>4. page \in Pages
  BY DEF Pages
<1>5. row = NoRow => dests = <<>>
  <2>1. CASE found # {}
    <3>1. row \in DOMAIN rows
      BY <2>1
    <3>2. RowsOK(dests, p.new_printer_name, rows)
      BY <1>3, RowsFacts
    <3>3. rows \in Seq(Row)
      BY <3>2 DEF RowsOK
    <3> HIDE DEF row, rows
    <3>4. row # NoRow
      BY <3>1, <3>3 DEF NoRow
    <3> QED
      BY <3>4
  <2>2. CASE found = {}
    <3>1. row = Fallback(dests, Rows(dests, p.new_printer_name), s)
      BY <2>2
    <3> HIDE DEF row, dests
    <3> QED
      BY <1>3, <3>1, FallbackFacts
  <2> QED
    BY <2>1, <2>2
<1>6. row # NoRow => row \in DOMAIN rows /\ rows[row].name # NoPrinter
  <2>1. CASE found # {}
    <3>1. row \in found
      BY <2>1
    <3> HIDE DEF row, rows, name
    <3> QED
      BY <3>1
  <2>2. CASE found = {}
    <3>1. row = Fallback(dests, Rows(dests, p.new_printer_name), s)
      BY <2>2
    <3> HIDE DEF row, dests
    <3> QED
      BY <1>3, <3>1, FallbackFacts
  <2> QED
    BY <2>1, <2>2
<1>7. rows = Rows(dests, p.new_printer_name)
  OBVIOUS
<1> HIDE DEF rows, found, row, page, again, free, name, select_new, none
<1>8. /\ DOMAIN listed = PanelFields /\ listed.dests = dests /\ listed.rows = rows
      /\ listed.selected = NoRow /\ listed.page = page /\ listed.current_dest = -1
      /\ listed.shown = p.shown /\ SameRequests(p, listed)
  BY <1>1 DEF PanelFields, SameRequests
<1> HIDE DEF listed, dests
<1>9. ListMade(listed) /\ listed.new_printer_name = p.new_printer_name
  <2>1. listed.new_printer_name = p.new_printer_name
    BY <1>8 DEF SameRequests
  <2> QED
    BY <1>3, <1>4, <1>7, <1>8, <2>1 DEF ListMade
<1>10. CASE row = NoRow
  <2>1. q = UpdateSensitivity(listed)
    BY <1>2, <1>10
  <2>2. /\ DOMAIN q = PanelFields /\ SameRequests(listed, q) /\ SameList(listed, q)
        /\ q.model_page = ModelPage(q)
    BY <1>8, <2>1, SensitivityFacts
  <2>3. /\ q.dests = dests /\ q.current_dest = -1 /\ q.selected = NoRow /\ q.rows = rows
        /\ q.shown = p.shown /\ q.page = page /\ q.new_printer_name = p.new_printer_name
    BY <1>8, <1>9, <2>2 DEF SameList, SameRows, SameRequests
  <2>4. ~PrinterSelected(q)
    BY <2>3 DEF PrinterSelected
  <2>5. SelectionOK(q)
    BY <1>5, <1>10, <2>3, <2>4 DEF SelectionOK
  <2>6. ListMade(q)
    BY <1>3, <1>4, <1>7, <2>2, <2>3 DEF ListMade
  <2>7. SameRequests(p, q)
    BY <1>8, <2>2 DEF SameRequests
  <2> QED
    BY <2>2, <2>3, <2>4, <2>5, <2>6, <2>7 DEF ListOK, dests
<1>11. CASE row # NoRow
  <2>1. q = SelectionChanged(listed, s, row)
    BY <1>2, <1>11
  <2>2. row \in DOMAIN listed.rows /\ listed.rows[row].name # NoPrinter
    BY <1>6, <1>8, <1>11
  <2>3. /\ ListOK(q) /\ SameRequests(listed, q) /\ q.dests = listed.dests
        /\ PrinterSelected(q) => q.num_jobs = JobsOf(s, CurrentName(q))
    BY <1>9, <2>1, <2>2, SelectionFacts
  <2>4. SameRequests(p, q)
    BY <1>8, <2>3 DEF SameRequests
  <2> QED
    BY <1>8, <2>3, <2>4 DEF dests
<1> QED
  BY <1>10, <1>11

\* The details of a list that is kept; only those that say which printer is the default are told.
LEMMA ShownKept ==
  ASSUME NEW p, NEW q, ListOK(p), DOMAIN q = PanelFields, SameRows(p, q), q.page = p.page,
         DOMAIN q.shown = ShownFields, q.shown.name = p.shown.name,
         PrinterSelected(p) => q.shown.is_default = p.shown.is_default,
         q.new_printer_name = p.new_printer_name, q.model_page = ModelPage(q)
  PROVE  ListOK(q)
<1>1. ListMade(q)
  BY DEF ListOK, ListMade, SameRows
<1>2. SelectionOK(q)
  BY DEF ListOK, SelectionOK, SameRows, PrinterSelected, Current
<1> QED
  BY <1>1, <1>2 DEF ListOK

\* What the place of the model depends on
LEMMA SameModelPage ==
  ASSUME NEW p, NEW q, q.dests = p.dests, q.rows = p.rows, q.selected = p.selected,
         q.current_dest = p.current_dest, q.new_printer_name = p.new_printer_name,
         q.driver_change_list = p.driver_change_list, q.is_authorized = p.is_authorized,
         q.getting_ppd_names = p.getting_ppd_names
  PROVE  ModelPage(q) = ModelPage(p)
  BY Zenon DEF ModelPage, PrinterSelected, CurrentName, Current, IsNew, RowName

-----------------------------------------------------------------------------
(***************************************************************************)
(* What the requests make of the server and of the record of a rename.     *)
(***************************************************************************)

QueueFields == {"paused", "accepting", "jobs"}
InField(f, v) ==
  \/ f = "paused" /\ v \in BOOLEAN
  \/ f = "accepting" /\ v \in BOOLEAN
  \/ f = "jobs" /\ v \in 0..MaxJobs

LEMMA SetQueueFacts ==
  ASSUME NEW s, ServerOK(s), NEW n \in DOMAIN s.queues, NEW f, NEW v, InField(f, v),
         NEW t, t = SetQueue(s, n, f, v)
  PROVE  /\ ServerOK(t) /\ t.up = s.up /\ t.default = s.default
         /\ DOMAIN t.queues = DOMAIN s.queues
         /\ t.queues[n][f] = v
         /\ \A g \in QueueFields : g # f => t.queues[n][g] = s.queues[n][g]
         /\ \A m \in DOMAIN s.queues : m # n => t.queues[m] = s.queues[m]
<1>1. /\ DOMAIN t = DOMAIN s /\ t.up = s.up /\ t.default = s.default
      /\ t.queues = [s.queues EXCEPT ![n] = [s.queues[n] EXCEPT ![f] = v]]
  BY DEF SetQueue, ServerOK
<1>2. DOMAIN t.queues = DOMAIN s.queues /\ t.queues[n] = [s.queues[n] EXCEPT ![f] = v]
      /\ \A m \in DOMAIN s.queues : m # n => t.queues[m] = s.queues[m]
  BY <1>1 DEF ServerOK
<1>3. s.queues[n] \in Queue
  BY DEF ServerOK
<1>4. t.queues[n] \in Queue /\ t.queues[n][f] = v
      /\ \A g \in QueueFields : g # f => t.queues[n][g] = s.queues[n][g]
  BY <1>2, <1>3 DEF Queue, InField, QueueFields
<1>5. t.queues \in [DOMAIN t.queues -> Queue]
  <2>1. s.queues \in [DOMAIN s.queues -> Queue]
    BY DEF ServerOK
  <2>2. [s.queues[n] EXCEPT ![f] = v] \in Queue
    BY <1>2, <1>4
  <2> QED
    BY <1>1, <1>2, <2>1, <2>2
<1> QED
  BY <1>1, <1>2, <1>4, <1>5 DEF ServerOK

LEMMA AddQueueFacts ==
  ASSUME NEW s, ServerOK(s), NEW n \in Printers, NEW q \in Queue, NEW t, t = AddQueue(s, n, q)
  PROVE  /\ ServerOK(t) /\ t.up = s.up /\ t.default = s.default
         /\ DOMAIN t.queues = DOMAIN s.queues \cup {n}
         /\ t.queues[n] = q
         /\ \A m \in DOMAIN s.queues : m # n => t.queues[m] = s.queues[m]
<1>1. /\ DOMAIN t = DOMAIN s /\ t.up = s.up /\ t.default = s.default
      /\ t.queues = [x \in DOMAIN s.queues \cup {n} |-> IF x = n THEN q ELSE s.queues[x]]
  BY DEF AddQueue, With, ServerOK
<1>2. \A x \in DOMAIN s.queues : s.queues[x] \in Queue
  BY DEF ServerOK
<1>3. DOMAIN t.queues = DOMAIN s.queues \cup {n} /\ t.queues \in [DOMAIN t.queues -> Queue]
  BY <1>1, <1>2
<1> QED
  BY <1>1, <1>3 DEF ServerOK

LEMMA DeleteQueueFacts ==
  ASSUME NEW s, ServerOK(s), NEW n, NEW t, t = DeleteQueue(s, n)
  PROVE  /\ ServerOK(t) /\ t.up = s.up
         /\ t.default = IF s.default = n THEN NoPrinter ELSE s.default
         /\ DOMAIN t.queues = DOMAIN s.queues \ {n}
         /\ \A m \in DOMAIN s.queues : m # n => t.queues[m] = s.queues[m]
<1> DEFINE d == IF s.default = n THEN NoPrinter ELSE s.default
           l == IF s.last = n THEN NoPrinter ELSE s.last
<1>1. t = [s EXCEPT !.queues = [x \in DOMAIN s.queues \ {n} |-> s.queues[x]],
                    !.default = d, !.last = l]
  BY Zenon DEF DeleteQueue
<1>2. d \in (DOMAIN s.queues \ {n}) \cup {NoPrinter}
  BY DEF ServerOK
<1>3. d = IF s.default = n THEN NoPrinter ELSE s.default
  OBVIOUS
<1> HIDE DEF d, l
<1>4. /\ DOMAIN t = DOMAIN s /\ t.up = s.up /\ t.default = d
      /\ t.queues = [x \in DOMAIN s.queues \ {n} |-> s.queues[x]]
  BY <1>1 DEF ServerOK
<1>5. \A x \in DOMAIN s.queues : s.queues[x] \in Queue
  BY DEF ServerOK
<1>6. DOMAIN t.queues = DOMAIN s.queues \ {n} /\ t.queues \in [DOMAIN t.queues -> Queue]
  BY <1>4, <1>5
<1> QED
  BY <1>2, <1>3, <1>4, <1>6 DEF ServerOK

LEMMA SetDefaultFacts ==
  ASSUME NEW s, ServerOK(s), NEW n \in DOMAIN s.queues, NEW t, t = [s EXCEPT !.default = n]
  PROVE  ServerOK(t) /\ t.up = s.up /\ t.queues = s.queues /\ t.default = n
  BY DEF ServerOK

LEMMA QueuesAdded ==
  NewQueue \in Queue /\ [NewQueue EXCEPT !.paused = FALSE, !.accepting = TRUE] \in Queue
<1>1. 0 \in 0..MaxJobs
  BY PrintersAssumption
<1> QED
  BY <1>1 DEF NewQueue, Queue

RenameFields ==
  {"pc", "old", "new", "accepting", "paused", "is_default", "closed", "before", "since"}
RenameOK(r) ==
  /\ DOMAIN r = RenameFields
  /\ r.old \in Names /\ r.accepting \in BOOLEAN /\ r.paused \in BOOLEAN /\ r.closed \in BOOLEAN
  /\ r.pc # "idle" => r.new \in Printers
  /\ (r.pc = "idle") = (r = NoRename)

ListPart(p) ==
  /\ p.loaded = "no" => p = NewPanel
  /\ p.loaded # "no" => ListOK(p)
  /\ p.adding = "adding" => p.new_printer_name \in Printers

\* The inductive invariant of the list: its types, and that it is made and shown as it should be.
PanelInv ==
  /\ ServerOK(server) /\ RenameOK(rename) /\ calls \in Seq(Printers)
  /\ ListPart(panel)
  /\ rename.pc # "idle" => panel.loaded # "no"

LEMMA NoRenameOK == RenameOK(NoRename)
  BY DEF NoRename, RenameOK, RenameFields, Names, NoPrinter

LEMMA NewPanelFacts ==
  /\ DOMAIN NewPanel = PanelFields /\ DOMAIN NewPanel.shown = ShownFields
  /\ NewPanel.page \in Pages /\ NewPanel.new_printer_name \in Names
  BY DEF NewPanel, PanelFields, ShownFields, Pages, Names

LEMMA PanelFacts ==
  ASSUME PanelInv
  PROVE  /\ DOMAIN panel = PanelFields /\ DOMAIN panel.shown = ShownFields
         /\ panel.page \in Pages /\ panel.new_printer_name \in Names
  BY NewPanelFacts DEF PanelInv, ListPart, ListOK, ListMade

LEMMA PanelInvInit ==
  ASSUME Init
  PROVE  PanelInv
<1>1. rename = NoRename /\ calls = <<>> /\ panel = NewPanel
  BY DEF Init
<1>2. ServerOK(server)
  <2>1. PICK D \in InitialSets :
               \E d \in D \cup {NoPrinter}, j \in 0..MaxJobs :
                 server = [queues |-> [n \in D |-> InitialQueue(j)], default |-> d,
                           last |-> NoPrinter, up |-> TRUE]
    BY DEF Init
  <2>2. PICK d \in D \cup {NoPrinter}, j \in 0..MaxJobs :
               server = [queues |-> [n \in D |-> InitialQueue(j)], default |-> d,
                         last |-> NoPrinter, up |-> TRUE]
    BY <2>1
  <2>3. InitialQueue(j) \in Queue
    BY DEF InitialQueue, Queue
  <2>4. D \subseteq Printers
    BY PrintersAssumption
  <2> QED
    BY <2>2, <2>3, <2>4 DEF ServerOK
<1>3. panel.loaded = "no" /\ panel.adding = "none" /\ rename.pc = "idle"
  BY <1>1 DEF NewPanel, NoRename
<1> QED
  BY <1>1, <1>2, <1>3, NoRenameOK DEF PanelInv, ListPart

-----------------------------------------------------------------------------
(***************************************************************************)
(* The steps keep the types of the server, of the rename and of the list.  *)
(***************************************************************************)

\* The actions that no request to the server changes
Quiet ==
  \/ Start \/ CupsStatusCheck \/ RenewSubscription \/ SubscriptionExpires \/ OnCupsNotification
  \/ OnPermissionChanged
  \/ \E found \in BOOLEAN : SearchAnswered(found)
  \/ \E i \in DOMAIN calls, ok \in BOOLEAN : SetPpdCallback(i, ok)
  \/ \E i \in DOMAIN panel.rows : SelectRow(i)
  \/ PrinterLocationEdit \/ \E n \in Printers \ Discovered : PrinterNameEdit(n)
  \/ PopupModelMenu \/ CloseMenu \/ SetPpdFromList \/ OpenChooser
  \/ \E ok \in BOOLEAN : PpdSelectionDialogResponse(ok)
  \/ RenameCheck \/ RenameRecheck \/ RenameVerify \/ RenameDone
  \/ PrinterAdd \/ NewPrinterDialogResponse \/ \E n \in Printers \ Discovered : PreResponse(n)

LEMMA QuietSteps == Quiet => server' = server
<1> USE DEF DriverFrame, RenameFrame, AdditionFrame
<1>1. Start => server' = server
  BY DEF Start, PopulatePrintersList, AttachToCupsNotifier, StartStatusCheck
<1>2. (\/ CupsStatusCheck \/ RenewSubscription \/ SubscriptionExpires \/ OnCupsNotification
       \/ OnPermissionChanged) => server' = server
  BY DEF CupsStatusCheck, RenewSubscription, SubscriptionExpires, OnCupsNotification, OnPermissionChanged
<1>3. ASSUME NEW found, SearchAnswered(found) PROVE server' = server
  BY <1>3 DEF SearchAnswered
<1>4. ASSUME NEW i, NEW ok, SetPpdCallback(i, ok) PROVE server' = server
  BY <1>4 DEF SetPpdCallback
<1>5. ASSUME NEW i, SelectRow(i) PROVE server' = server
  BY <1>5 DEF SelectRow
<1>6. ASSUME NEW n, PrinterNameEdit(n) PROVE server' = server
  BY <1>6 DEF PrinterNameEdit
<1>7. ASSUME NEW ok, PpdSelectionDialogResponse(ok) PROVE server' = server
  BY <1>7 DEF PpdSelectionDialogResponse
<1>8. ASSUME NEW n, PreResponse(n) PROVE server' = server
  BY <1>8 DEF PreResponse
<1>9. (PrinterLocationEdit \/ PopupModelMenu \/ CloseMenu \/ SetPpdFromList \/ OpenChooser)
      => server' = server
  BY DEF PrinterLocationEdit, PopupModelMenu, CloseMenu, SetPpdFromList, OpenChooser
<1>10. (RenameCheck \/ RenameRecheck \/ RenameVerify \/ RenameDone
        \/ PrinterAdd \/ NewPrinterDialogResponse) => server' = server
  BY DEF RenameCheck, RenameRecheck, RenameVerify, RenameDone, PrinterAdd, NewPrinterDialogResponse
<1> QED
  BY <1>1, <1>2, <1>3, <1>4, <1>5, <1>6, <1>7, <1>8, <1>9, <1>10, Zenon DEF Quiet

LEMMA RequestServer ==
  ASSUME NEW n, NEW ok \in BOOLEAN, NEW after, RenameRequest(n, ok, after)
  PROVE  IF ok THEN Exists(server, n) /\ server' = after ELSE server' = server
  BY DEF RenameRequest, Answered, ServerBecomes

LEMMA ServerStep ==
  ASSUME PanelInv, Next
  PROVE  ServerOK(server')
<1>1. ServerOK(server) /\ RenameOK(rename)
  BY DEF PanelInv
<1>2. ASSUME NEW n, NEW f, NEW v, Exists(server, n), InField(f, v), server' = SetQueue(server, n, f, v)
      PROVE  ServerOK(server')
  BY <1>1, <1>2, SetQueueFacts DEF Exists
<1>3. ASSUME NEW n, server' = DeleteQueue(server, n)
      PROVE  ServerOK(server')
  BY <1>1, <1>3, DeleteQueueFacts
<1>4. ASSUME NEW n, Exists(server, n), server' = [server EXCEPT !.default = n]
      PROVE  ServerOK(server')
  BY <1>1, <1>4, SetDefaultFacts DEF Exists
<1>5. ASSUME NEW n \in Printers, NEW q \in Queue, server' = AddQueue(server, n, q)
      PROVE  ServerOK(server')
  BY <1>1, <1>5, AddQueueFacts
<1>6. Quiet => ServerOK(server')
  BY <1>1, QuietSteps
<1>7. CASE PrinterDisable
  <2> DEFINE b == ~Current(panel).paused
  <2>1. InField("paused", b)
    BY DEF InField
  <2> HIDE DEF b
  <2>2. \/ server' = server
        \/ Exists(server, CurrentName(panel))
           /\ server' = SetQueue(server, CurrentName(panel), "paused", b)
    BY <1>7 DEF PrinterDisable, Answered, ServerBecomes, b
  <2> QED
    BY <1>1, <1>2, <2>1, <2>2
<1>8. CASE PrinterSetDefault
  <2>1. \/ server' = server
        \/ Exists(server, CurrentName(panel))
           /\ server' = [server EXCEPT !.default = CurrentName(panel)]
    BY <1>8 DEF PrinterSetDefault, Answered, ServerBecomes
  <2> QED
    BY <1>1, <1>4, <2>1
<1>9. CASE PrinterRemove
  <2>1. server' = server \/ server' = DeleteQueue(server, CurrentName(panel))
    BY <1>9 DEF PrinterRemove, ServerBecomes
  <2> QED
    BY <1>1, <1>3, <2>1
<1>10. CASE RenameStopAccepting
  <2>1. PICK ok \in BOOLEAN : RenameRequest(rename.old, ok, SetQueue(server, rename.old, "accepting", FALSE))
    BY <1>10 DEF RenameStopAccepting
  <2>2. InField("accepting", FALSE)
    BY DEF InField
  <2>3. \/ server' = server
        \/ /\ Exists(server, rename.old)
           /\ server' = SetQueue(server, rename.old, "accepting", FALSE)
    BY <2>1, RequestServer, Zenon
  <2> QED
    BY <1>1, <1>2, <2>2, <2>3
<1>11. CASE RenameAdd
  <2>1. \/ server' = server
        \/ server' = AddQueue(server, rename.new, NewQueue)
    BY <1>11 DEF RenameAdd, ServerBecomes
  <2>2. rename.new \in Printers
    BY <1>1, <1>11 DEF RenameAdd, RenameAt, RenameOK
  <2> QED
    BY <1>1, <1>5, <2>1, <2>2, QueuesAdded
<1>12. CASE RenameSetAccepting
  <2>1. PICK ok \in BOOLEAN :
          RenameRequest(rename.new, ok, SetQueue(server, rename.new, "accepting", rename.accepting))
    BY <1>12 DEF RenameSetAccepting
  <2>2. InField("accepting", rename.accepting)
    BY <1>1 DEF InField, RenameOK
  <2> QED
    BY <1>1, <1>2, <2>1, <2>2, RequestServer
<1>13. CASE RenameSetEnabled
  <2>1. PICK ok \in BOOLEAN :
          RenameRequest(rename.new, ok, SetQueue(server, rename.new, "paused", rename.paused))
    BY <1>13 DEF RenameSetEnabled
  <2>2. InField("paused", rename.paused)
    BY <1>1 DEF InField, RenameOK
  <2> QED
    BY <1>1, <1>2, <2>1, <2>2, RequestServer
<1>14. CASE RenameSetDefault
  <2>1. PICK ok \in BOOLEAN : RenameRequest(rename.new, ok, [server EXCEPT !.default = rename.new])
    BY <1>14 DEF RenameSetDefault
  <2> QED
    BY <1>1, <1>4, <2>1, RequestServer
<1>15. CASE RenameDelete
  <2>1. PICK ok \in BOOLEAN : RenameRequest(rename.old, ok, DeleteQueue(server, rename.old))
    BY <1>15 DEF RenameDelete
  <2>2. server' = server \/ server' = DeleteQueue(server, rename.old)
    BY <2>1, RequestServer, Zenon
  <2> QED
    BY <1>1, <1>3, <2>2
<1>16. CASE RenameReopen
  <2>1. PICK ok \in BOOLEAN :
          RenameRequest(rename.old, ok, SetQueue(server, rename.old, "accepting", rename.accepting))
    BY <1>16 DEF RenameReopen
  <2>2. InField("accepting", rename.accepting)
    BY <1>1 DEF InField, RenameOK
  <2> QED
    BY <1>1, <1>2, <2>1, <2>2, RequestServer
<1>17. CASE AdditionCreates
  <2>1. panel.new_printer_name \in Printers
    BY <1>17 DEF AdditionCreates, PanelInv, ListPart
  <2>2. server' = AddQueue(server, panel.new_printer_name,
                           [NewQueue EXCEPT !.paused = FALSE, !.accepting = TRUE])
    BY <1>17, Zenon DEF AdditionCreates, ServerBecomes
  <2> QED
    BY <1>5, <2>1, <2>2, QueuesAdded
<1>18. ASSUME NEW n \in Printers, OtherAdds(n) PROVE ServerOK(server')
  <2>1. server' = AddQueue(server, n, [NewQueue EXCEPT !.paused = FALSE, !.accepting = TRUE])
    BY <1>18, Zenon DEF OtherAdds, OtherChange, ServerBecomes
  <2> QED
    BY <1>5, <2>1, QueuesAdded
<1>19. ASSUME NEW n, OtherDeletes(n) PROVE ServerOK(server')
  BY <1>3, <1>19 DEF OtherDeletes, OtherChange, ServerBecomes
<1>20. ASSUME NEW n, OtherPauses(n) PROVE ServerOK(server')
  <2> DEFINE b == ~server.queues[n].paused
  <2>1. InField("paused", b)
    BY DEF InField
  <2>2. Exists(server, n) /\ server' = SetQueue(server, n, "paused", b)
    BY <1>20, Zenon DEF OtherPauses, OtherChange, ServerBecomes
  <2> HIDE DEF b
  <2> QED
    BY <1>2, <2>1, <2>2
<1>21. ASSUME NEW n, OtherSetsDefault(n) PROVE ServerOK(server')
  BY <1>4, <1>21, Zenon DEF OtherSetsDefault, OtherChange, ServerBecomes
<1>22. ASSUME NEW n, NEW b \in BOOLEAN, OtherSetsAccepting(n, b) PROVE ServerOK(server')
  <2>1. InField("accepting", b)
    BY DEF InField
  <2>2. Exists(server, n) /\ server' = SetQueue(server, n, "accepting", b)
    BY <1>22, Zenon DEF OtherSetsAccepting, OtherChange, ServerBecomes
  <2> QED
    BY <1>2, <2>1, <2>2
<1>23. ASSUME NEW n, JobCreated(n) PROVE ServerOK(server')
  <2>1. /\ Exists(server, n) /\ server.queues[n].jobs < MaxJobs
        /\ server' = [SetQueue(server, n, "jobs", server.queues[n].jobs + 1) EXCEPT !.last = n]
    BY <1>23, Zenon DEF JobCreated, OtherChange, ServerBecomes
  <2> DEFINE t == SetQueue(server, n, "jobs", server.queues[n].jobs + 1)
  <2>2. server.queues[n] \in Queue
    BY <1>1, <2>1 DEF Exists, ServerOK
  <2>3. InField("jobs", server.queues[n].jobs + 1)
    BY <2>1, <2>2, PrintersAssumption DEF InField, Queue
  <2>4. ServerOK(t)
    BY <1>1, <2>1, <2>3, SetQueueFacts DEF Exists
  <2> HIDE DEF t
  <2> QED
    BY <2>1, <2>4 DEF ServerOK, t
<1>24. ASSUME NEW n, JobCompleted(n) PROVE ServerOK(server')
  <2>1. /\ Exists(server, n) /\ server.queues[n].jobs > 0
        /\ server' = SetQueue(server, n, "jobs", server.queues[n].jobs - 1)
    BY <1>24, Zenon DEF JobCompleted, OtherChange, ServerBecomes
  <2>2. server.queues[n] \in Queue
    BY <1>1, <2>1 DEF Exists, ServerOK
  <2>3. InField("jobs", server.queues[n].jobs - 1)
    BY <2>1, <2>2, PrintersAssumption DEF InField, Queue
  <2> QED
    BY <1>2, <2>1, <2>3
<1>25. CASE CupsStopsOrStarts
  <2>1. server' = [server EXCEPT !.up = ~server.up]
    BY <1>25 DEF CupsStopsOrStarts, OtherChange, ServerBecomes
  <2> QED
    BY <1>1, <2>1 DEF ServerOK
<1>26. Others => ServerOK(server')
  BY <1>18, <1>19, <1>20, <1>21, <1>22, <1>23, <1>24, <1>25 DEF Others
<1>27. User => ServerOK(server')
  BY <1>6, <1>7, <1>8, <1>9 DEF User, Quiet
<1>28. Rename => ServerOK(server')
  BY <1>6, <1>10, <1>11, <1>12, <1>13, <1>14, <1>15, <1>16 DEF Rename, Quiet
<1>29. Start \/ MainLoop \/ Addition => ServerOK(server')
  BY <1>6, <1>17 DEF MainLoop, Addition, Quiet
<1> QED
  BY <1>26, <1>27, <1>28, <1>29 DEF Next

\* Changes of what the list is not made of, after which the place of the model may differ
LEMMA SensitiveList ==
  ASSUME NEW p, ListOK(p), NEW b, DOMAIN b = PanelFields, SameList(p, b),
         b.new_printer_name = p.new_printer_name, NEW q, q = UpdateSensitivity(b)
  PROVE  ListOK(q) /\ SameRequests(b, q) /\ SameList(b, q) /\ SameList(p, q)
<1>1. /\ DOMAIN q = PanelFields /\ SameRequests(b, q) /\ SameList(b, q)
      /\ q.model_page = ModelPage(q)
  BY SensitivityFacts
<1>2. SameList(p, q)
  BY <1>1 DEF SameList, SameRows
<1>3. q.new_printer_name = p.new_printer_name
  BY <1>1 DEF SameRequests
<1> QED
  BY <1>1, <1>2, <1>3, ListKept

\* ... and of what the place of the model does not depend on either
LEMMA SameListOK ==
  ASSUME NEW p, ListOK(p), NEW q, DOMAIN q = PanelFields, SameList(p, q),
         q.new_printer_name = p.new_printer_name, q.model_page = p.model_page,
         q.driver_change_list = p.driver_change_list, q.is_authorized = p.is_authorized,
         q.getting_ppd_names = p.getting_ppd_names
  PROVE  ListOK(q)
<1>1. ModelPage(q) = ModelPage(p)
  BY SameModelPage DEF SameList, SameRows
<1> QED
  BY <1>1, ListKept DEF ListOK

LEMMA CurrentNamed ==
  ASSUME NEW p, ListOK(p)
  PROVE  /\ CurrentName(p) \in Printers \cup {NoPrinter}
         /\ (CurrentName(p) # NoPrinter) = PrinterSelected(p)
<1>1. p.dests \in Seq(Dest)
  BY DEF ListOK, ListMade, InOrder
<1>2. p.current_dest \in Int
  <2>1. CASE p.selected = NoRow
    BY <2>1 DEF ListOK, SelectionOK
  <2>2. CASE p.selected # NoRow
    <3>1. p.selected \in DOMAIN p.rows /\ p.current_dest = p.rows[p.selected].id
      BY <2>2 DEF ListOK, SelectionOK
    <3>2. p.rows[p.selected] \in Row
      BY <3>1, RowNamed DEF ListOK, ListMade
    <3> QED
      BY <3>1, <3>2 DEF Row
  <2> QED
    BY <2>1, <2>2
<1>3. CASE PrinterSelected(p)
  <2>1. p.current_dest + 1 \in DOMAIN p.dests
    BY <1>1, <1>2, <1>3 DEF PrinterSelected
  <2>2. p.dests[p.current_dest + 1].name \in Printers
    <3>1. p.dests[p.current_dest + 1] \in Dest
      BY <1>1, <2>1
    <3> QED
      BY <3>1 DEF Dest
  <2>3. CurrentName(p) = p.dests[p.current_dest + 1].name
    BY <1>3 DEF CurrentName, Current
  <2> QED
    BY <1>3, <2>2, <2>3, PrintersAssumption
<1>4. CASE ~PrinterSelected(p)
  BY <1>4 DEF CurrentName, PrinterSelected
<1> QED
  BY <1>3, <1>4

LEMMA ActualizedPart ==
  ASSUME NEW s, ServerOK(s), NEW p, DOMAIN p = PanelFields, DOMAIN p.shown = ShownFields,
         p.page \in Pages, p.new_printer_name \in Names, p.loaded # "no",
         p.adding = "adding" => p.new_printer_name \in Printers,
         NEW q, q = ActualizePrintersList(p, s)
  PROVE  ListPart(q) /\ q.loaded = p.loaded
<1>1. ListOK(q) /\ SameRequests(p, q)
  BY ActualizeFacts
<1> QED
  BY <1>1 DEF ListPart, SameRequests

FromGetPpdNames(b, q) == \E name, c, f : q = GetPpdNames(b, name, c, f)

\* get_ppd_names_cb; the fields of the menu are not told apart here.
LEMMA GetPpdNamesList ==
  ASSUME NEW p, ListOK(p), NEW b, DOMAIN b = PanelFields, SameList(p, b),
         b.new_printer_name = p.new_printer_name,
         NEW q, FromGetPpdNames(b, q)
  PROVE  /\ ListOK(q) /\ SameList(p, q) /\ q.getting_ppd_names = FALSE
         /\ q.driver_change_list = b.driver_change_list /\ q.loaded = b.loaded
         /\ q.adding = b.adding /\ q.new_printer_name = b.new_printer_name
<1> PICK name, cancelled, found : q = GetPpdNames(b, name, cancelled, found)
  BY DEF FromGetPpdNames
<1> DEFINE known == IF cancelled \/ name \in DOMAIN b.preferred_drivers THEN b.preferred_drivers
                    ELSE With(b.preferred_drivers, name, found)
           offers == name \in DOMAIN known /\ known[name]
           c == [b EXCEPT !.getting_ppd_names = FALSE, !.preferred_drivers = known,
                          !.popup_menu.offers = @ \/ offers,
                          !.popup_menu.informal = IF offers THEN "hidden" ELSE "not found"]
<1>1. q = UpdateSensitivity(c)
  BY Zenon DEF GetPpdNames
<1> HIDE DEF known, offers
<1>2. /\ DOMAIN c = PanelFields /\ SameList(b, c) /\ c.getting_ppd_names = FALSE
      /\ c.driver_change_list = b.driver_change_list /\ c.loaded = b.loaded
      /\ c.adding = b.adding /\ c.new_printer_name = b.new_printer_name
  BY DEF PanelFields, SameList, SameRows
<1> HIDE DEF c
<1>3. SameList(p, c) /\ c.new_printer_name = p.new_printer_name
  BY <1>2 DEF SameList, SameRows
<1>4. ListOK(q) /\ SameRequests(c, q) /\ SameList(c, q) /\ SameList(p, q)
  BY <1>1, <1>2, <1>3, SensitiveList
<1> QED
  BY <1>2, <1>4 DEF SameRequests

LEMMA RemoveAtType ==
  ASSUME NEW T, NEW s \in Seq(T), NEW i \in DOMAIN s
  PROVE  RemoveAt(s, i) \in Seq(T)
<1> DEFINE a == SubSeq(s, 1, i - 1)
           c == SubSeq(s, i + 1, Len(s))
<1>1. a \in Seq(T) /\ c \in Seq(T)
  BY SubSeqProperties
<1>2. RemoveAt(s, i) = a \o c
  BY DEF RemoveAt
<1> HIDE DEF a, c
<1> QED
  BY <1>1, <1>2, ConcatProperties

\* The list after a step; the rename's record keeps its types, too.
LEMMA ListStep ==
  ASSUME PanelInv, Next
  PROVE  ListPart(panel') /\ (panel.loaded # "no" => panel'.loaded # "no")
<1> USE DEF DriverFrame, RenameFrame, AdditionFrame
<1> DEFINE Good == ListPart(panel') /\ (panel.loaded # "no" => panel'.loaded # "no")
<1> SUFFICES Good
  OBVIOUS
<1>1. /\ ServerOK(server) /\ ServerOK(server') /\ ListPart(panel)
      /\ panel.loaded # "no" => ListOK(panel)
      /\ panel.adding = "adding" => panel.new_printer_name \in Printers
      /\ rename.pc # "idle" => panel.loaded # "no"
  BY ServerStep DEF PanelInv, ListPart
<1>2. /\ DOMAIN panel = PanelFields /\ DOMAIN panel.shown = ShownFields
      /\ panel.page \in Pages /\ panel.new_printer_name \in Names
  BY PanelFacts
<1>3. ASSUME panel' = panel PROVE Good
  BY <1>1, <1>3
<1>4. ASSUME panel.loaded # "no", panel' = ActualizePrintersList(panel, server') PROVE Good
  BY <1>1, <1>2, <1>4, ActualizedPart
<1>5. ASSUME NEW b, panel.loaded # "no", DOMAIN b = PanelFields, SameList(panel, b),
             b.new_printer_name = panel.new_printer_name, b.loaded = panel.loaded,
             b.adding = panel.adding, panel' = UpdateSensitivity(b)
      PROVE  Good
  <2>1. ListOK(panel') /\ SameRequests(b, panel')
    BY <1>1, <1>5, SensitiveList
  <2> QED
    BY <1>1, <1>5, <2>1 DEF SameRequests, ListPart
<1>6. ASSUME panel.loaded # "no", DOMAIN panel' = PanelFields, SameList(panel, panel'),
             panel'.new_printer_name = panel.new_printer_name,
             panel'.model_page = panel.model_page,
             panel'.driver_change_list = panel.driver_change_list,
             panel'.is_authorized = panel.is_authorized,
             panel'.getting_ppd_names = panel.getting_ppd_names,
             panel'.loaded # "no", panel'.adding # "adding" \/ panel'.adding = panel.adding
      PROVE  Good
  <2>1. ListOK(panel')
    BY <1>1, <1>6, SameListOK
  <2> QED
    BY <1>1, <1>6, <2>1 DEF ListPart
<1>7. Runs => panel.loaded # "no"
  BY DEF Runs
<1>8. UserActs => panel.loaded # "no"
  BY DEF UserActs, Runs
<1> HIDE DEF Good
<1>9. CASE PopulatePrintersList
  <2> DEFINE q == ActualizePrintersList(panel, server)
  <2>1. ListOK(q) /\ SameRequests(panel, q)
    BY <1>1, <1>2, ActualizeFacts
  <2>2. panel' = [q EXCEPT !.loaded = "populated"] /\ panel = NewPanel
    BY <1>1, <1>9 DEF PopulatePrintersList, ListPart
  <2> HIDE DEF q
  <2>3. DOMAIN q = PanelFields
    BY <2>1 DEF ListOK, ListMade
  <2>4. /\ DOMAIN panel' = PanelFields /\ SameList(q, panel')
        /\ panel'.new_printer_name = q.new_printer_name /\ panel'.model_page = q.model_page
        /\ panel'.driver_change_list = q.driver_change_list
        /\ panel'.is_authorized = q.is_authorized
        /\ panel'.getting_ppd_names = q.getting_ppd_names
        /\ panel'.loaded = "populated" /\ panel'.adding = q.adding
    BY <2>2, <2>3 DEF PanelFields, SameList, SameRows
  <2>5. ListOK(panel')
    BY <2>1, <2>4, SameListOK
  <2>6. panel'.adding = "none"
    BY <2>1, <2>2, <2>4 DEF SameRequests, NewPanel
  <2> QED
    BY <2>4, <2>5, <2>6 DEF ListPart, Good
<1>10. CASE AttachToCupsNotifier \/ StartStatusCheck
  <2>1. panel.loaded # "no" /\ \E l \in {"attached", "done"} : panel' = [panel EXCEPT !.loaded = l]
    BY <1>10 DEF AttachToCupsNotifier, StartStatusCheck
  <2> QED
    BY <1>2, <1>6, <2>1 DEF PanelFields, SameList, SameRows
<1>11. CASE CupsStatusCheck \/ PrinterLocationEdit
  <2>1. panel.loaded # "no" /\ panel' = ActualizePrintersList(panel, server')
    BY <1>7, <1>8, <1>11 DEF CupsStatusCheck, PrinterLocationEdit, Actualized
  <2> QED
    BY <1>4, <2>1
<1>12. CASE OnCupsNotification
  <2>1. panel.loaded # "no" /\ server' = server
    BY <1>7, <1>12 DEF OnCupsNotification
  <2>2. \/ panel' = ActualizePrintersList(panel, server)
        \/ panel' = UpdateJobsCount(panel, server)
        \/ panel' = panel
    BY <1>12 DEF OnCupsNotification, Actualized
  <2>3. CASE panel' = UpdateJobsCount(panel, server)
    <3> DEFINE n == IF PrinterSelected(panel) THEN JobsOf(server, CurrentName(panel)) ELSE -1
    <3>1. panel' = [panel EXCEPT !.num_jobs = n]
      BY <2>3 DEF UpdateJobsCount
    <3> HIDE DEF n
    <3>2. DOMAIN panel' = PanelFields /\ ListOK(panel)
          /\ panel'.dests = panel.dests /\ panel'.rows = panel.rows
          /\ panel'.selected = panel.selected /\ panel'.current_dest = panel.current_dest
          /\ panel'.shown = panel.shown /\ panel'.page = panel.page
          /\ SameRequests(panel, panel') /\ panel'.model_page = panel.model_page
      BY <1>1, <1>2, <2>1, <3>1 DEF PanelFields, SameRequests
    <3>3. ModelPage(panel') = ModelPage(panel)
      BY <3>2, SameModelPage DEF SameRequests
    <3>4. ListMade(panel')
      BY <3>2 DEF ListOK, ListMade, SameRequests
    <3>5. SelectionOK(panel')
      BY <3>2 DEF ListOK, SelectionOK, PrinterSelected, Current
    <3>6. ListOK(panel')
      BY <3>2, <3>3, <3>4, <3>5 DEF ListOK
    <3> QED
      BY <1>1, <2>1, <3>2, <3>6 DEF ListPart, SameRequests, Good
  <2> QED
    BY <1>3, <1>4, <2>1, <2>2, <2>3
<1>13. CASE OnPermissionChanged
  <2> DEFINE a == ~panel.is_authorized
           b == [panel EXCEPT !.is_authorized = a]
  <2>1. panel.loaded # "no" /\ panel' = UpdateSensitivity(b)
    BY <1>7, <1>13 DEF OnPermissionChanged
  <2> HIDE DEF a
  <2>2. /\ DOMAIN b = PanelFields /\ SameList(panel, b) /\ b.loaded = panel.loaded
        /\ b.new_printer_name = panel.new_printer_name /\ b.adding = panel.adding
    BY <1>2 DEF PanelFields, SameList, SameRows
  <2> HIDE DEF b
  <2> QED
    BY <1>5, <2>1, <2>2
<1>14. ASSUME NEW found, SearchAnswered(found) PROVE Good
  <2>1. /\ panel.loaded # "no"
        /\ panel' = GetPpdNames(panel, search.printer, search.cancelled, found)
    BY <1>7, <1>14 DEF SearchAnswered
  <2>2. SameList(panel, panel) /\ panel.new_printer_name = panel.new_printer_name
    BY DEF SameList, SameRows
  <2>3. ListOK(panel)
    BY <1>1, <2>1
  <2>4. FromGetPpdNames(panel, panel')
    BY <2>1, Zenon DEF FromGetPpdNames
  <2>5. /\ ListOK(panel') /\ panel'.loaded = panel.loaded /\ panel'.adding = panel.adding
        /\ panel'.new_printer_name = panel.new_printer_name
    BY ZenonT(60), <1>2, <2>2, <2>3, <2>4, GetPpdNamesList
  <2> QED
    BY <1>1, <2>1, <2>5 DEF ListPart, Good
<1>15. ASSUME NEW i \in DOMAIN calls, NEW ok \in BOOLEAN, SetPpdCallback(i, ok) PROVE Good
  <2> DEFINE l == RemoveFirst(panel.driver_change_list, calls[i])
             b == [panel EXCEPT !.driver_change_list = l]
             p == UpdateSensitivity(b)
  <2>1. /\ panel.loaded # "no" /\ server' = server
        /\ panel' = p \/ panel' = ActualizePrintersList(p, server)
    BY <1>7, <1>15 DEF SetPpdCallback, Actualized
  <2> HIDE DEF l
  <2>2. /\ DOMAIN b = PanelFields /\ SameList(panel, b) /\ b.loaded = panel.loaded
        /\ b.new_printer_name = panel.new_printer_name /\ b.adding = panel.adding
    BY <1>2 DEF PanelFields, SameList, SameRows
  <2> HIDE DEF b
  <2>3. ListOK(p) /\ SameRequests(b, p)
    BY <1>1, <2>1, <2>2, SensitiveList
  <2>4. CASE panel' = p
    BY <1>5, <2>1, <2>2, <2>4
  <2>5. CASE panel' = ActualizePrintersList(p, server)
    <3>1. /\ DOMAIN p = PanelFields /\ DOMAIN p.shown = ShownFields /\ p.page \in Pages
          /\ p.new_printer_name \in Names
      BY <2>3 DEF ListOK, ListMade
    <3>2. p.loaded # "no" /\ (p.adding = "adding" => p.new_printer_name \in Printers)
      BY <1>1, <2>1, <2>2, <2>3 DEF SameRequests
    <3> HIDE DEF p
    <3> QED
      BY <1>1, <2>5, <3>1, <3>2, ActualizedPart DEF Good
  <2> QED
    BY <2>1, <2>4, <2>5
<1>16. ASSUME NEW i \in DOMAIN panel.rows, SelectRow(i) PROVE Good
  <2>1. /\ panel.loaded # "no" /\ panel.rows[i].name # NoPrinter
        /\ panel' = SelectionChanged(panel, server, i)
    BY <1>8, <1>16 DEF SelectRow
  <2>2. ListOK(panel') /\ SameRequests(panel, panel')
    BY <1>1, <2>1, SelectionFacts DEF ListOK
  <2> QED
    BY <1>1, <2>1, <2>2 DEF ListPart, SameRequests, Good
\* The user's other actions and the driver's
<1>17. CASE PrinterDisable
  <2>1. panel.loaded # "no"
    BY <1>8, <1>17 DEF PrinterDisable
  <2>2. \/ panel' = ActualizePrintersList(panel, server')
        \/ panel' = [panel EXCEPT !.shown.enabled = ~panel.shown.enabled]
    BY <1>17 DEF PrinterDisable, Actualized, ServerBecomes
  <2>3. CASE panel' = [panel EXCEPT !.shown.enabled = ~panel.shown.enabled]
    <3>1. /\ DOMAIN panel' = PanelFields /\ SameRows(panel, panel') /\ panel'.page = panel.page
          /\ SameRequests(panel, panel') /\ panel'.model_page = panel.model_page
          /\ panel'.shown = [panel.shown EXCEPT !.enabled = ~panel.shown.enabled]
      BY <1>2, <2>3 DEF PanelFields, SameRows, SameRequests
    <3>2. DOMAIN panel'.shown = ShownFields /\ panel'.shown.name = panel.shown.name
          /\ panel'.shown.is_default = panel.shown.is_default
      BY <1>2, <3>1 DEF ShownFields
    <3>3. ModelPage(panel') = ModelPage(panel)
      BY <3>1, SameModelPage DEF SameRows, SameRequests
    <3>4. panel'.new_printer_name = panel.new_printer_name /\ panel'.model_page = ModelPage(panel')
      BY <1>1, <2>1, <3>1, <3>3 DEF SameRequests, ListOK
    <3>5. ListOK(panel')
      BY <1>1, <2>1, <3>1, <3>2, <3>4, ShownKept
    <3> QED
      BY <1>1, <2>1, <3>1, <3>5 DEF ListPart, SameRequests, Good
  <2> QED
    BY <1>4, <2>1, <2>2, <2>3
<1>18. CASE PrinterSetDefault
  <2>1. panel.loaded # "no"
    BY <1>8, <1>18 DEF PrinterSetDefault
  \* The default button is shown pressed or not while no printer is current.
  <2>2. ASSUME NEW p, ListPart(p), p.loaded # "no", ~PrinterSelected(p), NEW d,
               panel' = [p EXCEPT !.shown.is_default = d] \/ panel' = [p EXCEPT !.crashed = TRUE]
        PROVE  Good
    <3>1. ListOK(p) /\ DOMAIN p = PanelFields /\ DOMAIN p.shown = ShownFields
      BY <2>2 DEF ListPart, ListOK, ListMade
    <3>2. /\ DOMAIN panel' = PanelFields /\ SameRows(p, panel') /\ panel'.page = p.page
          /\ panel'.loaded = p.loaded /\ panel'.new_printer_name = p.new_printer_name
          /\ panel'.driver_change_list = p.driver_change_list
          /\ panel'.is_authorized = p.is_authorized /\ panel'.adding = p.adding
          /\ panel'.getting_ppd_names = p.getting_ppd_names /\ panel'.model_page = p.model_page
          /\ panel'.shown = [p.shown EXCEPT !.is_default = d] \/ panel'.shown = p.shown
      BY <2>2, <3>1 DEF PanelFields, SameRows
    <3>3. DOMAIN panel'.shown = ShownFields /\ panel'.shown.name = p.shown.name
      BY <3>1, <3>2 DEF ShownFields
    <3>4. ModelPage(panel') = ModelPage(p)
      BY <3>2, SameModelPage DEF SameRows
    <3>5. ListOK(panel')
      <4>1. panel'.model_page = ModelPage(panel')
        BY <3>1, <3>2, <3>4 DEF ListOK
      <4> QED
        BY <2>2, <3>1, <3>2, <3>3, <4>1, ShownKept
    <3> QED
      BY <2>2, <3>2, <3>5 DEF ListPart, Good
  <2>3. CASE CurrentName(panel) = NoPrinter
    <3> DEFINE d == ~panel.shown.is_default
    <3>1. panel' = [panel EXCEPT !.shown.is_default = d]
      BY <1>18, <2>3 DEF PrinterSetDefault
    <3> HIDE DEF d
    <3>2. ~PrinterSelected(panel)
      BY <1>1, <2>1, <2>3, CurrentNamed
    <3> QED
      BY <1>1, <2>1, <2>2, <3>1, <3>2
  <2>4. CASE CurrentName(panel) # NoPrinter
    <3> DEFINE p == ActualizePrintersList(panel, server')
    <3>1. \/ panel' = p
          \/ /\ ~PrinterSelected(p)
             /\ \/ panel' = [p EXCEPT !.crashed = TRUE]
                \/ \E b \in BOOLEAN : panel' = [p EXCEPT !.shown.is_default = b]
      <4>1. PICK ok \in BOOLEAN :
              LET after == IF ok THEN [server EXCEPT !.default = CurrentName(panel)] ELSE server
                  q == ActualizePrintersList(panel, after)
              IN /\ ServerBecomes(after, PrinterSignal)
                 /\ \/ PrinterSelected(q) /\ panel' = q
                    \/ ~PrinterSelected(q) /\ panel' = [q EXCEPT !.crashed = TRUE]
                    \/ /\ ~PrinterSelected(q) /\ q.dests # <<>>
                       /\ \E b \in BOOLEAN : panel' = [q EXCEPT !.shown.is_default = b]
        BY <1>18, <2>4, Zenon DEF PrinterSetDefault
      <4> DEFINE after == IF ok THEN [server EXCEPT !.default = CurrentName(panel)] ELSE server
      <4>2. server' = after
        BY <4>1 DEF ServerBecomes
      <4> HIDE DEF after
      <4> QED
        BY <4>1, <4>2, Zenon DEF after
    <3>2. ListPart(p) /\ p.loaded = panel.loaded
      BY <1>1, <1>2, <2>1, ActualizedPart
    <3>3. CASE panel' = p
      BY <1>4, <2>1, <3>3
    <3> HIDE DEF p
    <3> QED
      BY <2>1, <2>2, <3>1, <3>2, <3>3
  <2> QED
    BY <2>3, <2>4
<1>19. CASE PrinterRemove
  <2>1. panel.loaded # "no"
    BY <1>8, <1>19 DEF PrinterRemove
  <2>2. panel' = ActualizePrintersList(panel, server') \/ panel' = panel
    BY <1>19 DEF PrinterRemove, Actualized, ServerBecomes
  <2> QED
    BY <1>3, <1>4, <2>1, <2>2
<1>20. CASE PopupModelMenu
  <2> DEFINE name == CurrentName(panel)
             menu == [open |-> TRUE, printer |-> name, offers |-> FALSE, informal |-> "searching"]
             p == [panel EXCEPT !.popup_menu = menu]
             b == [p EXCEPT !.getting_ppd_names = TRUE]
  <2>1. /\ panel.loaded # "no"
        /\ panel' = UpdateSensitivity(b) \/ panel' = p \/ panel' = GetPpdNames(p, name, FALSE, FALSE)
    BY <1>8, <1>20, Zenon DEF PopupModelMenu
  <2> HIDE DEF name, menu
  <2>2. /\ DOMAIN p = PanelFields /\ SameList(panel, p) /\ p.loaded = panel.loaded
        /\ p.new_printer_name = panel.new_printer_name /\ p.adding = panel.adding
        /\ p.model_page = panel.model_page /\ p.driver_change_list = panel.driver_change_list
        /\ p.is_authorized = panel.is_authorized /\ p.getting_ppd_names = panel.getting_ppd_names
    BY <1>2 DEF PanelFields, SameList, SameRows
  <2>3. /\ DOMAIN b = PanelFields /\ SameList(panel, b) /\ b.loaded = panel.loaded
        /\ b.new_printer_name = panel.new_printer_name /\ b.adding = panel.adding
    BY <1>2 DEF PanelFields, SameList, SameRows
  <2> HIDE DEF p, b
  <2>4. CASE panel' = GetPpdNames(p, name, FALSE, FALSE)
    <3>2. ListOK(panel)
      BY <1>1, <2>1
    <3>3. FromGetPpdNames(p, panel')
      BY <2>4, Zenon DEF FromGetPpdNames
    <3>1. /\ ListOK(panel') /\ panel'.loaded = p.loaded /\ panel'.adding = p.adding
          /\ panel'.new_printer_name = p.new_printer_name
      BY ZenonT(60), <2>2, <3>2, <3>3, GetPpdNamesList
    <3> QED
      BY <1>1, <2>1, <2>2, <3>1 DEF ListPart, Good
  <2>5. CASE panel' = UpdateSensitivity(b)
    BY <1>5, <2>1, <2>3, <2>5
  <2>6. CASE panel' = p
    BY <1>6, <2>1, <2>2, <2>6
  <2> QED
    BY <2>1, <2>4, <2>5, <2>6
<1>21. CASE CloseMenu \/ OpenChooser
  <2>1. /\ panel.loaded # "no"
        /\ \/ panel' = [panel EXCEPT !.popup_menu.open = FALSE]
           \/ panel' = [[panel EXCEPT !.popup_menu.open = FALSE] EXCEPT !.chooser = TRUE]
    BY <1>7, <1>21 DEF CloseMenu, OpenChooser, Closed
  <2>2. CASE panel' = [panel EXCEPT !.popup_menu.open = FALSE]
    BY <1>2, <1>6, <2>1, <2>2 DEF PanelFields, SameList, SameRows
  <2>3. CASE panel' = [[panel EXCEPT !.popup_menu.open = FALSE] EXCEPT !.chooser = TRUE]
    <3> DEFINE menu == [panel.popup_menu EXCEPT !.open = FALSE]
    <3>1. panel' = [[panel EXCEPT !.popup_menu = menu] EXCEPT !.chooser = TRUE]
      BY <2>3
    <3> HIDE DEF menu
    <3> QED
      BY <1>2, <1>6, <2>1, <3>1 DEF PanelFields, SameList, SameRows
  <2> QED
    BY <2>1, <2>2, <2>3
<1>22. ASSUME NEW p, p = [panel EXCEPT !.popup_menu.open = FALSE] \/ p = [panel EXCEPT !.chooser = FALSE],
              panel.loaded # "no", SetPpd(p)
       PROVE  Good
  <2>1. /\ DOMAIN p = PanelFields /\ SameList(panel, p) /\ p.loaded = panel.loaded
        /\ p.new_printer_name = panel.new_printer_name /\ p.adding = panel.adding
        /\ p.model_page = panel.model_page /\ p.driver_change_list = panel.driver_change_list
        /\ p.is_authorized = panel.is_authorized /\ p.getting_ppd_names = panel.getting_ppd_names
    BY <1>2, <1>22 DEF PanelFields, SameList, SameRows
  <2> DEFINE l == <<CurrentName(p)>> \o p.driver_change_list
             b == [p EXCEPT !.driver_change_list = l]
  <2>2. panel' = p \/ panel' = UpdateSensitivity(b)
    BY <1>22, Zenon DEF SetPpd
  <2> HIDE DEF l
  <2>3. /\ DOMAIN b = PanelFields /\ SameList(panel, b) /\ b.loaded = panel.loaded
        /\ b.new_printer_name = panel.new_printer_name /\ b.adding = panel.adding
    BY <2>1 DEF PanelFields, SameList, SameRows
  <2> HIDE DEF b
  <2> QED
    BY <1>5, <1>6, <1>22, <2>1, <2>2, <2>3
<1>23. CASE SetPpdFromList
  BY <1>7, <1>22, <1>23 DEF SetPpdFromList, Closed
<1>24. ASSUME NEW ok, PpdSelectionDialogResponse(ok) PROVE Good
  <2>1. panel.loaded # "no"
    BY <1>7, <1>24 DEF PpdSelectionDialogResponse
  <2>2. SetPpd([panel EXCEPT !.chooser = FALSE]) \/ panel' = [panel EXCEPT !.chooser = FALSE]
    BY <1>24 DEF PpdSelectionDialogResponse
  <2>3. CASE panel' = [panel EXCEPT !.chooser = FALSE]
    BY <1>2, <1>6, <2>1, <2>3 DEF PanelFields, SameList, SameRows
  <2> QED
    BY <1>22, <2>1, <2>2, <2>3
<1>25. CASE RenameDone
  <2>1. panel.loaded # "no" /\ panel' = ActualizePrintersList(panel, server')
    BY <1>1, <1>25 DEF RenameDone, RenameAt, Actualized
  <2> QED
    BY <1>4, <2>1
<1>26. CASE PrinterAdd
  <2>1. panel.loaded # "no" /\ panel' = [panel EXCEPT !.adding = "search"]
    BY <1>8, <1>26 DEF PrinterAdd
  <2> QED
    BY <1>2, <1>6, <2>1 DEF PanelFields, SameList, SameRows
<1>27. ASSUME NEW p, panel.loaded # "no", DOMAIN p = PanelFields, p.shown = panel.shown,
              p.page = panel.page, p.loaded = panel.loaded, p.new_printer_name \in Names,
              p.adding = "adding" => p.new_printer_name \in Printers,
              panel' = ActualizePrintersList(p, server')
       PROVE  Good
  <2>1. ListPart(panel') /\ panel'.loaded = p.loaded
    BY <1>1, <1>2, <1>27, ActualizedPart
  <2> QED
    BY <1>27, <2>1 DEF Good
<1>28. ASSUME NEW n \in Printers, PreResponse(n) PROVE Good
  <2> DEFINE p == [panel EXCEPT !.adding = "adding", !.new_printer_name = n,
                                !.select_new_printer = TRUE]
  <2>1. panel.loaded # "no" /\ panel' = ActualizePrintersList(p, server')
    BY <1>7, <1>28 DEF PreResponse, Actualized
  <2>2. /\ DOMAIN p = PanelFields /\ p.shown = panel.shown /\ p.page = panel.page
        /\ p.loaded = panel.loaded /\ p.new_printer_name = n /\ n \in Names
    BY <1>2 DEF PanelFields, Names
  <2> HIDE DEF p
  <2> QED
    BY <1>27, <2>1, <2>2
<1>29. CASE NewPrinterDialogResponse
  <2> DEFINE p == [panel EXCEPT !.adding = "none", !.new_printer_name = NoPrinter]
  <2>1. panel.loaded # "no" /\ panel' = ActualizePrintersList(p, server')
    BY <1>7, <1>29 DEF NewPrinterDialogResponse, Actualized
  <2>2. /\ DOMAIN p = PanelFields /\ p.shown = panel.shown /\ p.page = panel.page
        /\ p.loaded = panel.loaded /\ p.new_printer_name \in Names /\ p.adding = "none"
    BY <1>2 DEF PanelFields, Names
  <2> HIDE DEF p
  <2> QED
    BY <1>27, <2>1, <2>2
\* The rest leaves the panel alone.
<1>30. Others => panel' = panel
  BY DEF Others, OtherAdds, OtherDeletes, OtherPauses, OtherSetsDefault, OtherSetsAccepting,
         JobCreated, JobCompleted, CupsStopsOrStarts, OtherChange
<1>31. (RenewSubscription \/ SubscriptionExpires \/ AdditionCreates) => panel' = panel
  BY DEF RenewSubscription, SubscriptionExpires, AdditionCreates
<1>32. (\E n \in Printers \ Discovered : PrinterNameEdit(n)) => panel' = panel
  BY DEF PrinterNameEdit
<1>33. (Rename /\ ~RenameDone) => panel' = panel
  BY DEF Rename, RenameCheck, RenameStopAccepting, RenameRecheck, RenameAdd, RenameVerify,
         RenameSetAccepting, RenameSetEnabled, RenameSetDefault, RenameDelete, RenameReopen,
         RenameRequest
<1>34. Start => Good
  BY <1>9, <1>10 DEF Start
<1>35. MainLoop => Good
  BY <1>3, <1>11, <1>12, <1>13, <1>14, <1>15, <1>31 DEF MainLoop
<1>36. User => Good
  <2>1. (\E i \in DOMAIN panel.rows : SelectRow(i)) => Good
    BY <1>16
  <2>2. (\E n \in Printers \ Discovered : PrinterNameEdit(n)) => Good
    BY <1>3, <1>32
  <2>3. (\E ok \in BOOLEAN : PpdSelectionDialogResponse(ok)) => Good
    BY <1>24
  <2>4. (PrinterDisable \/ PrinterSetDefault \/ PrinterRemove \/ PrinterLocationEdit) => Good
    BY <1>11, <1>17, <1>18, <1>19
  <2>5. (PopupModelMenu \/ CloseMenu \/ SetPpdFromList \/ OpenChooser) => Good
    BY <1>20, <1>21, <1>23
  <2> QED
    BY <2>1, <2>2, <2>3, <2>4, <2>5, Zenon DEF User
<1>37. Rename \/ Addition \/ Others => Good
  <2>1. Rename => Good
    BY <1>3, <1>25, <1>33
  <2>2. (\E n \in Printers \ Discovered : PreResponse(n)) => Good
    BY <1>28
  <2>3. Addition => Good
    BY <1>3, <1>26, <1>29, <1>31, <2>2, Zenon DEF Addition
  <2>4. Others => Good
    BY <1>3, <1>30
  <2> QED
    BY <2>1, <2>3, <2>4
<1> QED
  BY <1>34, <1>35, <1>36, <1>37 DEF Next

LEMMA RenameKept ==
  ASSUME NEW r, RenameOK(r), NEW t, DOMAIN t = RenameFields, r.pc # "idle", t.pc # "idle",
         t.old = r.old, t.new = r.new, t.accepting \in BOOLEAN, t.paused \in BOOLEAN,
         t.closed \in BOOLEAN
  PROVE  RenameOK(t)
<1>1. t # NoRename
  BY DEF NoRename
<1> QED
  BY <1>1 DEF RenameOK

\* What others do may tell only that a printer is open and that jobs came or went.
LEMMA OthersRename ==
  ASSUME RenameOK(rename), Others \/ AdditionCreates
  PROVE  RenameOK(rename') /\ rename'.pc = rename.pc
<1>1. ASSUME NEW n, Opened(n) PROVE RenameOK(rename') /\ rename'.pc = rename.pc
  <2> DEFINE b == rename.closed /\ n # rename.old
  <2>1. rename' = [rename EXCEPT !.closed = b]
    BY <1>1 DEF Opened
  <2>2. CASE rename.pc = "idle"
    <3>1. rename = NoRename /\ b = FALSE
      BY <2>2 DEF RenameOK, NoRename
    <3>2. rename' = NoRename
      BY <2>1, <3>1 DEF NoRename
    <3> QED
      BY <2>2, <3>1, <3>2, NoRenameOK
  <2>3. CASE rename.pc # "idle"
    <3>1. b \in BOOLEAN
      OBVIOUS
    <3> HIDE DEF b
    <3>2. /\ DOMAIN rename' = RenameFields /\ rename'.pc = rename.pc /\ rename'.old = rename.old
          /\ rename'.new = rename.new /\ rename'.accepting = rename.accepting
          /\ rename'.paused = rename.paused /\ rename'.closed = b
      BY <2>1 DEF RenameOK, RenameFields
    <3>3. rename.accepting \in BOOLEAN /\ rename.paused \in BOOLEAN
      BY DEF RenameOK
    <3> QED
      BY <2>3, <3>1, <3>2, <3>3, RenameKept
  <2> QED
    BY <2>2, <2>3
<1>2. ASSUME JobsExcused PROVE RenameOK(rename') /\ rename'.pc = rename.pc
  <2>1. CASE rename.pc = "idle"
    <3>1. rename = NoRename
      BY <2>1 DEF RenameOK
    <3>2. rename' = [rename EXCEPT !.since = 0]
      BY <1>2, <2>1, <3>1 DEF JobsExcused, NoRename
    <3>3. rename' = NoRename
      BY <3>1, <3>2 DEF NoRename
    <3> QED
      BY <2>1, <3>1, <3>3, NoRenameOK
  <2>2. CASE rename.pc # "idle"
    <3>1. /\ DOMAIN rename' = RenameFields /\ rename'.pc = rename.pc /\ rename'.old = rename.old
          /\ rename'.new = rename.new /\ rename'.accepting = rename.accepting
          /\ rename'.paused = rename.paused /\ rename'.closed = rename.closed
      BY <1>2, <2>2 DEF RenameOK, RenameFields, JobsExcused
    <3>2. rename.accepting \in BOOLEAN /\ rename.paused \in BOOLEAN /\ rename.closed \in BOOLEAN
      BY DEF RenameOK
    <3> QED
      BY <2>2, <3>1, <3>2, RenameKept
  <2> QED
    BY <2>1, <2>2
<1>3. CASE AdditionCreates
  BY <1>1, <1>3 DEF AdditionCreates
<1>4. ASSUME NEW n, OtherAdds(n) PROVE RenameOK(rename') /\ rename'.pc = rename.pc
  BY <1>1, <1>4 DEF OtherAdds
<1>5. ASSUME NEW n, NEW b, OtherSetsAccepting(n, b) PROVE RenameOK(rename') /\ rename'.pc = rename.pc
  BY <1>1, <1>5 DEF OtherSetsAccepting
<1>6. ASSUME NEW n, JobCreated(n) \/ JobCompleted(n) PROVE RenameOK(rename') /\ rename'.pc = rename.pc
  BY <1>2, <1>6 DEF JobCreated, JobCompleted
<1>7. ASSUME NEW n, OtherDeletes(n) \/ OtherPauses(n) \/ OtherSetsDefault(n) PROVE rename' = rename
  BY <1>7 DEF OtherDeletes, OtherPauses, OtherSetsDefault
<1>8. CupsStopsOrStarts => rename' = rename
  BY DEF CupsStopsOrStarts
<1>9. CASE Others
  BY <1>4, <1>5, <1>6, <1>7, <1>8, <1>9 DEF Others
<1> QED
  BY <1>3, <1>9

LEMMA RenameStep ==
  ASSUME PanelInv, Next
  PROVE  RenameOK(rename') /\ (rename'.pc # "idle" => panel.loaded # "no")
<1> USE DEF DriverFrame, AdditionFrame
<1> DEFINE Good == RenameOK(rename') /\ (rename'.pc # "idle" => panel.loaded # "no")
<1> SUFFICES Good
  OBVIOUS
<1>1. /\ RenameOK(rename) /\ (rename.pc # "idle" => panel.loaded # "no")
      /\ (panel.loaded # "no" => ListOK(panel))
  BY DEF PanelInv, ListPart
<1>2. rename' = rename => Good
  BY <1>1
<1>3. ASSUME rename.pc # "idle", DOMAIN rename' = RenameFields, rename'.pc # "idle",
             rename'.old = rename.old, rename'.new = rename.new, rename'.accepting \in BOOLEAN,
             rename'.paused \in BOOLEAN, rename'.closed \in BOOLEAN
      PROVE  Good
  BY <1>1, <1>3, RenameKept
<1>4. ASSUME NEW pc, rename.pc # "idle", pc # "idle", rename' = [rename EXCEPT !.pc = pc]
      PROVE  Good
  <2>1. /\ DOMAIN rename' = RenameFields /\ rename'.pc # "idle" /\ rename'.old = rename.old
        /\ rename'.new = rename.new /\ rename'.accepting = rename.accepting
        /\ rename'.paused = rename.paused /\ rename'.closed = rename.closed
    BY <1>1, <1>4 DEF RenameOK, RenameFields
  <2>2. rename.accepting \in BOOLEAN /\ rename.paused \in BOOLEAN /\ rename.closed \in BOOLEAN
    BY <1>1 DEF RenameOK
  <2> HIDE DEF Good
  <2> QED
    BY <1>3, <1>4, <2>1, <2>2
<1>5. Start \/ (Addition /\ ~AdditionCreates) => rename' = rename
  BY DEF Start, PopulatePrintersList, AttachToCupsNotifier, StartStatusCheck, Addition, PrinterAdd,
         NewPrinterDialogResponse, PreResponse
<1>6. MainLoop => rename' = rename
  BY DEF MainLoop, CupsStatusCheck, RenewSubscription, SubscriptionExpires, OnCupsNotification,
         OnPermissionChanged, SearchAnswered, SetPpdCallback
<1>7. User /\ ~(\E n \in Printers \ Discovered : PrinterNameEdit(n)) => rename' = rename
  BY DEF User, SelectRow, PrinterDisable, PrinterSetDefault, PrinterRemove, PrinterLocationEdit,
         PopupModelMenu, CloseMenu, SetPpdFromList, OpenChooser, PpdSelectionDialogResponse
<1>8. Others \/ AdditionCreates => Good
  BY <1>1, OthersRename
<1>9. ASSUME NEW n \in Printers, PrinterNameEdit(n) PROVE Good
  <2>1. /\ panel.loaded # "no"
        /\ rename' = [rename EXCEPT !.pc = "check", !.old = CurrentName(panel), !.new = n]
    BY <1>9 DEF PrinterNameEdit, UserActs, Runs
  <2>2. CurrentName(panel) \in Names
    BY <1>1, <2>1, CurrentNamed DEF Names
  <2>3. /\ DOMAIN rename' = RenameFields /\ rename'.pc = "check" /\ rename'.old = CurrentName(panel)
        /\ rename'.new = n /\ rename'.accepting = rename.accepting
        /\ rename'.paused = rename.paused /\ rename'.closed = rename.closed
    BY <1>1, <2>1 DEF RenameOK, RenameFields
  <2>4. rename' # NoRename
    BY <2>3 DEF NoRename
  <2> QED
    BY <1>1, <2>1, <2>2, <2>3, <2>4 DEF RenameOK
<1> HIDE DEF Good
<1>10. CASE RenameCheck
  <2> DEFINE known == Exists(server, rename.old)
             accepting == known => server.queues[rename.old].accepting
             paused == known /\ server.queues[rename.old].paused
             default == known /\ server.default = rename.old
             pc == IF accepting THEN "stop" ELSE "add"
  <2>1. rename.pc # "idle"
    BY <1>10 DEF RenameCheck, RenameAt
  <2>2. \/ rename' = [rename EXCEPT !.pc = "done"]
        \/ rename' = [rename EXCEPT !.pc = pc, !.accepting = accepting, !.paused = paused,
                        !.is_default = default, !.closed = ~accepting, !.before = server,
                        !.since = changes]
    BY <1>10, Zenon DEF RenameCheck, Goto
  <2>3. accepting \in BOOLEAN /\ paused \in BOOLEAN /\ (~accepting) \in BOOLEAN /\ pc # "idle"
    <3>1. accepting \in BOOLEAN
      OBVIOUS
    <3>2. paused \in BOOLEAN
      OBVIOUS
    <3> HIDE DEF accepting, paused
    <3>3. (~accepting) \in BOOLEAN
      OBVIOUS
    <3>4. pc # "idle"
      OBVIOUS
    <3> QED
      BY <3>1, <3>2, <3>3, <3>4
  <2>4. CASE rename' = [rename EXCEPT !.pc = "done"]
    BY <1>4, <2>1, <2>4
  <2> HIDE DEF known, accepting, paused, default, pc
  <2>5. CASE rename' = [rename EXCEPT !.pc = pc, !.accepting = accepting, !.paused = paused,
                        !.is_default = default, !.closed = ~accepting, !.before = server,
                        !.since = changes]
    <3>1. /\ DOMAIN rename' = RenameFields /\ rename'.pc = pc /\ rename'.old = rename.old
          /\ rename'.new = rename.new /\ rename'.accepting = accepting
          /\ rename'.paused = paused /\ rename'.closed \in BOOLEAN
      BY <1>1, <2>3, <2>5 DEF RenameOK, RenameFields
    <3> QED
      BY <1>3, <2>1, <2>3, <3>1
  <2> QED
    BY <2>2, <2>4, <2>5
<1>11. ASSUME NEW pc, NEW b \in BOOLEAN, rename.pc # "idle", pc # "idle",
              rename' = [rename EXCEPT !.pc = pc, !.closed = b]
       PROVE  Good
  <2>1. /\ DOMAIN rename' = RenameFields /\ rename'.pc # "idle" /\ rename'.old = rename.old
        /\ rename'.new = rename.new /\ rename'.accepting = rename.accepting
        /\ rename'.paused = rename.paused /\ rename'.closed = b
    BY <1>1, <1>11 DEF RenameOK, RenameFields
  <2>2. rename.accepting \in BOOLEAN /\ rename.paused \in BOOLEAN
    BY <1>1 DEF RenameOK
  <2> QED
    BY <1>3, <1>11, <2>1, <2>2
<1>12. CASE RenameStopAccepting
  <2>1. PICK ok \in BOOLEAN : rename' = [rename EXCEPT !.pc = "recheck", !.closed = ok]
    BY <1>12 DEF RenameStopAccepting
  <2> QED
    BY <1>11, <1>12, <2>1 DEF RenameStopAccepting, RenameAt
<1>13. CASE RenameRecheck
  <2> DEFINE pc == IF JobsOf(server, rename.old) > 1 THEN "reopen" ELSE "add"
             b == rename.closed /\ server.up
  <2>1. rename' = [rename EXCEPT !.pc = pc, !.closed = b] /\ rename.pc # "idle"
    BY <1>13 DEF RenameRecheck, RenameAt
  <2>2. pc # "idle" /\ b \in BOOLEAN
    OBVIOUS
  <2> HIDE DEF pc, b
  <2> QED
    BY <1>11, <2>1, <2>2
<1>14. CASE RenameAdd
  <2> DEFINE since == rename.since + (changes' - changes)
  <2>1. /\ rename.pc # "idle"
        /\ \/ rename' = [rename EXCEPT !.pc = "verify"]
           \/ rename' = [rename EXCEPT !.pc = "verify", !.since = since]
    BY <1>14 DEF RenameAdd, RenameAt, Goto
  <2> HIDE DEF since
  <2>2. CASE rename' = [rename EXCEPT !.pc = "verify", !.since = since]
    <3>1. /\ DOMAIN rename' = RenameFields /\ rename'.pc = "verify" /\ rename'.old = rename.old
          /\ rename'.new = rename.new /\ rename'.accepting = rename.accepting
          /\ rename'.paused = rename.paused /\ rename'.closed = rename.closed
      BY <1>1, <2>2 DEF RenameOK, RenameFields
    <3>2. rename.accepting \in BOOLEAN /\ rename.paused \in BOOLEAN /\ rename.closed \in BOOLEAN
      BY <1>1 DEF RenameOK
    <3> QED
      BY <1>3, <2>1, <3>1, <3>2
  <2> QED
    BY <1>4, <2>1, <2>2
<1>15. (RenameVerify \/ RenameSetAccepting \/ RenameSetEnabled \/ RenameSetDefault \/ RenameDelete
        \/ RenameReopen)
       => \E pc \in {"accept", "reopen", "enable", "default", "delete", "done"} :
            rename.pc # "idle" /\ rename' = [rename EXCEPT !.pc = pc]
  BY DEF RenameVerify, RenameSetAccepting, RenameSetEnabled, RenameSetDefault, RenameDelete,
         RenameReopen, Goto, RenameAt
<1>16. CASE RenameDone
  <2>1. rename' = NoRename /\ rename'.pc = "idle"
    BY <1>16 DEF RenameDone, NoRename
  <2> QED
    BY <2>1, NoRenameOK DEF Good
<1>17. Rename => Good
  <2>1. (\E pc \in {"accept", "reopen", "enable", "default", "delete", "done"} :
            rename.pc # "idle" /\ rename' = [rename EXCEPT !.pc = pc]) => Good
    BY <1>4
  <2> QED
    BY <1>10, <1>12, <1>13, <1>14, <1>15, <1>16, <2>1, Zenon DEF Rename
<1>18. User => Good
  <2>1. (\E n \in Printers \ Discovered : PrinterNameEdit(n)) => Good
    BY <1>9
  <2> QED
    BY <1>2, <1>7, <2>1
<1>19. Start \/ Addition => Good
  BY <1>2, <1>5, <1>8, Zenon
<1> QED
  BY <1>2, <1>6, <1>8, <1>17, <1>18, <1>19 DEF Next

\* The printer whose driver is set is the one that was current, whatever the menu was opened for.
LEMMA SetPpdName ==
  ASSUME ListOK(panel), NEW p, DOMAIN panel = PanelFields,
         p = [panel EXCEPT !.popup_menu.open = FALSE] \/ p = [panel EXCEPT !.chooser = FALSE]
  PROVE  /\ CurrentName(p) = CurrentName(panel)
         /\ CurrentName(p) \in Printers \cup {NoPrinter}
<1>1. p.dests = panel.dests /\ p.current_dest = panel.current_dest
  BY DEF PanelFields
<1>2. CurrentName(p) = CurrentName(panel)
  BY <1>1 DEF CurrentName, Current, PrinterSelected
<1> QED
  BY <1>2, CurrentNamed

LEMMA CallsStep ==
  ASSUME PanelInv, Next
  PROVE  calls' \in Seq(Printers)
<1> USE DEF AdditionFrame, RenameFrame
<1>1. calls \in Seq(Printers) /\ (panel.loaded # "no" => ListOK(panel))
  BY DEF PanelInv, ListPart
<1>2. calls' = calls => calls' \in Seq(Printers)
  BY <1>1
<1>3. ASSUME NEW p, p = [panel EXCEPT !.popup_menu.open = FALSE] \/ p = [panel EXCEPT !.chooser = FALSE],
             SetPpd(p), panel.loaded # "no"
      PROVE  calls' \in Seq(Printers)
  <2>1. CurrentName(p) \in Printers \cup {NoPrinter}
    BY <1>1, <1>3, PanelFacts, SetPpdName
  <2>2. IF CurrentName(p) = NoPrinter THEN calls' = calls ELSE calls' = Append(calls, CurrentName(p))
    BY <1>3 DEF SetPpd
  <2> QED
    BY <1>1, <2>1, <2>2, AppendProperties
<1>4. ASSUME NEW i \in DOMAIN calls, NEW ok, SetPpdCallback(i, ok) PROVE calls' \in Seq(Printers)
  BY <1>1, <1>4, RemoveAtType DEF SetPpdCallback
<1>5. SetPpdFromList => calls' \in Seq(Printers)
  BY <1>3 DEF SetPpdFromList, Closed, Runs
<1>6. ASSUME NEW ok, PpdSelectionDialogResponse(ok) PROVE calls' \in Seq(Printers)
  <2>1. panel.loaded # "no"
    BY <1>6 DEF PpdSelectionDialogResponse, Runs
  <2>2. SetPpd([panel EXCEPT !.chooser = FALSE]) \/ calls' = calls
    BY <1>6 DEF PpdSelectionDialogResponse
  <2> QED
    BY <1>2, <1>3, <2>1, <2>2
<1>7. Start \/ Addition => calls' = calls
  BY DEF Start, PopulatePrintersList, AttachToCupsNotifier, StartStatusCheck, Addition, PrinterAdd,
         NewPrinterDialogResponse, PreResponse, AdditionCreates
<1>8. (MainLoop /\ ~(\E i \in DOMAIN calls, ok \in BOOLEAN : SetPpdCallback(i, ok))) => calls' = calls
  BY DEF MainLoop, CupsStatusCheck, RenewSubscription, SubscriptionExpires, OnCupsNotification,
         OnPermissionChanged, SearchAnswered
<1>9. (User /\ ~SetPpdFromList /\ ~(\E ok \in BOOLEAN : PpdSelectionDialogResponse(ok)))
      => calls' = calls
  BY DEF User, SelectRow, PrinterDisable, PrinterSetDefault, PrinterRemove, PrinterLocationEdit,
         PrinterNameEdit, PopupModelMenu, CloseMenu, OpenChooser
<1>10. Rename => calls' = calls
  BY DEF Rename, RenameCheck, RenameStopAccepting, RenameRecheck, RenameAdd, RenameVerify,
         RenameSetAccepting, RenameSetEnabled, RenameSetDefault, RenameDelete, RenameReopen,
         RenameRequest, RenameDone
<1>11. Others => calls' = calls
  BY DEF Others, OtherAdds, OtherDeletes, OtherPauses, OtherSetsDefault, OtherSetsAccepting,
         JobCreated, JobCompleted, CupsStopsOrStarts, OtherChange
<1>12. (\E i \in DOMAIN calls, ok \in BOOLEAN : SetPpdCallback(i, ok)) => calls' \in Seq(Printers)
  BY <1>4
<1>13. (\E ok \in BOOLEAN : PpdSelectionDialogResponse(ok)) => calls' \in Seq(Printers)
  BY <1>6
<1>14. MainLoop => calls' \in Seq(Printers)
  BY <1>2, <1>8, <1>12
<1>15. User => calls' \in Seq(Printers)
  BY <1>2, <1>5, <1>9, <1>13
<1> QED
  BY <1>2, <1>7, <1>10, <1>11, <1>14, <1>15 DEF Next

LEMMA PanelInvStep ==
  ASSUME PanelInv, [Next]_vars
  PROVE  PanelInv'
<1>1. CASE Next
  <2>1. ServerOK(server') /\ ListPart(panel') /\ RenameOK(rename') /\ calls' \in Seq(Printers)
    BY <1>1, ServerStep, ListStep, RenameStep, CallsStep
  <2>2. rename'.pc # "idle" => panel'.loaded # "no"
    BY <1>1, ListStep, RenameStep
  <2> QED
    BY <2>1, <2>2 DEF PanelInv
<1>2. CASE UNCHANGED vars
  BY <1>2 DEF vars, PanelInv
<1> QED
  BY <1>1, <1>2

THEOREM PanelCorrect == Spec => []PanelInv
<1>1. Init => PanelInv
  BY PanelInvInit
<1>2. PanelInv /\ [Next]_vars => PanelInv'
  BY PanelInvStep
<1> QED
  BY <1>1, <1>2, PTL DEF Spec

LEMMA ListShown ==
  ASSUME NEW p, ListOK(p)
  PROVE  /\ p.current_dest \in -1..(Len(p.dests) - 1)
         /\ p.selected \in 0..Len(p.rows)
         /\ p.selected # NoRow => p.shown.name = RowName(p) /\ p.current_dest = p.rows[p.selected].id
         /\ PrinterSelected(p) => CurrentName(p) = RowName(p)
<1>1. p.dests \in Seq(Dest) /\ p.rows \in Seq(Row)
  <2>1. RowsOK(p.dests, p.new_printer_name, p.rows)
    BY RowsFacts DEF ListOK, ListMade
  <2> QED
    BY <2>1 DEF RowsOK, ListOK, ListMade, InOrder
<1>2. Len(p.dests) \in Nat /\ Len(p.rows) \in Nat /\ DOMAIN p.dests = 1..Len(p.dests)
      /\ DOMAIN p.rows = 1..Len(p.rows)
  BY <1>1
<1>3. CASE p.selected = NoRow
  <2>1. p.current_dest = -1 /\ ~PrinterSelected(p)
    BY <1>3 DEF ListOK, SelectionOK, PrinterSelected
  <2> QED
    BY <1>2, <1>3, <2>1 DEF NoRow
<1>4. CASE p.selected # NoRow
  <2>1. /\ p.selected \in DOMAIN p.rows /\ p.current_dest = p.rows[p.selected].id
        /\ p.rows[p.selected].name # NoPrinter /\ p.shown.name = p.rows[p.selected].name
    BY <1>4 DEF ListOK, SelectionOK
  <2>2. /\ p.rows[p.selected] \in Row
        /\ \/ ListedRow(p.dests, p.rows[p.selected])
           \/ NewRow(p.new_printer_name, p.rows[p.selected])
    BY <2>1, RowNamed DEF ListOK, ListMade
  <2>3. RowName(p) = p.rows[p.selected].name
    BY <1>4 DEF RowName
  <2>4. p.current_dest \in Int
    BY <2>1, <2>2 DEF Row
  <2>5. p.current_dest \in -1..(Len(p.dests) - 1)
    <3>1. CASE ListedRow(p.dests, p.rows[p.selected])
      <4>1. p.current_dest + 1 \in 1..Len(p.dests)
        BY <1>2, <2>1, <3>1 DEF ListedRow
      <4> QED
        BY <1>2, <2>4, <4>1
    <3>2. CASE NewRow(p.new_printer_name, p.rows[p.selected])
      BY <1>2, <2>1, <3>2 DEF NewRow
    <3> QED
      BY <2>2, <3>1, <3>2
  <2>6. ASSUME PrinterSelected(p) PROVE CurrentName(p) = RowName(p)
    <3>1. ListedRow(p.dests, p.rows[p.selected])
      BY <2>1, <2>2, <2>6 DEF NewRow, PrinterSelected
    <3> QED
      BY <2>1, <2>3, <2>6, <3>1 DEF ListedRow, CurrentName, Current
  <2> QED
    BY <1>2, <2>1, <2>3, <2>5, <2>6
<1> QED
  BY <1>3, <1>4

\* Whatever the server, other clients and the user did, every button of the panel acts on the
\* printer whose details are shown (update_sensitivity, printer_selection_changed_cb,
\* actualize_printers_list).
THEOREM ButtonsAct == Spec => []ButtonsActOnShown
<1>1. PanelInv => ButtonsActOnShown
  <2> SUFFICES ASSUME PanelInv PROVE ButtonsActOnShown
    OBVIOUS
  <2>1. ServerOK(server) /\ RenameOK(rename) /\ calls \in Seq(Printers)
        /\ (panel.loaded = "no" => panel = NewPanel) /\ (panel.loaded # "no" => ListOK(panel))
    BY DEF PanelInv, ListPart
  <2>2. /\ DOMAIN server.queues \subseteq Printers
        /\ \A n \in DOMAIN server.queues : server.queues[n] \in Queue
        /\ server.default \in DOMAIN server.queues \cup {NoPrinter}
    BY <2>1 DEF ServerOK
  <2>3. panel.current_dest \in -1..(Len(panel.dests) - 1) /\ panel.selected \in 0..Len(panel.rows)
    <3>1. CASE panel.loaded = "no"
      BY <2>1, <3>1 DEF NewPanel, NoRow
    <3>2. CASE panel.loaded # "no"
      BY <2>1, <3>2, ListShown
    <3> QED
      BY <3>1, <3>2
  <2>4. panel.model_page \in {"button", "label", "changing"}
    <3>1. CASE panel.loaded = "no"
      BY <2>1, <3>1 DEF NewPanel
    <3>2. CASE panel.loaded # "no"
      <4>1. panel.model_page = ModelPage(panel)
        BY <2>1, <3>2 DEF ListOK
      <4> QED
        BY <4>1 DEF ModelPage
    <3> QED
      BY <3>1, <3>2
  <2>5. PanelTypeOK
    <3>1. \A i \in DOMAIN calls : calls[i] \in Printers
      BY <2>1
    <3>2. panel.page \in {"INFO", "NO_PRINTERS", "NO_CUPS"}
      BY PanelFacts DEF Pages
    <3> QED
      BY <2>1, <2>2, <2>3, <2>4, <3>1, <3>2 DEF PanelTypeOK, RenameOK
  <2>6. ASSUME Runs PROVE RowsMatchDests
    <3>1. RowsOK(panel.dests, panel.new_printer_name, panel.rows)
      BY <2>1, <2>6, RowsFacts DEF Runs, ListOK, ListMade
    <3>2. ASSUME NEW i \in DOMAIN panel.rows, panel.rows[i].id >= 0, panel.dests # <<>>
          PROVE  panel.rows[i].name = panel.dests[panel.rows[i].id + 1].name
      <4>1. ListedRow(panel.dests, panel.rows[i]) \/ NewRow(panel.new_printer_name, panel.rows[i])
        BY <3>1, <3>2 DEF RowsOK
      <4> QED
        BY <3>2, <4>1 DEF ListedRow, NewRow
    <3> QED
      BY <3>1, <3>2 DEF RowsMatchDests, RowsOK
  <2>7. ASSUME Runs PROVE DetailsMatchSelection
    <3>1. ListOK(panel) /\ SelectionOK(panel)
      BY <2>1, <2>7 DEF Runs, ListOK
    <3> QED
      BY <3>1, ListShown DEF SelectionOK, DetailsMatchSelection
  <2> QED
    BY <2>5, <2>6, <2>7 DEF ButtonsActOnShown
<1> QED
  BY <1>1, PanelCorrect, PTL

-----------------------------------------------------------------------------
(***************************************************************************)
(* The list and the number of jobs follow the server: what CUPS announces  *)
(* stands in the queue of signals until the panel has heard it.            *)
(***************************************************************************)

Among(n, q) == \E i \in DOMAIN q : q[i] = n

\* List p, made of server s but for the signals q; m if it has missed a change.
HeardOK(p, s, q, m) ==
  (p.loaded # "no" /\ ~m /\ ~Among(NoPrinter, q)) =>
    /\ p.dests = GetDests(s)
    /\ (s.up /\ PrinterSelected(p) /\ ~Among(CurrentName(p), q))
         => p.num_jobs = JobsOf(s, CurrentName(p))

HeardInv == signals \in Seq(Names) /\ HeardOK(panel, server, signals, missed)

\* The list has just been made, or the jobs of the printer that is selected counted.
Made(p, s) ==
  p.dests = GetDests(s) /\ (PrinterSelected(p) => p.num_jobs = JobsOf(s, CurrentName(p)))

LEMMA MadeHeard ==
  ASSUME NEW p, NEW s, Made(p, s), NEW q, NEW m
  PROVE  HeardOK(p, s, q, m)
  BY DEF Made, HeardOK

LEMMA RowsHeard ==
  ASSUME NEW p, NEW s, NEW q, NEW m, HeardOK(p, s, q, m), NEW t, SameRows(p, t),
         t.loaded # "no" => p.loaded # "no"
  PROVE  HeardOK(t, s, q, m)
<1>1. t.dests = p.dests /\ t.current_dest = p.current_dest /\ t.num_jobs = p.num_jobs
  BY DEF SameRows
<1>2. PrinterSelected(t) = PrinterSelected(p) /\ CurrentName(t) = CurrentName(p)
  BY <1>1, Zenon DEF PrinterSelected, CurrentName, Current
<1> QED
  BY <1>1, <1>2 DEF HeardOK

LEMMA AmongLonger ==
  ASSUME NEW T, NEW q \in Seq(T), NEW n \in T
  PROVE  /\ q \o <<n>> \in Seq(T) /\ Among(n, q \o <<n>>)
         /\ \A k : Among(k, q) => Among(k, q \o <<n>>)
<1> DEFINE r == q \o <<n>>
<1>1. r \in Seq(T) /\ Len(r) = Len(q) + 1 /\ r[Len(q) + 1] = n
      /\ \A i \in 1..Len(q) : r[i] = q[i]
  BY ConcatProperties
<1> HIDE DEF r
<1>2. DOMAIN q = 1..Len(q) /\ Len(q) \in Nat /\ DOMAIN r = 1..(Len(q) + 1)
  BY <1>1
<1>3. Among(n, r)
  <2>1. Len(q) + 1 \in DOMAIN r
    BY <1>2
  <2> QED
    BY <1>1, <2>1 DEF Among
<1>4. ASSUME NEW k, Among(k, q) PROVE Among(k, r)
  <2>1. PICK i \in DOMAIN q : q[i] = k
    BY <1>4 DEF Among
  <2>2. i \in DOMAIN r /\ r[i] = k
    BY <1>1, <1>2, <2>1
  <2> QED
    BY <2>2 DEF Among
<1> QED
  BY <1>1, <1>3, <1>4 DEF r

LEMMA AmongTail ==
  ASSUME NEW T, NEW q \in Seq(T), q # <<>>
  PROVE  /\ Tail(q) \in Seq(T)
         /\ \A k : Among(k, q) => k = Head(q) \/ Among(k, Tail(q))
<1>1. /\ Tail(q) \in Seq(T) /\ Len(Tail(q)) = Len(q) - 1
      /\ \A i \in 1..Len(Tail(q)) : Tail(q)[i] = q[i + 1]
  BY HeadTailProperties
<1>2. DOMAIN q = 1..Len(q) /\ Len(q) \in Nat /\ Len(q) > 0
  BY EmptySeq
<1>3. ASSUME NEW k, Among(k, q), k # Head(q) PROVE Among(k, Tail(q))
  <2>1. PICK i \in DOMAIN q : q[i] = k
    BY <1>3 DEF Among
  <2>2. i # 1 /\ i \in 1..Len(q)
    BY <1>2, <1>3, <2>1
  <2>3. i - 1 \in 1..Len(Tail(q)) /\ (i - 1) + 1 = i
    BY <1>1, <1>2, <2>2
  <2>4. Tail(q)[i - 1] = k
    BY <1>1, <2>1, <2>3
  <2>5. i - 1 \in DOMAIN Tail(q)
    BY <1>1, <2>3
  <2> QED
    BY <2>4, <2>5 DEF Among
<1> QED
  BY <1>1, <1>3

\* A change that CUPS announces while the panel listens is heard; else it is missed.
LEMMA ChangeHeard ==
  ASSUME HeardInv, NEW after, NEW n \in Names, ServerBecomes(after, <<n>>),
         missed' = Unheard(after, <<n>>), panel' = panel,
         n # NoPrinter => /\ GetDests(after) = GetDests(server) /\ after.up = server.up
                          /\ \A k : k # n => JobsOf(after, k) = JobsOf(server, k)
  PROVE  HeardInv'
<1>1. signals \in Seq(Names) /\ HeardOK(panel, server, signals, missed)
  BY DEF HeardInv
<1>2. CASE after = server
  <2>1. server' = server /\ signals' = signals /\ (missed => missed')
    BY <1>2 DEF ServerBecomes, Unheard
  <2> QED
    BY <1>1, <2>1 DEF HeardInv, HeardOK
<1>3. CASE after # server /\ ~Heard
  <2>1. signals' = signals /\ missed'
    BY <1>3 DEF ServerBecomes, Unheard
  <2> QED
    BY <1>1, <2>1 DEF HeardInv, HeardOK
<1>4. CASE after # server /\ Heard
  <2>1. server' = after /\ signals' = signals \o <<n>> /\ (missed => missed')
    <3>2. server' = after /\ signals' = signals \o <<n>>
      BY <1>4 DEF ServerBecomes
    <3>3. missed => missed'
      BY Zenon DEF Unheard
    <3> QED
      BY <3>2, <3>3
  <2>2. /\ signals' \in Seq(Names) /\ Among(n, signals')
        /\ \A k : Among(k, signals) => Among(k, signals')
    BY <1>1, <2>1, AmongLonger
  <2>3. HeardOK(panel, after, signals', missed')
    <3>1. CASE n = NoPrinter
      BY <2>2, <3>1 DEF HeardOK
    <3>2. CASE n # NoPrinter
      BY <1>1, <2>1, <2>2, <3>2 DEF HeardOK
    <3> QED
      BY <3>1, <3>2
  <2> QED
    BY <2>1, <2>2, <2>3 DEF HeardInv
<1> QED
  BY <1>2, <1>3, <1>4

LEMMA JobsSame ==
  ASSUME NEW s, NEW n, NEW v, NEW t, ServerOK(s), ServerOK(t), n \in DOMAIN s.queues,
         InField("jobs", v), t.up = s.up, t.default = s.default,
         t.queues = SetQueue(s, n, "jobs", v).queues
  PROVE  /\ GetDests(t) = GetDests(s)
         /\ \A k : k # n => JobsOf(t, k) = JobsOf(s, k)
<1> DEFINE r == SetQueue(s, n, "jobs", v)
<1>1. /\ DOMAIN r.queues = DOMAIN s.queues
      /\ \A g \in QueueFields : g # "jobs" => r.queues[n][g] = s.queues[n][g]
      /\ \A m \in DOMAIN s.queues : m # n => r.queues[m] = s.queues[m]
  BY SetQueueFacts
<1> HIDE DEF r
<1>2. /\ DOMAIN t.queues = DOMAIN s.queues
      /\ \A m \in DOMAIN s.queues : t.queues[m].paused = s.queues[m].paused
      /\ \A m \in DOMAIN s.queues : m # n => t.queues[m] = s.queues[m]
  BY <1>1 DEF QueueFields, r
<1>3. GetDests(t) = GetDests(s)
  BY <1>2, SameDests
<1>4. \A k : k # n => JobsOf(t, k) = JobsOf(s, k)
  BY <1>2 DEF JobsOf, Exists
<1> QED
  BY <1>3, <1>4

LEMMA HeardStep ==
  ASSUME PanelInv, HeardInv, Next
  PROVE  HeardInv'
<1> USE DEF DriverFrame, RenameFrame, AdditionFrame
<1>1. /\ ServerOK(server) /\ ServerOK(server')
      /\ panel.loaded # "no" => ListOK(panel)
      /\ rename.pc # "idle" => panel.loaded # "no"
  BY ServerStep DEF PanelInv, ListPart
<1>2. /\ DOMAIN panel = PanelFields /\ DOMAIN panel.shown = ShownFields
      /\ panel.page \in Pages /\ panel.new_printer_name \in Names
  BY PanelFacts
<1>3. signals \in Seq(Names) /\ HeardOK(panel, server, signals, missed) /\ NoPrinter \in Names
  BY DEF HeardInv, Names
<1>4. Runs \/ UserActs => panel.loaded # "no"
  BY DEF Runs, UserActs
<1> DEFINE Still == UNCHANGED <<server, signals, missed>>
\* Three kinds of steps: the rows stay, the list is made, or the server changes
<1>5. ASSUME Still, SameRows(panel, panel'), panel.loaded # "no" PROVE HeardInv'
  <2>1. HeardOK(panel', server, signals, missed)
    BY <1>3, <1>5, RowsHeard
  <2> QED
    BY <1>3, <1>5, <2>1 DEF HeardInv
<1>6. ASSUME Still, panel' = panel PROVE HeardInv'
  BY <1>3, <1>6 DEF HeardInv
<1>7. ASSUME Made(panel', server'),
             signals' = signals \/ (\E after : ServerBecomes(after, PrinterSignal))
      PROVE  HeardInv'
  <2>1. signals' = signals \/ signals' = signals \o <<NoPrinter>>
    BY <1>7, Zenon DEF ServerBecomes, PrinterSignal
  <2>2. signals' \in Seq(Names)
    BY <1>3, <2>1, AmongLonger
  <2>3. HeardOK(panel', server', signals', missed')
    BY <1>7, MadeHeard
  <2> QED
    BY <2>2, <2>3 DEF HeardInv
<1>8. ASSUME NEW p, DOMAIN p = PanelFields, DOMAIN p.shown = ShownFields, p.page \in Pages,
             p.new_printer_name \in Names
      PROVE  Made(ActualizePrintersList(p, server'), server')
  BY <1>1, <1>8, ActualizeFacts DEF Made
<1>9. Made(ActualizePrintersList(panel, server'), server')
  BY <1>2, <1>8
<1>10. ASSUME NEW after, ServerBecomes(after, PrinterSignal), missed' = Unheard(after, PrinterSignal),
              panel' = panel
       PROVE  HeardInv'
  BY <1>3, <1>10, ChangeHeard DEF PrinterSignal
<1>11. ASSUME NEW b, panel.loaded # "no", DOMAIN b = PanelFields, SameRows(panel, b),
              panel' = UpdateSensitivity(b), Still
       PROVE  HeardInv'
  <2>1. SameList(b, panel')
    BY <1>11, SensitivityFacts
  <2>2. SameRows(panel, panel')
    BY <1>11, <2>1 DEF SameList, SameRows
  <2> QED
    BY <1>5, <1>11, <2>2
<1> HIDE DEF Still
\* Start, and what the main loop does
<1>12. CASE PopulatePrintersList
  <2> DEFINE q == ActualizePrintersList(panel, server)
  <2>1. Made(q, server') /\ server' = server /\ signals' = signals
    BY <1>9, <1>12 DEF PopulatePrintersList
  <2>2. DOMAIN q = PanelFields
    BY <1>1, <1>2, ActualizeFacts DEF ListOK, ListMade
  <2>3. panel' = [q EXCEPT !.loaded = "populated"]
    BY <1>12 DEF PopulatePrintersList
  <2> HIDE DEF q
  <2>4. panel'.dests = q.dests /\ panel'.current_dest = q.current_dest /\ panel'.num_jobs = q.num_jobs
    BY <2>2, <2>3 DEF PanelFields
  <2>5. PrinterSelected(panel') = PrinterSelected(q) /\ CurrentName(panel') = CurrentName(q)
    BY <2>4, Zenon DEF PrinterSelected, CurrentName, Current
  <2>6. Made(panel', server')
    BY <2>1, <2>4, <2>5 DEF Made
  <2> QED
    BY <1>7, <2>1, <2>6
<1>13. CASE AttachToCupsNotifier \/ StartStatusCheck
  <2>1. /\ panel.loaded # "no" /\ Still
        /\ \E l \in {"attached", "done"} : panel' = [panel EXCEPT !.loaded = l]
    BY <1>13 DEF AttachToCupsNotifier, StartStatusCheck, Still
  <2>2. SameRows(panel, panel')
    BY <1>2, <2>1 DEF PanelFields, SameRows
  <2> QED
    BY <1>5, <2>1, <2>2
<1>14. CASE CupsStatusCheck \/ PrinterLocationEdit \/ RenameDone
  <2>1. panel' = ActualizePrintersList(panel, server') /\ signals' = signals
    BY <1>14 DEF CupsStatusCheck, PrinterLocationEdit, RenameDone, Actualized
  <2> QED
    BY <1>7, <1>9, <2>1
<1>15. CASE OnCupsNotification
  <2>1. /\ panel.loaded # "no" /\ server' = server /\ signals # <<>> /\ signals' = Tail(signals)
    BY <1>4, <1>15 DEF OnCupsNotification
  <2>2. /\ signals' \in Seq(Names)
        /\ \A k : Among(k, signals) => k = Head(signals) \/ Among(k, signals')
    BY <1>3, <2>1, AmongTail
  <2>3. CASE Head(signals) = NoPrinter
    <3>1. panel' = ActualizePrintersList(panel, server')
      BY <1>15, <2>1, <2>3 DEF OnCupsNotification, Actualized
    <3>2. HeardOK(panel', server', signals', missed')
      BY <1>9, <3>1, MadeHeard
    <3> QED
      BY <2>2, <3>2 DEF HeardInv
  <2>4. CASE Head(signals) # NoPrinter
    <3>1. missed' = missed
      BY <1>15, <2>4 DEF OnCupsNotification
    <3>2. CASE server.up /\ Head(signals) = CurrentName(panel)
      <4> DEFINE n == IF PrinterSelected(panel) THEN JobsOf(server, CurrentName(panel)) ELSE -1
      <4>1. panel' = [panel EXCEPT !.num_jobs = n]
        BY <1>15, <2>4, <3>2 DEF OnCupsNotification, UpdateJobsCount
      <4> HIDE DEF n
      <4>2. /\ panel'.dests = panel.dests /\ panel'.current_dest = panel.current_dest
            /\ panel'.num_jobs = n /\ panel'.loaded = panel.loaded
        BY <1>2, <4>1 DEF PanelFields
      <4>3. PrinterSelected(panel') = PrinterSelected(panel) /\ CurrentName(panel') = CurrentName(panel)
        BY <4>2, Zenon DEF PrinterSelected, CurrentName, Current
      <4>4. PrinterSelected(panel) => n = JobsOf(server, CurrentName(panel))
        BY DEF n
      <4>5. HeardOK(panel', server, signals', missed)
        BY <1>3, <2>1, <2>2, <2>4, <4>2, <4>3, <4>4 DEF HeardOK
      <4> QED
        BY <2>1, <2>2, <3>1, <4>5 DEF HeardInv
    <3>3. CASE ~(server.up /\ Head(signals) = CurrentName(panel))
      <4>1. panel' = panel
        BY <1>15, <2>4, <3>3 DEF OnCupsNotification
      <4>2. HeardOK(panel, server, signals', missed)
        BY <1>3, <2>2, <2>4, <3>3 DEF HeardOK
      <4> QED
        BY <2>1, <2>2, <3>1, <4>1, <4>2 DEF HeardInv
    <3> QED
      BY <3>2, <3>3
  <2> QED
    BY <2>3, <2>4
<1>16. CASE OnPermissionChanged
  <2> DEFINE a == ~panel.is_authorized
           b == [panel EXCEPT !.is_authorized = a]
  <2>1. panel.loaded # "no" /\ panel' = UpdateSensitivity(b) /\ Still
    BY <1>4, <1>16 DEF OnPermissionChanged, Still
  <2> HIDE DEF a
  <2>2. DOMAIN b = PanelFields /\ SameRows(panel, b)
    BY <1>2 DEF PanelFields, SameRows
  <2> HIDE DEF b
  <2> QED
    BY <1>11, <2>1, <2>2
<1>17. ASSUME NEW found, SearchAnswered(found) PROVE HeardInv'
  <2>1. panel.loaded # "no" /\ Still
    BY <1>4, <1>17 DEF SearchAnswered, Still
  <2>2. FromGetPpdNames(panel, panel')
    BY <1>17, Zenon DEF SearchAnswered, FromGetPpdNames
  <2>3. ListOK(panel) /\ SameList(panel, panel)
    BY <1>1, <2>1 DEF SameList, SameRows
  <2>4. SameList(panel, panel')
    BY <1>2, <2>2, <2>3, GetPpdNamesList
  <2> QED
    BY <1>5, <2>1, <2>4 DEF SameList
<1>18. ASSUME NEW i \in DOMAIN calls, NEW ok \in BOOLEAN, SetPpdCallback(i, ok) PROVE HeardInv'
  <2> DEFINE l == RemoveFirst(panel.driver_change_list, calls[i])
             b == [panel EXCEPT !.driver_change_list = l]
             p == UpdateSensitivity(b)
  <2>1. /\ panel.loaded # "no" /\ server' = server /\ signals' = signals
        /\ (panel' = p /\ Still) \/ panel' = ActualizePrintersList(p, server')
    BY <1>4, <1>18 DEF SetPpdCallback, Actualized, Still
  <2> HIDE DEF l
  <2>2. /\ DOMAIN b = PanelFields /\ SameList(panel, b) /\ SameRows(panel, b)
        /\ b.new_printer_name = panel.new_printer_name
    BY <1>2 DEF PanelFields, SameList, SameRows
  <2> HIDE DEF b
  <2>3. ListOK(p)
    BY <1>1, <2>1, <2>2, SensitiveList
  <2>4. /\ DOMAIN p = PanelFields /\ DOMAIN p.shown = ShownFields /\ p.page \in Pages
        /\ p.new_printer_name \in Names
    BY <2>3 DEF ListOK, ListMade
  <2>5. Made(ActualizePrintersList(p, server'), server')
    <3> HIDE DEF p
    <3> QED
      BY <1>8, <2>4
  <2>6. CASE panel' = p /\ Still
    BY <1>11, <2>1, <2>2, <2>6
  <2> HIDE DEF p
  <2> QED
    BY <1>7, <2>1, <2>5, <2>6
\* The user
<1>19. ASSUME NEW i \in DOMAIN panel.rows, SelectRow(i) PROVE HeardInv'
  <2>1. /\ panel.loaded # "no" /\ panel.rows[i].name # NoPrinter /\ Still
        /\ panel' = SelectionChanged(panel, server, i)
    BY <1>4, <1>19 DEF SelectRow, Still
  <2>2. /\ panel'.dests = panel.dests
        /\ PrinterSelected(panel') => panel'.num_jobs = JobsOf(server, CurrentName(panel'))
    BY <1>1, <2>1, SelectionFacts DEF ListOK
  <2>3. HeardOK(panel', server, signals, missed)
    BY <1>3, <2>1, <2>2 DEF HeardOK
  <2> QED
    BY <1>3, <2>1, <2>3 DEF HeardInv, Still
<1>20. CASE PrinterDisable
  <2>1. panel.loaded # "no"
    BY <1>4, <1>20 DEF PrinterDisable
  <2>2. \/ panel' = ActualizePrintersList(panel, server') /\ \E after : ServerBecomes(after, PrinterSignal)
        \/ Still /\ panel' = [panel EXCEPT !.shown.enabled = ~panel.shown.enabled]
    BY <1>20 DEF PrinterDisable, Actualized, ServerBecomes, Still
  <2>3. CASE Still /\ panel' = [panel EXCEPT !.shown.enabled = ~panel.shown.enabled]
    <3>1. SameRows(panel, panel')
      BY <1>2, <2>3 DEF PanelFields, SameRows
    <3> QED
      BY <1>5, <2>1, <2>3, <3>1
  <2> QED
    BY <1>7, <1>9, <2>2, <2>3
<1>21. CASE PrinterSetDefault
  <2>1. panel.loaded # "no"
    BY <1>4, <1>21 DEF PrinterSetDefault
  <2>2. CASE CurrentName(panel) = NoPrinter
    <3> DEFINE d == ~panel.shown.is_default
    <3>1. panel' = [panel EXCEPT !.shown.is_default = d] /\ Still
      BY <1>21, <2>2 DEF PrinterSetDefault, Still
    <3> HIDE DEF d
    <3>2. SameRows(panel, panel')
      BY <1>2, <3>1 DEF PanelFields, SameRows
    <3> QED
      BY <1>5, <2>1, <3>1, <3>2
  <2>3. CASE CurrentName(panel) # NoPrinter
    <3> DEFINE p == ActualizePrintersList(panel, server')
    <3>1. /\ \E after : ServerBecomes(after, PrinterSignal)
          /\ \/ panel' = p \/ panel' = [p EXCEPT !.crashed = TRUE]
             \/ \E b \in BOOLEAN : panel' = [p EXCEPT !.shown.is_default = b]
      <4>1. PICK ok \in BOOLEAN :
              LET after == IF ok THEN [server EXCEPT !.default = CurrentName(panel)] ELSE server
                  q == ActualizePrintersList(panel, after)
              IN /\ ServerBecomes(after, PrinterSignal)
                 /\ \/ PrinterSelected(q) /\ panel' = q
                    \/ ~PrinterSelected(q) /\ panel' = [q EXCEPT !.crashed = TRUE]
                    \/ /\ ~PrinterSelected(q) /\ q.dests # <<>>
                       /\ \E b \in BOOLEAN : panel' = [q EXCEPT !.shown.is_default = b]
        BY <1>21, <2>3, Zenon DEF PrinterSetDefault
      <4> DEFINE after == IF ok THEN [server EXCEPT !.default = CurrentName(panel)] ELSE server
      <4>2. server' = after
        BY <4>1 DEF ServerBecomes
      <4> HIDE DEF after
      <4> QED
        BY <4>1, <4>2, Zenon DEF after
    <3>2. Made(p, server') /\ DOMAIN p = PanelFields
      BY <1>1, <1>2, <1>9, ActualizeFacts DEF ListOK, ListMade
    <3> HIDE DEF p
    <3>3. panel'.dests = p.dests /\ panel'.current_dest = p.current_dest /\ panel'.num_jobs = p.num_jobs
      BY <3>1, <3>2 DEF PanelFields
    <3>4. PrinterSelected(panel') = PrinterSelected(p) /\ CurrentName(panel') = CurrentName(p)
      BY <3>3, Zenon DEF PrinterSelected, CurrentName, Current
    <3>5. Made(panel', server')
      BY <3>2, <3>3, <3>4 DEF Made
    <3> QED
      BY <1>7, <3>1, <3>5
  <2> QED
    BY <2>2, <2>3
<1>22. CASE PrinterRemove
  <2>1. \/ panel' = ActualizePrintersList(panel, server') /\ \E after : ServerBecomes(after, PrinterSignal)
        \/ panel' = panel /\ Still
    BY <1>22 DEF PrinterRemove, Actualized, ServerBecomes, Still
  <2> QED
    BY <1>6, <1>7, <1>9, <2>1
<1>23. ASSUME NEW n, PrinterNameEdit(n) PROVE HeardInv'
  BY <1>6, <1>23 DEF PrinterNameEdit, Still
<1>24. CASE PopupModelMenu
  <2> DEFINE name == CurrentName(panel)
             menu == [open |-> TRUE, printer |-> name, offers |-> FALSE, informal |-> "searching"]
             p == [panel EXCEPT !.popup_menu = menu]
             b == [p EXCEPT !.getting_ppd_names = TRUE]
  <2>1. /\ panel.loaded # "no" /\ Still
        /\ panel' = UpdateSensitivity(b) \/ panel' = p \/ panel' = GetPpdNames(p, name, FALSE, FALSE)
    BY <1>4, <1>24, Zenon DEF PopupModelMenu, Still
  <2> HIDE DEF name, menu
  <2>2. /\ DOMAIN p = PanelFields /\ SameList(panel, p) /\ p.new_printer_name = panel.new_printer_name
    BY <1>2 DEF PanelFields, SameList, SameRows
  <2>3. DOMAIN b = PanelFields /\ SameRows(panel, b)
    BY <1>2 DEF PanelFields, SameRows
  <2> HIDE DEF p, b
  <2>4. CASE panel' = GetPpdNames(p, name, FALSE, FALSE)
    <3>1. ListOK(panel)
      BY <1>1, <2>1
    <3>2. FromGetPpdNames(p, panel')
      BY <2>4, Zenon DEF FromGetPpdNames
    <3>3. SameList(panel, panel')
      BY <2>2, <3>1, <3>2, GetPpdNamesList
    <3> QED
      BY <1>5, <2>1, <3>3 DEF SameList
  <2>5. CASE panel' = UpdateSensitivity(b)
    BY <1>11, <2>1, <2>3, <2>5
  <2>6. CASE panel' = p
    BY <1>5, <2>1, <2>2, <2>6 DEF SameList
  <2> QED
    BY <2>1, <2>4, <2>5, <2>6
<1>25. CASE CloseMenu \/ OpenChooser
  <2>1. /\ panel.loaded # "no" /\ Still
        /\ \/ panel' = [panel EXCEPT !.popup_menu.open = FALSE]
           \/ panel' = [[panel EXCEPT !.popup_menu.open = FALSE] EXCEPT !.chooser = TRUE]
    BY <1>4, <1>25 DEF CloseMenu, OpenChooser, Closed, Still
  <2>2. SameRows(panel, panel')
    BY <1>2, <2>1 DEF PanelFields, SameRows
  <2> QED
    BY <1>5, <2>1, <2>2
<1>26. ASSUME NEW p, p = [panel EXCEPT !.popup_menu.open = FALSE] \/ p = [panel EXCEPT !.chooser = FALSE],
              panel.loaded # "no", SetPpd(p), Still
       PROVE  HeardInv'
  <2>1. DOMAIN p = PanelFields /\ SameRows(panel, p)
    BY <1>2, <1>26 DEF PanelFields, SameRows
  <2> DEFINE l == <<CurrentName(p)>> \o p.driver_change_list
             b == [p EXCEPT !.driver_change_list = l]
  <2>2. panel' = p \/ panel' = UpdateSensitivity(b)
    BY <1>26, Zenon DEF SetPpd
  <2> HIDE DEF l
  <2>3. DOMAIN b = PanelFields /\ SameRows(panel, b)
    BY <2>1 DEF PanelFields, SameRows
  <2> HIDE DEF b
  <2> QED
    BY <1>5, <1>11, <1>26, <2>1, <2>2, <2>3
<1>27. CASE SetPpdFromList
  BY <1>4, <1>26, <1>27 DEF SetPpdFromList, Closed, Still
<1>28. ASSUME NEW ok, PpdSelectionDialogResponse(ok) PROVE HeardInv'
  <2>1. panel.loaded # "no" /\ Still
    BY <1>4, <1>28 DEF PpdSelectionDialogResponse, Still
  <2>2. SetPpd([panel EXCEPT !.chooser = FALSE]) \/ panel' = [panel EXCEPT !.chooser = FALSE]
    BY <1>28 DEF PpdSelectionDialogResponse
  <2>3. CASE panel' = [panel EXCEPT !.chooser = FALSE]
    <3>1. SameRows(panel, panel')
      BY <1>2, <2>3 DEF PanelFields, SameRows
    <3> QED
      BY <1>5, <2>1, <3>1
  <2> QED
    BY <1>26, <2>1, <2>2, <2>3
\* The rename
<1>29. CASE RenameCheck \/ RenameRecheck \/ RenameVerify
  BY <1>6, <1>29 DEF RenameCheck, RenameRecheck, RenameVerify, Still
<1>30. ASSUME NEW n, NEW ok, NEW after, RenameRequest(n, ok, after) PROVE HeardInv'
  <2>1. /\ panel' = panel
        /\ \/ ServerBecomes(after, PrinterSignal) /\ missed' = Unheard(after, PrinterSignal)
           \/ Still
    BY <1>30, Zenon DEF RenameRequest, Still
  <2> QED
    BY <1>6, <1>10, <2>1
<1>31. CASE RenameStopAccepting \/ RenameSetAccepting \/ RenameSetEnabled \/ RenameSetDefault
            \/ RenameDelete \/ RenameReopen
  <2>1. \E n, ok, after : RenameRequest(n, ok, after)
    BY <1>31, Zenon DEF RenameStopAccepting, RenameSetAccepting, RenameSetEnabled, RenameSetDefault,
       RenameDelete, RenameReopen
  <2> QED
    BY <1>30, <2>1
<1>32. CASE RenameAdd
  <2>1. /\ panel' = panel
        /\ \/ \E after : ServerBecomes(after, PrinterSignal) /\ missed' = Unheard(after, PrinterSignal)
           \/ Still
    BY <1>32, Zenon DEF RenameAdd, Still
  <2> QED
    BY <1>6, <1>10, <2>1
\* An addition
<1>33. CASE PrinterAdd
  <2>1. panel.loaded # "no" /\ panel' = [panel EXCEPT !.adding = "search"] /\ Still
    BY <1>4, <1>33 DEF PrinterAdd, Still
  <2>2. SameRows(panel, panel')
    BY <1>2, <2>1 DEF PanelFields, SameRows
  <2> QED
    BY <1>5, <2>1, <2>2
<1>34. ASSUME NEW n \in Printers, PreResponse(n) PROVE HeardInv'
  <2> DEFINE p == [panel EXCEPT !.adding = "adding", !.new_printer_name = n,
                                !.select_new_printer = TRUE]
  <2>1. signals' = signals /\ panel' = ActualizePrintersList(p, server')
    BY <1>34 DEF PreResponse, Actualized
  <2>2. /\ DOMAIN p = PanelFields /\ DOMAIN p.shown = ShownFields /\ p.page \in Pages
        /\ p.new_printer_name \in Names
    BY <1>2 DEF PanelFields, Names
  <2> HIDE DEF p
  <2> QED
    BY <1>7, <1>8, <2>1, <2>2
<1>35. CASE NewPrinterDialogResponse
  <2> DEFINE p == [panel EXCEPT !.adding = "none", !.new_printer_name = NoPrinter]
  <2>1. signals' = signals /\ panel' = ActualizePrintersList(p, server')
    BY <1>35 DEF NewPrinterDialogResponse, Actualized
  <2>2. /\ DOMAIN p = PanelFields /\ DOMAIN p.shown = ShownFields /\ p.page \in Pages
        /\ p.new_printer_name \in Names
    BY <1>2 DEF PanelFields, Names
  <2> HIDE DEF p
  <2> QED
    BY <1>7, <1>8, <2>1, <2>2
<1>36. CASE AdditionCreates
  BY <1>10, <1>36 DEF AdditionCreates
\* Others
<1>37. ASSUME NEW after, OtherChange(after, PrinterSignal) PROVE HeardInv'
  BY <1>10, <1>37 DEF OtherChange
<1>38. ASSUME NEW n, OtherAdds(n) \/ OtherDeletes(n) \/ OtherPauses(n) \/ OtherSetsDefault(n)
       PROVE  HeardInv'
  <2>1. \E after : OtherChange(after, PrinterSignal)
    BY <1>38, Zenon DEF OtherAdds, OtherDeletes, OtherPauses, OtherSetsDefault
  <2> QED
    BY <1>37, <2>1
<1>39. ASSUME NEW n, NEW b, OtherSetsAccepting(n, b) PROVE HeardInv'
  <2>1. \E after : OtherChange(after, PrinterSignal)
    BY <1>39, Zenon DEF OtherSetsAccepting
  <2> QED
    BY <1>37, <2>1
<1>40. ASSUME NEW n \in Printers, NEW after, NEW v, n \in DOMAIN server.queues, InField("jobs", v),
              OtherChange(after, JobSignal(n)), after.up = server.up, after.default = server.default,
              after.queues = SetQueue(server, n, "jobs", v).queues
       PROVE  HeardInv'
  <2>1. /\ ServerBecomes(after, <<n>>) /\ missed' = Unheard(after, <<n>>) /\ panel' = panel
        /\ server' = after
    BY <1>40 DEF OtherChange, JobSignal, ServerBecomes
  <2>2. ServerOK(after)
    BY <1>1, <2>1
  <2>3. /\ GetDests(after) = GetDests(server)
        /\ \A k : k # n => JobsOf(after, k) = JobsOf(server, k)
    BY <1>1, <1>40, <2>2, JobsSame
  <2> QED
    BY <1>40, <2>1, <2>3, ChangeHeard DEF Names
<1>41. ASSUME NEW n \in Printers, JobCreated(n) PROVE HeardInv'
  <2> DEFINE v == server.queues[n].jobs + 1
             s == SetQueue(server, n, "jobs", v)
             after == [s EXCEPT !.last = n]
  <2>1. /\ n \in DOMAIN server.queues /\ server.queues[n].jobs < MaxJobs
        /\ OtherChange(after, JobSignal(n))
    BY <1>41, Zenon DEF JobCreated, Exists
  <2>2. server.queues[n] \in Queue
    BY <1>1, <2>1 DEF ServerOK
  <2>3. InField("jobs", v)
    BY <2>1, <2>2, PrintersAssumption DEF InField, Queue
  <2>4. ServerOK(s) /\ s.up = server.up /\ s.default = server.default
    BY <1>1, <2>1, <2>3, SetQueueFacts
  <2> HIDE DEF s
  <2>5. after.up = s.up /\ after.default = s.default /\ after.queues = s.queues
    BY <2>4 DEF ServerOK
  <2> HIDE DEF after, v
  <2> QED
    BY <1>40, <2>1, <2>3, <2>4, <2>5 DEF s
<1>42. ASSUME NEW n \in Printers, JobCompleted(n) PROVE HeardInv'
  <2> DEFINE v == server.queues[n].jobs - 1
             s == SetQueue(server, n, "jobs", v)
  <2>1. /\ n \in DOMAIN server.queues /\ server.queues[n].jobs > 0
        /\ OtherChange(s, JobSignal(n))
    BY <1>42, Zenon DEF JobCompleted, Exists
  <2>2. server.queues[n] \in Queue
    BY <1>1, <2>1 DEF ServerOK
  <2>3. InField("jobs", v)
    BY <2>1, <2>2, PrintersAssumption DEF InField, Queue
  <2>4. s.up = server.up /\ s.default = server.default
    BY <1>1, <2>1, <2>3, SetQueueFacts
  <2> HIDE DEF v
  <2>5. s.queues = SetQueue(server, n, "jobs", v).queues
    OBVIOUS
  <2> HIDE DEF s
  <2> QED
    BY <1>40, <2>1, <2>3, <2>4, <2>5
<1>43. CASE CupsStopsOrStarts
  <2> DEFINE b == ~server.up
  <2>1. OtherChange([server EXCEPT !.up = b], <<>>)
    BY <1>43 DEF CupsStopsOrStarts
  <2>2. [server EXCEPT !.up = b] # server
    BY <1>1 DEF ServerOK
  <2>3. missed' = Unheard([server EXCEPT !.up = b], <<>>)
    BY <2>1 DEF OtherChange
  <2>4. missed'
    BY <2>2, <2>3 DEF Unheard
  <2>5. signals' = signals \/ signals' = signals \o <<>>
    BY <2>1, Zenon DEF OtherChange, ServerBecomes
  <2>6. signals' \in Seq(Names)
    BY <1>3, <2>5
  <2> QED
    BY <2>4, <2>6 DEF HeardInv, HeardOK
<1>44. CASE RenewSubscription \/ SubscriptionExpires
  BY <1>6, <1>44 DEF RenewSubscription, SubscriptionExpires, Still
\* Together
<1>45. Start => HeardInv'
  BY <1>12, <1>13 DEF Start
<1>46. MainLoop => HeardInv'
  <2>1. (\E found \in BOOLEAN : SearchAnswered(found)) => HeardInv'
    BY <1>17
  <2>2. (\E i \in DOMAIN calls, ok \in BOOLEAN : SetPpdCallback(i, ok)) => HeardInv'
    BY <1>18
  <2> QED
    BY <1>14, <1>15, <1>16, <1>44, <2>1, <2>2, Zenon DEF MainLoop
<1>47. User => HeardInv'
  <2>1. (\E i \in DOMAIN panel.rows : SelectRow(i)) => HeardInv'
    BY <1>19
  <2>2. (\E n \in Printers \ Discovered : PrinterNameEdit(n)) => HeardInv'
    BY <1>23
  <2>3. (\E ok \in BOOLEAN : PpdSelectionDialogResponse(ok)) => HeardInv'
    BY <1>28
  <2> QED
    BY <1>14, <1>20, <1>21, <1>22, <1>24, <1>25, <1>27, <2>1, <2>2, <2>3, Zenon DEF User
<1>48. Rename => HeardInv'
  BY <1>14, <1>29, <1>31, <1>32, Zenon DEF Rename
<1>49. Addition => HeardInv'
  <2>1. (\E n \in Printers \ Discovered : PreResponse(n)) => HeardInv'
    BY <1>34
  <2> QED
    BY <1>33, <1>35, <1>36, <2>1, Zenon DEF Addition
<1>50. Others => HeardInv'
  BY <1>38, <1>39, <1>41, <1>42, <1>43 DEF Others
<1> QED
  BY <1>45, <1>46, <1>47, <1>48, <1>49, <1>50 DEF Next

\* Once the panel has heard every signal, its list and the number of jobs it shows are the
\* server's: no change that CUPS announces is lost (actualize_printers_list, on_cups_notification,
\* update_jobs_count).
THEOREM ListFollows == Spec => []ListFollowsServer
<1>1. Init => HeardInv
  <2> SUFFICES ASSUME Init PROVE HeardInv
    OBVIOUS
  <2>1. signals = <<>> /\ panel = NewPanel
    BY DEF Init
  <2> QED
    BY <2>1 DEF HeardInv, HeardOK, NewPanel
<1>2. PanelInv /\ HeardInv /\ [Next]_vars => HeardInv'
  <2> SUFFICES ASSUME PanelInv, HeardInv, [Next]_vars PROVE HeardInv'
    OBVIOUS
  <2>1. CASE Next
    BY <2>1, HeardStep
  <2>2. CASE UNCHANGED vars
    BY <2>2 DEF vars, HeardInv
  <2> QED
    BY <2>1, <2>2
<1>3. HeardInv => ListFollowsServer
  <2> SUFFICES ASSUME HeardInv, Runs, ~missed, signals = <<>>, server.up
               PROVE  /\ panel.dests = GetDests(server)
                      /\ PrinterSelected(panel) => panel.num_jobs = JobsOf(server, CurrentName(panel))
    BY DEF ListFollowsServer
  <2>1. \A k : ~Among(k, signals)
    BY DEF Among
  <2> QED
    BY <2>1 DEF HeardInv, HeardOK, Runs
<1> QED
  BY <1>1, <1>2, <1>3, PanelCorrect, PTL DEF Spec

-----------------------------------------------------------------------------
(***************************************************************************)
(* The page of the model and the requests about drivers.  A request is in  *)
(* two places, the panel's list of driver changes and the calls that have  *)
(* not been answered; both hold each printer equally often.                *)
(***************************************************************************)

Places(s, n) == {i \in DOMAIN s : s[i] = n}
Count(s, n) == Cardinality(Places(s, n))

\* r is s with e put in at place p.
Extra(s, p, e, r) ==
  /\ Len(r) = Len(s) + 1 /\ r[p] = e
  /\ \A k \in 1..Len(s) : r[IF k < p THEN k ELSE k + 1] = s[k]

LEMMA PlacesFinite ==
  ASSUME NEW T, NEW s \in Seq(T), NEW n
  PROVE  IsFiniteSet(Places(s, n)) /\ Count(s, n) \in Nat /\ (Count(s, n) > 0 <=> Contains(s, n))
<1>1. DOMAIN s = 1..Len(s) /\ Len(s) \in Nat
  OBVIOUS
<1>2. IsFiniteSet(1..Len(s))
  BY <1>1, FS_Interval
<1>3. IsFiniteSet(Places(s, n))
  BY <1>1, <1>2, FS_Subset DEF Places
<1>4. Count(s, n) \in Nat /\ (Count(s, n) = 0 <=> Places(s, n) = {})
  BY <1>3, FS_CardinalityType, FS_EmptySet DEF Count
<1>5. Contains(s, n) <=> Places(s, n) # {}
  BY <1>1 DEF Contains, Places
<1> QED
  BY <1>3, <1>4, <1>5

LEMMA CountExtra ==
  ASSUME NEW T, NEW s \in Seq(T), NEW r \in Seq(T), NEW p \in 1..(Len(s) + 1), NEW e,
         Extra(s, p, e, r), NEW n
  PROVE  Count(r, n) = Count(s, n) + (IF e = n THEN 1 ELSE 0)
<1> DEFINE sh == [k \in Places(s, n) |-> IF k < p THEN k ELSE k + 1]
           C == Places(r, n) \ {p}
<1>1. /\ Len(s) \in Nat /\ DOMAIN s = 1..Len(s) /\ DOMAIN r = 1..(Len(s) + 1)
      /\ p \in Nat /\ p \in DOMAIN r
  BY DEF Extra
<1>2. Places(s, n) \subseteq 1..Len(s) /\ Places(r, n) \subseteq 1..(Len(s) + 1)
  BY <1>1 DEF Places
<1>3. \A k \in Places(s, n) : sh[k] \in C
  <2> TAKE k \in Places(s, n)
  <2>1. k \in 1..Len(s) /\ s[k] = n
    BY <1>1 DEF Places
  <2>2. CASE k < p
    <3>1. sh[k] = k /\ k \in DOMAIN r /\ k # p
      BY <1>1, <2>1, <2>2
    <3>2. r[k] = n
      BY <2>1, <2>2 DEF Extra
    <3> QED
      BY <3>1, <3>2 DEF Places
  <2>3. CASE ~(k < p)
    <3>1. sh[k] = k + 1 /\ k + 1 \in DOMAIN r /\ k + 1 # p
      BY <1>1, <2>1, <2>3
    <3>2. r[k + 1] = n
      BY <2>1, <2>3 DEF Extra
    <3> QED
      BY <3>1, <3>2 DEF Places
  <2> QED
    BY <2>2, <2>3
<1>4. \A k, l \in Places(s, n) : sh[k] = sh[l] => k = l
  BY <1>1, <1>2
<1>5. \A j \in C : \E k \in Places(s, n) : sh[k] = j
  <2> TAKE j \in C
  <2>1. j \in 1..(Len(s) + 1) /\ r[j] = n /\ j # p
    BY <1>1 DEF Places
  <2>2. CASE j < p
    <3>1. j \in 1..Len(s)
      BY <1>1, <2>1, <2>2
    <3>2. s[j] = n
      BY <2>1, <2>2, <3>1 DEF Extra
    <3>3. j \in Places(s, n)
      BY <1>1, <3>1, <3>2 DEF Places
    <3>4. sh[j] = j
      BY <2>2, <3>3
    <3> QED
      BY <3>3, <3>4
  <2>3. CASE j > p
    <3>1. j - 1 \in 1..Len(s) /\ ~(j - 1 < p) /\ (j - 1) + 1 = j
      BY <1>1, <2>1, <2>3
    <3>2. s[j - 1] = n
      BY <2>1, <3>1 DEF Extra
    <3>3. j - 1 \in Places(s, n)
      BY <1>1, <3>1, <3>2 DEF Places
    <3>4. sh[j - 1] = j
      BY <3>1, <3>3
    <3> QED
      BY <3>3, <3>4
  <2> QED
    BY <1>1, <2>1, <2>2, <2>3
<1>6. sh \in [Places(s, n) -> C]
  BY <1>3
<1> HIDE DEF sh, C
<1>7. sh \in Bijection(Places(s, n), C)
  BY <1>4, <1>5, <1>6 DEF Bijection, Injection, IsInjective, Surjection
<1>8. IsFiniteSet(C) /\ Cardinality(C) = Count(s, n) /\ Count(s, n) \in Nat
  BY <1>7, PlacesFinite, FS_Bijection DEF ExistsBijection, Count
<1>9. CASE e = n
  <2>1. Places(r, n) = C \cup {p} /\ p \notin C
    BY <1>1, <1>9 DEF Extra, Places, C
  <2> QED
    BY <1>8, <1>9, <2>1, FS_AddElement DEF Count
<1>10. CASE e # n
  <2>1. Places(r, n) = C
    BY <1>10 DEF Extra, Places, C
  <2> QED
    BY <1>8, <1>10, <2>1 DEF Count
<1> QED
  BY <1>9, <1>10

LEMMA CountPrepend ==
  ASSUME NEW T, NEW s \in Seq(T), NEW e \in T, NEW n
  PROVE  <<e>> \o s \in Seq(T) /\ Count(<<e>> \o s, n) = Count(s, n) + (IF e = n THEN 1 ELSE 0)
<1> DEFINE r == <<e>> \o s
<1>1. /\ r \in Seq(T) /\ Len(r) = Len(s) + 1 /\ r[1] = e
      /\ \A k \in 1..Len(s) : r[k + 1] = s[k]
  OBVIOUS
<1> HIDE DEF r
<1>2. Extra(s, 1, e, r)
  BY <1>1 DEF Extra
<1>3. 1 \in 1..(Len(s) + 1)
  OBVIOUS
<1>4. Count(r, n) = Count(s, n) + (IF e = n THEN 1 ELSE 0)
  BY <1>1, <1>2, <1>3, CountExtra
<1> QED
  BY <1>1, <1>4 DEF r

LEMMA CountAppend ==
  ASSUME NEW T, NEW s \in Seq(T), NEW e \in T, NEW n
  PROVE  Count(Append(s, e), n) = Count(s, n) + (IF e = n THEN 1 ELSE 0)
<1> DEFINE r == Append(s, e)
<1>1. /\ r \in Seq(T) /\ Len(r) = Len(s) + 1 /\ r[Len(s) + 1] = e
      /\ \A k \in 1..Len(s) : r[k] = s[k]
  BY AppendProperties
<1> HIDE DEF r
<1>2. PICK p : p = Len(s) + 1
  OBVIOUS
<1>3. Extra(s, p, e, r)
  BY <1>1, <1>2 DEF Extra
<1>4. p \in 1..(Len(s) + 1)
  BY <1>2
<1>5. Count(r, n) = Count(s, n) + (IF e = n THEN 1 ELSE 0)
  BY <1>1, <1>3, <1>4, CountExtra
<1> QED
  BY <1>5 DEF r

LEMMA CountRemoveAt ==
  ASSUME NEW T, NEW s \in Seq(T), NEW i \in DOMAIN s, NEW n
  PROVE  Count(s, n) = Count(RemoveAt(s, i), n) + (IF s[i] = n THEN 1 ELSE 0)
<1> DEFINE a == SubSeq(s, 1, i - 1)
           c == SubSeq(s, i + 1, Len(s))
           r == RemoveAt(s, i)
<1>1. Len(s) \in Nat /\ DOMAIN s = 1..Len(s) /\ i \in 1..Len(s) /\ i \in Nat
  OBVIOUS
<1>2. a \in Seq(T) /\ Len(a) = i - 1 /\ \A k \in 1..(i - 1) : a[k] = s[k]
  BY <1>1, SubSeqProperties
<1>3. c \in Seq(T) /\ Len(c) = Len(s) - i /\ \A k \in 1..(Len(s) - i) : c[k] = s[i + k]
  BY <1>1, SubSeqProperties
<1>4. r = a \o c
  BY DEF RemoveAt
<1> HIDE DEF a, c, r
<1>5. /\ r \in Seq(T) /\ Len(r) = Len(a) + Len(c)
      /\ \A k \in 1..(Len(a) + Len(c)) : r[k] = IF k <= Len(a) THEN a[k] ELSE c[k - Len(a)]
  BY <1>2, <1>3, <1>4, ConcatProperties
<1>6. Len(s) = Len(r) + 1 /\ i \in 1..(Len(r) + 1) /\ Len(r) \in Nat
  <2>1. Len(r) = (i - 1) + (Len(s) - i)
    BY <1>2, <1>3, <1>5
  <2>2. Len(r) = Len(s) - 1
    BY <1>1, <2>1
  <2> QED
    BY <1>1, <2>2
<1>7. ASSUME NEW k \in 1..Len(r) PROVE s[IF k < i THEN k ELSE k + 1] = r[k]
  <2>1. CASE k < i
    <3>1. k \in 1..(i - 1) /\ k <= Len(a) /\ k \in 1..(Len(a) + Len(c))
      BY <1>1, <1>2, <1>5, <1>6, <2>1
    <3>2. r[k] = a[k]
      BY <1>5, <3>1
    <3> QED
      BY <1>2, <2>1, <3>1, <3>2
  <2>2. CASE ~(k < i)
    <3>1. /\ k - (i - 1) \in 1..(Len(s) - i) /\ (i - 1) + (k - (i - 1)) = k
          /\ i + (k - (i - 1)) = k + 1
      BY <1>1, <1>6, <2>2
    <3>2. r[k] = c[k - (i - 1)]
      <4>1. ~(k <= Len(a)) /\ k \in 1..(Len(a) + Len(c)) /\ k - Len(a) = k - (i - 1)
        BY <1>1, <1>2, <1>5, <1>6, <2>2
      <4> QED
        BY <1>5, <4>1
    <3>3. c[k - (i - 1)] = s[k + 1]
      BY <1>3, <3>1
    <3> QED
      BY <2>2, <3>2, <3>3
  <2> QED
    BY <2>1, <2>2
<1>8. Extra(r, i, s[i], s)
  BY <1>6, <1>7 DEF Extra
<1>9. Count(s, n) = Count(r, n) + (IF s[i] = n THEN 1 ELSE 0)
  BY <1>5, <1>6, <1>8, CountExtra
<1> QED
  BY <1>9 DEF r

LEMMA CountRemoveFirst ==
  ASSUME NEW T, NEW s \in Seq(T), NEW e, Contains(s, e), NEW n
  PROVE  /\ RemoveFirst(s, e) \in Seq(T)
         /\ Count(s, n) = Count(RemoveFirst(s, e), n) + (IF e = n THEN 1 ELSE 0)
<1> DEFINE I == {k \in 1..Len(s) : s[k] = e}
           i == Min(I)
<1>1. I \subseteq Nat /\ I # {}
  BY DEF Contains
<1>2. \E k \in I : \A l \in I : k <= l
  BY <1>1, LeastNumber
<1>3. RemoveFirst(s, e) = RemoveAt(s, i)
  BY <1>1 DEF RemoveFirst, SelectInSeq, Contains
<1>4. i \in I
  <2> HIDE DEF I
  <2> QED
    BY <1>2 DEF Min
<1> HIDE DEF i
<1>5. i \in DOMAIN s /\ s[i] = e
  BY <1>4
<1> QED
  BY <1>3, <1>5, CountRemoveAt, RemoveAtType

MenuFields == {"open", "printer", "offers", "informal"}
Searched(p, sr) ==
  (p.popup_menu.open /\ p.popup_menu.informal = "searching" /\ p.popup_menu.printer # NoPrinter)
  => sr = [printer |-> p.popup_menu.printer, cancelled |-> FALSE]
Balanced(p, c) ==
  /\ p.driver_change_list \in Seq(Printers) /\ c \in Seq(Printers)
  /\ \A n \in Printers : Count(p.driver_change_list, n) = Count(c, n)
SearchOK(p, sr) ==
  /\ DOMAIN p.popup_menu = MenuFields /\ DOMAIN sr = {"printer", "cancelled"}
  /\ p.getting_ppd_names = (sr.printer # NoPrinter)
  /\ Searched(p, sr)

\* The inductive invariant of the requests
ReqInv == Balanced(panel, calls) /\ SearchOK(panel, search)

SameDriver(p, q) ==
  /\ q.driver_change_list = p.driver_change_list /\ q.getting_ppd_names = p.getting_ppd_names
  /\ q.popup_menu = p.popup_menu

LEMMA SameDriverOK ==
  ASSUME ReqInv, SameDriver(panel, panel'), calls' = calls, search' = search
  PROVE  ReqInv'
  BY DEF ReqInv, Balanced, SearchOK, Searched, SameDriver

\* A request for printer n is made, and one is answered.
LEMMA BalancedAdd ==
  ASSUME NEW p, NEW c, Balanced(p, c), NEW n \in Printers, NEW q,
         q.driver_change_list = <<n>> \o p.driver_change_list
  PROVE  Balanced(q, Append(c, n))
<1>1. p.driver_change_list \in Seq(Printers) /\ c \in Seq(Printers)
  BY DEF Balanced
<1>2. q.driver_change_list \in Seq(Printers) /\ Append(c, n) \in Seq(Printers)
  BY <1>1, CountPrepend, AppendProperties
<1>3. ASSUME NEW m \in Printers
      PROVE  Count(q.driver_change_list, m) = Count(Append(c, n), m)
  <2>1. Count(q.driver_change_list, m) = Count(p.driver_change_list, m) + (IF n = m THEN 1 ELSE 0)
    BY <1>1, CountPrepend
  <2>2. Count(Append(c, n), m) = Count(c, m) + (IF n = m THEN 1 ELSE 0)
    BY <1>1, CountAppend
  <2>3. Count(p.driver_change_list, m) = Count(c, m)
    BY DEF Balanced
  <2> QED
    BY <2>1, <2>2, <2>3
<1> QED
  BY <1>2, <1>3 DEF Balanced

LEMMA BalancedRemove ==
  ASSUME NEW p, NEW c, Balanced(p, c), NEW i \in DOMAIN c, NEW q,
         q.driver_change_list = RemoveFirst(p.driver_change_list, c[i])
  PROVE  Balanced(q, RemoveAt(c, i))
<1>1. p.driver_change_list \in Seq(Printers) /\ c \in Seq(Printers) /\ c[i] \in Printers
  BY DEF Balanced
<1>2. Contains(p.driver_change_list, c[i])
  <2>1. Contains(c, c[i])
    BY <1>1 DEF Contains
  <2>2. Count(p.driver_change_list, c[i]) = Count(c, c[i])
    BY <1>1 DEF Balanced
  <2> QED
    BY <1>1, <2>1, <2>2, PlacesFinite
<1>3. q.driver_change_list \in Seq(Printers) /\ RemoveAt(c, i) \in Seq(Printers)
  BY <1>1, <1>2, CountRemoveFirst, RemoveAtType
<1>4. ASSUME NEW m \in Printers
      PROVE  Count(q.driver_change_list, m) = Count(RemoveAt(c, i), m)
  <2> DEFINE d == IF c[i] = m THEN 1 ELSE 0
  <2>1. Count(p.driver_change_list, m) = Count(q.driver_change_list, m) + d
    BY <1>1, <1>2, CountRemoveFirst
  <2>2. Count(c, m) = Count(RemoveAt(c, i), m) + d
    BY <1>1, CountRemoveAt
  <2>3. Count(p.driver_change_list, m) = Count(c, m)
    BY DEF Balanced
  <2>4. Count(q.driver_change_list, m) \in Nat /\ Count(RemoveAt(c, i), m) \in Nat /\ d \in Nat
    BY <1>3, PlacesFinite
  <2> HIDE DEF d
  <2> QED
    BY <2>1, <2>2, <2>3, <2>4
<1> QED
  BY <1>3, <1>4 DEF Balanced

\* get_ppd_names_cb ends the search that it answers, and the menu does not wait any longer.
LEMMA GetPpdNamesSearch ==
  ASSUME NEW b, DOMAIN b = PanelFields, DOMAIN b.popup_menu = MenuFields, NEW q, FromGetPpdNames(b, q)
  PROVE  /\ q.driver_change_list = b.driver_change_list /\ q.getting_ppd_names = FALSE
         /\ DOMAIN q.popup_menu = MenuFields /\ q.popup_menu.informal # "searching"
<1> PICK name, cancelled, found : q = GetPpdNames(b, name, cancelled, found)
  BY DEF FromGetPpdNames
<1> DEFINE known == IF cancelled \/ name \in DOMAIN b.preferred_drivers THEN b.preferred_drivers
                    ELSE With(b.preferred_drivers, name, found)
           offers == name \in DOMAIN known /\ known[name]
           o == b.popup_menu.offers \/ offers
           j == IF offers THEN "hidden" ELSE "not found"
           c == [b EXCEPT !.getting_ppd_names = FALSE, !.preferred_drivers = known,
                          !.popup_menu.offers = o, !.popup_menu.informal = j]
<1>1. q = UpdateSensitivity(c)
  <2>1. c = [b EXCEPT !.getting_ppd_names = FALSE, !.preferred_drivers = known,
                      !.popup_menu.offers = @ \/ offers,
                      !.popup_menu.informal = IF offers THEN "hidden" ELSE "not found"]
    OBVIOUS
  <2> HIDE DEF c
  <2> QED
    BY <2>1, Zenon DEF GetPpdNames
<1>2. j # "searching"
  OBVIOUS
<1> HIDE DEF known, offers, o, j
<1>3. /\ DOMAIN c = PanelFields /\ c.getting_ppd_names = FALSE
      /\ c.driver_change_list = b.driver_change_list
      /\ c.popup_menu = [b.popup_menu EXCEPT !.offers = o, !.informal = j]
  BY DEF PanelFields
<1>4. DOMAIN c.popup_menu = MenuFields /\ c.popup_menu.informal = j
  BY <1>3 DEF MenuFields
<1> HIDE DEF c
<1>5. SameRequests(c, q)
  BY <1>1, <1>3, SensitivityFacts
<1> QED
  BY <1>2, <1>3, <1>4, <1>5 DEF SameRequests

LEMMA ReqStep ==
  ASSUME PanelInv, ReqInv, Next
  PROVE  ReqInv'
<1> USE DEF AdditionFrame, RenameFrame
<1>1. /\ ServerOK(server) /\ ServerOK(server')
      /\ panel.loaded # "no" => ListOK(panel)
      /\ rename.pc # "idle" => panel.loaded # "no"
  BY ServerStep DEF PanelInv, ListPart
<1>2. /\ DOMAIN panel = PanelFields /\ DOMAIN panel.shown = ShownFields
      /\ panel.page \in Pages /\ panel.new_printer_name \in Names
  BY PanelFacts
<1>3. /\ Balanced(panel, calls) /\ SearchOK(panel, search)
      /\ DOMAIN panel.popup_menu = MenuFields /\ DOMAIN search = {"printer", "cancelled"}
      /\ panel.getting_ppd_names = (search.printer # NoPrinter)
  BY DEF ReqInv, SearchOK
<1>4. Runs \/ UserActs => panel.loaded # "no"
  BY DEF Runs, UserActs
<1> DEFINE Same == calls' = calls /\ search' = search
\* Steps that make no request about a driver and get no answer
<1>5. ASSUME Same, SameDriver(panel, panel') PROVE ReqInv'
  BY <1>5, SameDriverOK
<1>6. ASSUME Same, panel' = panel PROVE ReqInv'
  BY <1>5, <1>6 DEF SameDriver
<1>7. ASSUME NEW s, ServerOK(s), Same, panel' = ActualizePrintersList(panel, s) PROVE ReqInv'
  <2>1. SameRequests(panel, panel')
    BY <1>2, <1>7, ActualizeFacts
  <2> QED
    BY <1>5, <1>7, <2>1 DEF SameRequests, SameDriver
<1>8. ASSUME NEW s, ServerOK(s), NEW p, DOMAIN p = PanelFields, DOMAIN p.shown = ShownFields,
             p.page \in Pages, p.new_printer_name \in Names, SameDriver(panel, p), Same,
             panel' = ActualizePrintersList(p, s)
      PROVE  ReqInv'
  <2>1. SameRequests(p, panel')
    BY <1>8, ActualizeFacts
  <2> QED
    BY <1>5, <1>8, <2>1 DEF SameRequests, SameDriver
<1> HIDE DEF Same
<1>9. CASE PopulatePrintersList
  <2> DEFINE q == ActualizePrintersList(panel, server)
  <2>1. SameRequests(panel, q) /\ DOMAIN q = PanelFields
    BY <1>1, <1>2, ActualizeFacts DEF ListOK, ListMade
  <2>2. panel' = [q EXCEPT !.loaded = "populated"] /\ Same
    BY <1>9 DEF PopulatePrintersList, Same
  <2> HIDE DEF q
  <2>3. SameDriver(panel, panel')
    BY <2>1, <2>2 DEF PanelFields, SameRequests, SameDriver
  <2> QED
    BY <1>5, <2>2, <2>3
<1>10. CASE AttachToCupsNotifier \/ StartStatusCheck
  <2>1. Same /\ \E l \in {"attached", "done"} : panel' = [panel EXCEPT !.loaded = l]
    BY <1>10 DEF AttachToCupsNotifier, StartStatusCheck, Same
  <2>2. SameDriver(panel, panel')
    BY <1>2, <2>1 DEF PanelFields, SameDriver
  <2> QED
    BY <1>5, <2>1, <2>2
<1>11. CASE CupsStatusCheck \/ PrinterLocationEdit \/ RenameDone
  <2>1. panel' = ActualizePrintersList(panel, server) /\ Same
    BY <1>11 DEF CupsStatusCheck, PrinterLocationEdit, RenameDone, Actualized, Same
  <2> QED
    BY <1>1, <1>7, <2>1
<1>12. CASE OnCupsNotification
  <2>1. /\ Same
        /\ \/ panel' = ActualizePrintersList(panel, server)
           \/ panel' = UpdateJobsCount(panel, server)
           \/ panel' = panel
    BY <1>12 DEF OnCupsNotification, Actualized, Same
  <2>2. CASE panel' = UpdateJobsCount(panel, server)
    <3> DEFINE n == IF PrinterSelected(panel) THEN JobsOf(server, CurrentName(panel)) ELSE -1
    <3>1. panel' = [panel EXCEPT !.num_jobs = n]
      BY <2>2 DEF UpdateJobsCount
    <3> HIDE DEF n
    <3>2. SameDriver(panel, panel')
      BY <1>2, <3>1 DEF PanelFields, SameDriver
    <3> QED
      BY <1>5, <2>1, <3>2
  <2> QED
    BY <1>1, <1>6, <1>7, <2>1, <2>2
<1>13. ASSUME NEW b, DOMAIN b = PanelFields, SameDriver(panel, b), panel' = UpdateSensitivity(b), Same
       PROVE  ReqInv'
  <2>1. SameRequests(b, panel')
    BY <1>13, SensitivityFacts
  <2>2. SameDriver(panel, panel')
    BY <1>13, <2>1 DEF SameRequests, SameDriver
  <2> QED
    BY <1>5, <1>13, <2>2
<1>14. CASE OnPermissionChanged
  <2> DEFINE a == ~panel.is_authorized
           b == [panel EXCEPT !.is_authorized = a]
  <2>1. panel' = UpdateSensitivity(b) /\ Same
    BY <1>14 DEF OnPermissionChanged, DriverFrame, Same
  <2> HIDE DEF a
  <2>2. DOMAIN b = PanelFields /\ SameDriver(panel, b)
    BY <1>2 DEF PanelFields, SameDriver
  <2> HIDE DEF b
  <2> QED
    BY <1>13, <2>1, <2>2
<1>15. ASSUME NEW i \in DOMAIN panel.rows, SelectRow(i) PROVE ReqInv'
  <2>1. /\ panel.loaded # "no" /\ panel.rows[i].name # NoPrinter /\ Same
        /\ panel' = SelectionChanged(panel, server, i)
    BY <1>4, <1>15 DEF SelectRow, Same
  <2>2. SameRequests(panel, panel')
    BY <1>1, <2>1, SelectionFacts DEF ListOK
  <2> QED
    BY <1>5, <2>1, <2>2 DEF SameRequests, SameDriver
<1>16. CASE PrinterDisable
  <2>1. /\ Same
        /\ \/ panel' = ActualizePrintersList(panel, server')
           \/ panel' = [panel EXCEPT !.shown.enabled = ~panel.shown.enabled]
    BY <1>16 DEF PrinterDisable, Actualized, ServerBecomes, Same
  <2>2. CASE panel' = [panel EXCEPT !.shown.enabled = ~panel.shown.enabled]
    <3>1. SameDriver(panel, panel')
      BY <1>2, <2>2 DEF PanelFields, SameDriver
    <3> QED
      BY <1>5, <2>1, <3>1
  <2> QED
    BY <1>1, <1>7, <2>1, <2>2
<1>17. CASE PrinterSetDefault
  <2>1. Same
    BY <1>17 DEF PrinterSetDefault, Same
  <2>2. CASE CurrentName(panel) = NoPrinter
    <3> DEFINE d == ~panel.shown.is_default
    <3>1. panel' = [panel EXCEPT !.shown.is_default = d]
      BY <1>17, <2>2 DEF PrinterSetDefault
    <3> HIDE DEF d
    <3>2. SameDriver(panel, panel')
      BY <1>2, <3>1 DEF PanelFields, SameDriver
    <3> QED
      BY <1>5, <2>1, <3>2
  <2>3. CASE CurrentName(panel) # NoPrinter
    <3> DEFINE p == ActualizePrintersList(panel, server')
    <3>1. \/ panel' = p \/ panel' = [p EXCEPT !.crashed = TRUE]
          \/ \E b \in BOOLEAN : panel' = [p EXCEPT !.shown.is_default = b]
      <4>1. PICK ok \in BOOLEAN :
              LET after == IF ok THEN [server EXCEPT !.default = CurrentName(panel)] ELSE server
                  q == ActualizePrintersList(panel, after)
              IN /\ ServerBecomes(after, PrinterSignal)
                 /\ \/ PrinterSelected(q) /\ panel' = q
                    \/ ~PrinterSelected(q) /\ panel' = [q EXCEPT !.crashed = TRUE]
                    \/ /\ ~PrinterSelected(q) /\ q.dests # <<>>
                       /\ \E b \in BOOLEAN : panel' = [q EXCEPT !.shown.is_default = b]
        BY <1>17, <2>3, Zenon DEF PrinterSetDefault
      <4> DEFINE after == IF ok THEN [server EXCEPT !.default = CurrentName(panel)] ELSE server
      <4>2. server' = after
        BY <4>1 DEF ServerBecomes
      <4> HIDE DEF after
      <4> QED
        BY <4>1, <4>2, Zenon DEF after
    <3>2. SameRequests(panel, p) /\ DOMAIN p = PanelFields
      BY <1>1, <1>2, ActualizeFacts DEF ListOK, ListMade
    <3> HIDE DEF p
    <3>3. SameDriver(panel, panel')
      BY <3>1, <3>2 DEF PanelFields, SameRequests, SameDriver
    <3> QED
      BY <1>5, <2>1, <3>3
  <2> QED
    BY <2>2, <2>3
<1>18. CASE PrinterRemove
  <2>1. /\ Same
        /\ panel' = ActualizePrintersList(panel, server') \/ panel' = panel
    BY <1>18 DEF PrinterRemove, Actualized, ServerBecomes, Same
  <2> QED
    BY <1>1, <1>6, <1>7, <2>1
<1>19. CASE PrinterAdd
  <2>1. panel' = [panel EXCEPT !.adding = "search"] /\ Same
    BY <1>19 DEF PrinterAdd, Same
  <2>2. SameDriver(panel, panel')
    BY <1>2, <2>1 DEF PanelFields, SameDriver
  <2> QED
    BY <1>5, <2>1, <2>2
<1>20. ASSUME NEW n \in Printers, PreResponse(n) PROVE ReqInv'
  <2> DEFINE p == [panel EXCEPT !.adding = "adding", !.new_printer_name = n,
                                !.select_new_printer = TRUE]
  <2>1. Same /\ panel' = ActualizePrintersList(p, server)
    BY <1>20 DEF PreResponse, Actualized, Same
  <2>2. /\ DOMAIN p = PanelFields /\ DOMAIN p.shown = ShownFields /\ p.page \in Pages
        /\ p.new_printer_name \in Names /\ SameDriver(panel, p)
    BY <1>2 DEF PanelFields, Names, SameDriver
  <2> HIDE DEF p
  <2> QED
    BY <1>1, <1>8, <2>1, <2>2
<1>21. CASE NewPrinterDialogResponse
  <2> DEFINE p == [panel EXCEPT !.adding = "none", !.new_printer_name = NoPrinter]
  <2>1. Same /\ panel' = ActualizePrintersList(p, server)
    BY <1>21 DEF NewPrinterDialogResponse, Actualized, Same
  <2>2. /\ DOMAIN p = PanelFields /\ DOMAIN p.shown = ShownFields /\ p.page \in Pages
        /\ p.new_printer_name \in Names /\ SameDriver(panel, p)
    BY <1>2 DEF PanelFields, Names, SameDriver
  <2> HIDE DEF p
  <2> QED
    BY <1>1, <1>8, <2>1, <2>2
\* The menu, the search and the requests
<1>22. CASE PopupModelMenu
  <2> DEFINE name == CurrentName(panel)
             menu == [open |-> TRUE, printer |-> name, offers |-> FALSE, informal |-> "searching"]
             p == [panel EXCEPT !.popup_menu = menu]
             b == [p EXCEPT !.getting_ppd_names = TRUE]
  <2>1. /\ panel.loaded # "no" /\ panel.model_page = "button" /\ calls' = calls
        /\ \/ /\ name # NoPrinter /\ panel' = UpdateSensitivity(b)
              /\ search' = [printer |-> name, cancelled |-> FALSE]
           \/ name = NoPrinter /\ panel' = p /\ search' = search
           \/ panel' = GetPpdNames(p, name, FALSE, FALSE) /\ search' = search
    BY <1>4, <1>22, Zenon DEF PopupModelMenu
  <2>2. DOMAIN menu = MenuFields /\ menu.printer = name
    BY DEF MenuFields
  <2> HIDE DEF name, menu
  <2>3. /\ DOMAIN p = PanelFields /\ p.popup_menu = menu
        /\ p.driver_change_list = panel.driver_change_list
        /\ p.getting_ppd_names = panel.getting_ppd_names
    BY <1>2 DEF PanelFields
  <2>4. /\ DOMAIN b = PanelFields /\ b.popup_menu = menu /\ b.getting_ppd_names = TRUE
        /\ b.driver_change_list = panel.driver_change_list
    BY <1>2 DEF PanelFields
  <2> HIDE DEF p, b
  \* The button is there only when nothing is searched for.
  <2>5. search.printer = NoPrinter
    <3>1. ModelPage(panel) = "button"
      BY <1>1, <2>1 DEF ListOK
    <3>2. ~panel.getting_ppd_names
      BY <3>1 DEF ModelPage
    <3> QED
      BY <1>3, <3>2
  <2>6. CASE /\ name # NoPrinter /\ panel' = UpdateSensitivity(b)
             /\ search' = [printer |-> name, cancelled |-> FALSE]
    <3>1. SameRequests(b, panel')
      BY <2>4, <2>6, SensitivityFacts
    <3>2. /\ panel'.popup_menu = menu /\ panel'.getting_ppd_names = TRUE
          /\ panel'.driver_change_list = panel.driver_change_list
      BY <2>4, <3>1 DEF SameRequests
    <3>3. SearchOK(panel', search')
      BY <2>2, <2>6, <3>2 DEF SearchOK, Searched
    <3>4. Balanced(panel', calls')
      BY <1>3, <2>1, <3>2 DEF Balanced
    <3> QED
      BY <3>3, <3>4 DEF ReqInv
  <2>7. CASE name = NoPrinter /\ panel' = p /\ search' = search
    <3>1. SearchOK(panel', search')
      BY <1>3, <2>2, <2>3, <2>7 DEF SearchOK, Searched
    <3>2. Balanced(panel', calls')
      BY <1>3, <2>1, <2>3, <2>7 DEF Balanced
    <3> QED
      BY <3>1, <3>2 DEF ReqInv
  <2>8. CASE panel' = GetPpdNames(p, name, FALSE, FALSE) /\ search' = search
    <3>1. FromGetPpdNames(p, panel')
      BY <2>8, Zenon DEF FromGetPpdNames
    <3>2. /\ panel'.driver_change_list = p.driver_change_list /\ panel'.getting_ppd_names = FALSE
          /\ DOMAIN panel'.popup_menu = MenuFields /\ panel'.popup_menu.informal # "searching"
      BY <2>2, <2>3, <3>1, GetPpdNamesSearch
    <3>3. SearchOK(panel', search')
      BY <1>3, <2>5, <2>8, <3>2 DEF SearchOK, Searched
    <3>4. Balanced(panel', calls')
      BY <1>3, <2>1, <2>3, <3>2 DEF Balanced
    <3> QED
      BY <3>3, <3>4 DEF ReqInv
  <2> QED
    BY <2>1, <2>6, <2>7, <2>8
<1>23. ASSUME NEW found, SearchAnswered(found) PROVE ReqInv'
  <2>1. /\ FromGetPpdNames(panel, panel') /\ calls' = calls
        /\ search' = [printer |-> NoPrinter, cancelled |-> FALSE]
    BY <1>23, Zenon DEF SearchAnswered, FromGetPpdNames
  <2>2. /\ panel'.driver_change_list = panel.driver_change_list /\ panel'.getting_ppd_names = FALSE
        /\ DOMAIN panel'.popup_menu = MenuFields /\ panel'.popup_menu.informal # "searching"
    BY <1>2, <1>3, <2>1, GetPpdNamesSearch
  <2>3. SearchOK(panel', search')
    BY <2>1, <2>2 DEF SearchOK, Searched
  <2>4. Balanced(panel', calls')
    BY <1>3, <2>1, <2>2 DEF Balanced
  <2> QED
    BY <2>3, <2>4 DEF ReqInv
\* The menu closes and its search is cancelled, or the chooser closes; nothing waits then.
<1>24. ASSUME NEW p, DOMAIN p = PanelFields, p.driver_change_list = panel.driver_change_list,
              p.getting_ppd_names = panel.getting_ppd_names,
              \/ /\ p.popup_menu = [panel.popup_menu EXCEPT !.open = FALSE] /\ PopupMenuDone
              \/ p.popup_menu = panel.popup_menu /\ search' = search
       PROVE  SearchOK(p, search')
  <2>1. CASE p.popup_menu = [panel.popup_menu EXCEPT !.open = FALSE] /\ PopupMenuDone
    <3> DEFINE c == search.cancelled \/ search.printer # NoPrinter
    <3>1. search' = [search EXCEPT !.cancelled = c]
      BY <2>1 DEF PopupMenuDone
    <3> HIDE DEF c
    <3>2. DOMAIN search' = {"printer", "cancelled"} /\ search'.printer = search.printer
      BY <1>3, <3>1
    <3>3. DOMAIN p.popup_menu = MenuFields /\ p.popup_menu.open = FALSE
      BY <1>3, <2>1 DEF MenuFields
    <3> QED
      BY <1>3, <1>24, <3>2, <3>3 DEF SearchOK, Searched
  <2>2. CASE p.popup_menu = panel.popup_menu /\ search' = search
    BY <1>3, <1>24, <2>2 DEF SearchOK, Searched
  <2> QED
    BY <1>24, <2>1, <2>2
<1>25. CASE CloseMenu \/ OpenChooser
  <2>1. /\ calls' = calls /\ PopupMenuDone
        /\ \/ panel' = [panel EXCEPT !.popup_menu.open = FALSE]
           \/ panel' = [[panel EXCEPT !.popup_menu.open = FALSE] EXCEPT !.chooser = TRUE]
    BY <1>25 DEF CloseMenu, OpenChooser, Closed
  <2>2. /\ DOMAIN panel' = PanelFields /\ panel'.driver_change_list = panel.driver_change_list
        /\ panel'.getting_ppd_names = panel.getting_ppd_names
        /\ panel'.popup_menu = [panel.popup_menu EXCEPT !.open = FALSE]
    BY <1>2, <2>1 DEF PanelFields
  <2>3. SearchOK(panel', search')
    BY <1>24, <2>1, <2>2
  <2>4. Balanced(panel', calls')
    BY <1>3, <2>1, <2>2 DEF Balanced
  <2> QED
    BY <2>3, <2>4 DEF ReqInv
<1>26. ASSUME NEW p, panel.loaded # "no", SetPpd(p),
              \/ p = [panel EXCEPT !.popup_menu.open = FALSE] /\ PopupMenuDone
              \/ p = [panel EXCEPT !.chooser = FALSE] /\ search' = search
       PROVE  ReqInv'
  <2>1. /\ DOMAIN p = PanelFields /\ p.driver_change_list = panel.driver_change_list
        /\ p.getting_ppd_names = panel.getting_ppd_names
        /\ \/ p.popup_menu = [panel.popup_menu EXCEPT !.open = FALSE] /\ PopupMenuDone
           \/ p.popup_menu = panel.popup_menu /\ search' = search
    BY <1>2, <1>26 DEF PanelFields
  <2>2. SearchOK(p, search')
    BY <1>24, <2>1
  <2>3. CurrentName(p) \in Printers \cup {NoPrinter}
    BY <1>1, <1>2, <1>26, SetPpdName
  <2>4. Balanced(p, calls)
    BY <1>3, <2>1 DEF Balanced
  <2> DEFINE n == CurrentName(p)
             l == <<n>> \o p.driver_change_list
             b == [p EXCEPT !.driver_change_list = l]
  <2>5. IF n = NoPrinter THEN panel' = p /\ calls' = calls
        ELSE panel' = UpdateSensitivity(b) /\ calls' = Append(calls, n)
    BY <1>26, Zenon DEF SetPpd
  <2>6. CASE n = NoPrinter
    BY <2>2, <2>4, <2>5, <2>6 DEF ReqInv
  <2>7. CASE n # NoPrinter
    <3>1. l = <<n>> \o p.driver_change_list
      OBVIOUS
    <3> HIDE DEF l
    <3>2. /\ DOMAIN b = PanelFields /\ b.driver_change_list = l
          /\ b.getting_ppd_names = p.getting_ppd_names /\ b.popup_menu = p.popup_menu
      BY <2>1 DEF PanelFields
    <3>3. n \in Printers
      BY <2>3, <2>7
    <3> HIDE DEF b, n
    <3>4. SameRequests(b, panel') /\ calls' = Append(calls, n)
      BY <2>5, <2>7, <3>2, SensitivityFacts
    <3>5. /\ panel'.driver_change_list = l /\ panel'.getting_ppd_names = p.getting_ppd_names
          /\ panel'.popup_menu = p.popup_menu
      BY <3>2, <3>4 DEF SameRequests
    <3>6. Balanced(panel', calls')
      BY <2>4, <3>1, <3>3, <3>4, <3>5, BalancedAdd
    <3>7. SearchOK(panel', search')
      BY <2>2, <3>5 DEF SearchOK, Searched
    <3> QED
      BY <3>6, <3>7 DEF ReqInv
  <2> QED
    BY <2>6, <2>7
<1>27. CASE SetPpdFromList
  BY <1>4, <1>26, <1>27 DEF SetPpdFromList, Closed
<1>28. ASSUME NEW ok, PpdSelectionDialogResponse(ok) PROVE ReqInv'
  <2>1. panel.loaded # "no" /\ search' = search
    BY <1>4, <1>28 DEF PpdSelectionDialogResponse
  <2>2. \/ SetPpd([panel EXCEPT !.chooser = FALSE])
        \/ panel' = [panel EXCEPT !.chooser = FALSE] /\ calls' = calls
    BY <1>28 DEF PpdSelectionDialogResponse
  <2>3. CASE panel' = [panel EXCEPT !.chooser = FALSE] /\ calls' = calls
    <3>1. SameDriver(panel, panel')
      BY <1>2, <2>3 DEF PanelFields, SameDriver
    <3> QED
      BY <1>5, <2>1, <2>3, <3>1 DEF Same
  <2> QED
    BY <1>26, <2>1, <2>2, <2>3
<1>29. ASSUME NEW i \in DOMAIN calls, NEW ok \in BOOLEAN, SetPpdCallback(i, ok) PROVE ReqInv'
  <2> DEFINE l == RemoveFirst(panel.driver_change_list, calls[i])
             b == [panel EXCEPT !.driver_change_list = l]
             p == UpdateSensitivity(b)
  <2>1. /\ panel.loaded # "no" /\ search' = search /\ calls' = RemoveAt(calls, i)
        /\ panel' = p \/ panel' = ActualizePrintersList(p, server)
    BY <1>4, <1>29 DEF SetPpdCallback, Actualized
  <2>2. l = RemoveFirst(panel.driver_change_list, calls[i])
    OBVIOUS
  <2> HIDE DEF l
  <2>3. /\ DOMAIN b = PanelFields /\ SameList(panel, b) /\ b.driver_change_list = l
        /\ b.new_printer_name = panel.new_printer_name
        /\ b.getting_ppd_names = panel.getting_ppd_names /\ b.popup_menu = panel.popup_menu
    BY <1>2 DEF PanelFields, SameList, SameRows
  <2> HIDE DEF b
  <2>4. ListOK(p) /\ SameRequests(b, p)
    BY <1>1, <2>1, <2>3, SensitiveList
  <2>5. /\ DOMAIN p = PanelFields /\ DOMAIN p.shown = ShownFields /\ p.page \in Pages
        /\ p.new_printer_name \in Names
    BY <2>4 DEF ListOK, ListMade
  <2> HIDE DEF p
  <2>6. SameDriver(p, panel')
    <3>1. CASE panel' = p
      BY <3>1 DEF SameDriver
    <3>2. CASE panel' = ActualizePrintersList(p, server)
      <4>1. SameRequests(p, panel')
        BY <1>1, <2>5, <3>2, ActualizeFacts
      <4> QED
        BY <4>1 DEF SameRequests, SameDriver
    <3> QED
      BY <2>1, <3>1, <3>2
  <2>7. /\ panel'.driver_change_list = l /\ panel'.getting_ppd_names = panel.getting_ppd_names
        /\ panel'.popup_menu = panel.popup_menu
    BY <2>3, <2>4, <2>6 DEF SameRequests, SameDriver
  <2>8. Balanced(panel', calls')
    BY <1>3, <2>1, <2>2, <2>7, BalancedRemove
  <2>9. SearchOK(panel', search')
    BY <1>3, <2>1, <2>7 DEF SearchOK, Searched
  <2> QED
    BY <2>8, <2>9 DEF ReqInv
\* The rest leaves the panel and its requests alone.
<1>30. RenewSubscription \/ SubscriptionExpires \/ AdditionCreates => Same /\ panel' = panel
  BY DEF RenewSubscription, SubscriptionExpires, AdditionCreates, Same
<1>31. (\E n \in Printers \ Discovered : PrinterNameEdit(n)) => Same /\ panel' = panel
  BY DEF PrinterNameEdit, Same
<1>32. (Rename /\ ~RenameDone) => Same /\ panel' = panel
  BY DEF Rename, RenameCheck, RenameStopAccepting, RenameRecheck, RenameAdd, RenameVerify,
         RenameSetAccepting, RenameSetEnabled, RenameSetDefault, RenameDelete, RenameReopen,
         RenameRequest, Same
<1>33. Others => Same /\ panel' = panel
  BY DEF Others, OtherAdds, OtherDeletes, OtherPauses, OtherSetsDefault, OtherSetsAccepting,
         JobCreated, JobCompleted, CupsStopsOrStarts, OtherChange, Same
<1>34. Start => ReqInv'
  BY <1>9, <1>10 DEF Start
<1>35. MainLoop => ReqInv'
  <2>1. (\E found \in BOOLEAN : SearchAnswered(found)) => ReqInv'
    BY <1>23
  <2>2. (\E i \in DOMAIN calls, ok \in BOOLEAN : SetPpdCallback(i, ok)) => ReqInv'
    BY <1>29
  <2> QED
    BY <1>6, <1>11, <1>12, <1>14, <1>30, <2>1, <2>2, Zenon DEF MainLoop
<1>36. User => ReqInv'
  <2>1. (\E i \in DOMAIN panel.rows : SelectRow(i)) => ReqInv'
    BY <1>15
  <2>2. (\E n \in Printers \ Discovered : PrinterNameEdit(n)) => ReqInv'
    BY <1>6, <1>31
  <2>3. (\E ok \in BOOLEAN : PpdSelectionDialogResponse(ok)) => ReqInv'
    BY <1>28
  <2> QED
    BY <1>11, <1>16, <1>17, <1>18, <1>22, <1>25, <1>27, <2>1, <2>2, <2>3, Zenon DEF User
<1>37. Addition => ReqInv'
  <2>1. (\E n \in Printers \ Discovered : PreResponse(n)) => ReqInv'
    BY <1>20
  <2> QED
    BY <1>6, <1>19, <1>21, <1>30, <2>1, Zenon DEF Addition
<1>38. Rename \/ Others => ReqInv'
  BY <1>6, <1>11, <1>32, <1>33
<1> QED
  BY <1>34, <1>35, <1>36, <1>37, <1>38 DEF Next

\* The page of the model shows that a driver is being set exactly when the selected printer has
\* an unanswered request, and the menu that still says it searches has its search under way
\* (update_sensitivity, popup_model_menu_cb, get_ppd_names_cb, set_ppd_cb).
THEOREM ModelPageTells == Spec => []ModelPageTellsRequests
<1>1. Init => ReqInv
  <2> SUFFICES ASSUME Init PROVE ReqInv
    OBVIOUS
  <2>1. /\ calls = <<>> /\ panel = NewPanel
        /\ search = [printer |-> NoPrinter, cancelled |-> FALSE]
    BY DEF Init
  <2>2. panel.driver_change_list = <<>>
    BY <2>1 DEF NewPanel
  <2>3. Balanced(panel, calls)
    BY <2>1, <2>2 DEF Balanced
  <2>4. SearchOK(panel, search)
    BY <2>1 DEF SearchOK, Searched, NewPanel, MenuFields
  <2> QED
    BY <2>3, <2>4 DEF ReqInv
<1>2. PanelInv /\ ReqInv /\ [Next]_vars => ReqInv'
  <2> SUFFICES ASSUME PanelInv, ReqInv, [Next]_vars PROVE ReqInv'
    OBVIOUS
  <2>1. CASE Next
    BY <2>1, ReqStep
  <2>2. CASE UNCHANGED vars
    BY <2>2 DEF vars, ReqInv, Balanced, SearchOK, Searched
  <2> QED
    BY <2>1, <2>2
<1>3. PanelInv /\ ReqInv => ModelPageTellsRequests
  <2> SUFFICES ASSUME PanelInv, ReqInv, Runs
               PROVE  /\ (panel.model_page = "changing") = Contains(calls, CurrentName(panel))
                      /\ panel.getting_ppd_names = (search.printer # NoPrinter)
                      /\ panel.model_page = "button" => search.printer = NoPrinter
                      /\ (panel.popup_menu.open /\ panel.popup_menu.informal = "searching"
                          /\ panel.popup_menu.printer # NoPrinter) =>
                           search = [printer |-> panel.popup_menu.printer, cancelled |-> FALSE]
    BY DEF ModelPageTellsRequests
  <2>1. /\ ListOK(panel) /\ panel.model_page = ModelPage(panel)
        /\ Balanced(panel, calls) /\ SearchOK(panel, search)
    BY DEF PanelInv, ListPart, Runs, ReqInv, ListOK
  <2>2. (panel.model_page = "changing")
        <=> PrinterSelected(panel) /\ Contains(panel.driver_change_list, CurrentName(panel))
    BY <2>1 DEF ModelPage
  <2>3. (panel.model_page = "changing") <=> Contains(calls, CurrentName(panel))
    <3>1. calls \in Seq(Printers) /\ panel.driver_change_list \in Seq(Printers)
      BY <2>1 DEF Balanced
    <3>2. CASE PrinterSelected(panel)
      <4>1. CurrentName(panel) \in Printers
        BY <2>1, <3>2, CurrentNamed
      <4>2. Count(panel.driver_change_list, CurrentName(panel)) = Count(calls, CurrentName(panel))
        BY <2>1, <4>1 DEF Balanced
      <4> QED
        BY <2>2, <3>1, <3>2, <4>2, PlacesFinite
    <3>3. CASE ~PrinterSelected(panel)
      <4>1. CurrentName(panel) = NoPrinter
        BY <3>3 DEF CurrentName
      <4>2. \A i \in 1..Len(calls) : calls[i] \in Printers
        BY <3>1
      <4>3. NoPrinter \notin Printers
        BY PrintersAssumption
      <4>4. ~Contains(calls, NoPrinter)
        BY <4>2, <4>3 DEF Contains
      <4> QED
        BY <2>2, <3>3, <4>1, <4>4
    <3> QED
      BY <3>2, <3>3
  <2>4. panel.model_page = "button" => ~panel.getting_ppd_names
    BY <2>1 DEF ModelPage
  <2>5. panel.getting_ppd_names = (search.printer # NoPrinter)
    BY <2>1 DEF SearchOK
  <2>6. Searched(panel, search)
    BY <2>1 DEF SearchOK
  <2>7. panel.model_page = "button" => search.printer = NoPrinter
    BY <2>4, <2>5
  <2>8. (panel.model_page = "changing") = Contains(calls, CurrentName(panel))
    BY <2>3 DEF Contains
  <2> QED
    BY <2>5, <2>6, <2>7, <2>8 DEF Searched
<1> QED
  BY <1>1, <1>2, <1>3, PanelCorrect, PTL DEF Spec

-----------------------------------------------------------------------------
(***************************************************************************)
(* Renaming.  While the main loop is blocked in printer_rename only other  *)
(* clients act.  The invariant says for each request of it what is known   *)
(* of the old printer if it stayed closed, and how far the printer has     *)
(* moved if nobody disturbed it.                                           *)
(***************************************************************************)

Closing == {"recheck", "add", "verify", "accept", "enable", "default", "delete"}
RenamePcs == {"idle", "check", "stop", "reopen", "done"} \cup Closing

OldKept(r, s) ==
  (r.closed /\ r.pc \in Closing /\ r.old \in DOMAIN s.queues) =>
    /\ ~s.queues[r.old].accepting
    /\ r.pc # "recheck" => s.queues[r.old].jobs <= 1

SameQueue(q, o) == q.paused = o.paused /\ q.accepting = o.accepting
SameServer(s, b) ==
  /\ s.up = b.up /\ s.default = b.default /\ DOMAIN s.queues = DOMAIN b.queues
  /\ \A n \in DOMAIN b.queues : SameQueue(s.queues[n], b.queues[n])
MovedServer(r, s, b) ==
  /\ s.up = b.up /\ s.default = (IF b.default = r.old THEN r.new ELSE b.default)
  /\ DOMAIN s.queues = (DOMAIN b.queues \cup {r.new}) \ {r.old}
  /\ r.old # r.new /\ r.new \notin DOMAIN b.queues
  /\ \A n \in DOMAIN b.queues \ {r.old} : SameQueue(s.queues[n], b.queues[n])
  /\ SameQueue(s.queues[r.new], b.queues[r.old])

\* How far the printer has moved before the request r.pc
Remembered(r, b) ==
  /\ r.old # r.new /\ r.new \notin DOMAIN b.queues
  /\ r.accepting = b.queues[r.old].accepting /\ r.paused = b.queues[r.old].paused
  /\ r.is_default <=> b.default = r.old
MovedTo(r, s, b) ==
  /\ s.up = b.up
  /\ DOMAIN b.queues \subseteq DOMAIN s.queues /\ DOMAIN s.queues \subseteq DOMAIN b.queues \cup {r.new}
  /\ \A n \in DOMAIN b.queues \ {r.old} : SameQueue(s.queues[n], b.queues[n])
  /\ s.queues[r.old].paused = b.queues[r.old].paused
  /\ IF r.pc = "stop" THEN s.queues[r.old].accepting = b.queues[r.old].accepting
     ELSE ~s.queues[r.old].accepting
  /\ r.pc \in {"stop", "recheck", "add", "reopen"} => r.new \notin DOMAIN s.queues
  /\ r.pc \in {"accept", "enable", "default", "delete"} => r.new \in DOMAIN s.queues
  /\ r.pc \in {"enable", "default", "delete"} => s.queues[r.new].accepting = r.accepting
  /\ r.pc \in {"default", "delete"} => s.queues[r.new].paused = r.paused
  /\ r.pc = "default" => r.is_default
  /\ s.default = IF r.pc = "delete" /\ r.is_default THEN r.new ELSE b.default

Follows(r, s) ==
  IF r.pc = "done" THEN SameServer(s, r.before) \/ MovedServer(r, s, r.before)
  ELSE Remembered(r, r.before) /\ MovedTo(r, s, r.before)
Undisturbed(r, c, adding) ==
  r.before.up /\ r.old \in DOMAIN r.before.queues /\ adding # "adding" /\ r.since = c
RenameHolds(r, s, c, adding) ==
  /\ r.pc \in RenamePcs
  /\ r.pc \notin {"idle", "check", "done"} => r.old # r.new
  /\ OldKept(r, s)
  /\ r.pc \in {"idle", "check"} => ~r.before.up
  /\ r.before.up => ServerOK(r.before)
  /\ c \in Nat
  /\ r.pc \notin {"idle", "check"} /\ r.before.up => r.since \in 0..c
  /\ Undisturbed(r, c, adding) => Follows(r, s)

RenameInv == RenameHolds(rename, server, changes, panel.adding)

-----------------------------------------------------------------------------
\* Others than the rename leave the old printer closed, or the rename is told.
StaysClosed(n, s, t) ==
  (n \in DOMAIN t.queues /\ (n \in DOMAIN s.queues => ~s.queues[n].accepting)) =>
    n \in DOMAIN s.queues /\ ~t.queues[n].accepting /\ t.queues[n].jobs <= s.queues[n].jobs
SameRename(r, t) ==
  /\ t.old = r.old /\ t.new = r.new /\ t.accepting = r.accepting /\ t.paused = r.paused
  /\ t.is_default = r.is_default /\ t.before = r.before

LEMMA FollowsSame ==
  ASSUME NEW r, NEW t, NEW s, NEW u, SameRename(r, t), t.pc = r.pc, SameServer(u, s),
         r.before.up => ServerOK(r.before), r.before.up, r.old \in DOMAIN r.before.queues,
         Follows(r, s)
  PROVE  Follows(t, u)
<1>1. CASE r.pc = "done"
  <2>1. CASE SameServer(s, r.before)
    BY <1>1, <2>1 DEF Follows, SameRename, SameServer, SameQueue
  <2>2. CASE MovedServer(r, s, r.before)
    <3>1. MovedServer(t, u, t.before)
      BY <2>2 DEF SameRename, SameServer, SameQueue, MovedServer
    <3> QED
      BY <1>1, <3>1 DEF Follows
  <2> QED
    BY <1>1, <2>1, <2>2 DEF Follows
<1>2. CASE r.pc # "done"
  <2>1. Remembered(t, t.before)
    BY <1>2 DEF Follows, Remembered, SameRename
  <2>2. MovedTo(r, s, r.before) /\ t.before = r.before /\ t.old = r.old /\ t.new = r.new
        /\ t.accepting = r.accepting /\ t.paused = r.paused /\ t.is_default = r.is_default
    BY <1>2 DEF Follows, SameRename
  <2> DEFINE b == r.before
  <2>3. /\ s.up = b.up /\ DOMAIN b.queues \subseteq DOMAIN s.queues
        /\ DOMAIN s.queues \subseteq DOMAIN b.queues \cup {r.new}
        /\ \A n \in DOMAIN b.queues \ {r.old} : SameQueue(s.queues[n], b.queues[n])
        /\ r.old \in DOMAIN s.queues
    BY <2>2 DEF MovedTo
  <2>4. /\ u.up = s.up /\ u.default = s.default /\ DOMAIN u.queues = DOMAIN s.queues
        /\ \A n \in DOMAIN s.queues : /\ u.queues[n].paused = s.queues[n].paused
                                     /\ u.queues[n].accepting = s.queues[n].accepting
    BY DEF SameServer, SameQueue
  <2>5. \A n \in DOMAIN b.queues \ {r.old} : SameQueue(u.queues[n], b.queues[n])
    BY <2>3, <2>4 DEF SameQueue
  <2>6. u.queues[r.old].paused = b.queues[r.old].paused
    BY <2>2, <2>3, <2>4 DEF MovedTo
  <2>7. IF r.pc = "stop" THEN u.queues[r.old].accepting = b.queues[r.old].accepting
        ELSE ~u.queues[r.old].accepting
    BY <2>2, <2>3, <2>4 DEF MovedTo
  <2>8. /\ r.pc \in {"stop", "recheck", "add", "reopen"} => r.new \notin DOMAIN u.queues
        /\ r.pc \in {"accept", "enable", "default", "delete"} => r.new \in DOMAIN u.queues
        /\ r.pc \in {"enable", "default", "delete"} => u.queues[r.new].accepting = r.accepting
        /\ r.pc \in {"default", "delete"} => u.queues[r.new].paused = r.paused
        /\ r.pc = "default" => r.is_default
    BY <2>2, <2>4 DEF MovedTo
  <2>9. u.default = IF r.pc = "delete" /\ r.is_default THEN r.new ELSE b.default
    BY <2>2, <2>4 DEF MovedTo
  <2>10. MovedTo(r, u, b)
    BY <2>3, <2>4, <2>5, <2>6, <2>7, <2>8, <2>9, Zenon DEF MovedTo
  <2>11. MovedTo(t, u, t.before)
    BY ZenonT(60), <2>2, <2>10 DEF MovedTo
  <2> QED
    BY <1>2, <2>1, <2>11 DEF Follows
<1> QED
  BY <1>1, <1>2

LEMMA ClosedKept ==
  ASSUME NEW r, NEW t, NEW s, NEW u, t.pc = r.pc, t.old = r.old, t.closed => r.closed,
         t.closed => StaysClosed(r.old, s, u), OldKept(r, s), ServerOK(s), ServerOK(u)
  PROVE  OldKept(t, u)
<1> SUFFICES ASSUME t.closed, t.pc \in Closing, t.old \in DOMAIN u.queues
             PROVE  /\ ~u.queues[t.old].accepting
                    /\ t.pc # "recheck" => u.queues[t.old].jobs <= 1
  BY DEF OldKept
<1>1. r.old \in DOMAIN s.queues => ~s.queues[r.old].accepting
  BY DEF OldKept
<1>2. r.old \in DOMAIN s.queues /\ ~u.queues[r.old].accepting
      /\ u.queues[r.old].jobs <= s.queues[r.old].jobs
  BY <1>1 DEF StaysClosed
<1>3. s.queues[r.old] \in Queue /\ u.queues[r.old] \in Queue
  BY <1>2 DEF ServerOK
<1>4. s.queues[r.old].jobs \in Int /\ u.queues[r.old].jobs \in Int
  BY <1>3, PrintersAssumption DEF Queue
<1>5. t.pc # "recheck" => s.queues[r.old].jobs <= 1
  BY <1>2 DEF OldKept
<1> QED
  BY <1>2, <1>4, <1>5

LEMMA OthersEffect ==
  ASSUME PanelInv, rename.pc # "idle", Others \/ AdditionCreates
  PROVE  /\ SameRename(rename, rename') /\ rename'.pc = rename.pc /\ panel' = panel
         /\ rename'.closed => rename.closed /\ StaysClosed(rename.old, server, server')
         /\ \/ panel.adding = "adding" /\ rename'.since = rename.since /\ changes' = changes
            \/ changes' = changes + 1 /\ rename'.since = rename.since
            \/ /\ changes' = changes + 1 /\ rename'.since = rename.since + 1
               /\ SameServer(server', server)
<1> DEFINE Tells == SameRename(rename, rename') /\ rename'.pc = rename.pc /\ rename'.since = rename.since
           Good == /\ SameRename(rename, rename') /\ rename'.pc = rename.pc /\ panel' = panel
                   /\ rename'.closed => rename.closed /\ StaysClosed(rename.old, server, server')
                   /\ \/ panel.adding = "adding" /\ rename'.since = rename.since /\ changes' = changes
                      \/ changes' = changes + 1 /\ rename'.since = rename.since
                      \/ /\ changes' = changes + 1 /\ rename'.since = rename.since + 1
                         /\ SameServer(server', server)
<1>1. ServerOK(server) /\ RenameOK(rename) /\ \A n \in DOMAIN server.queues : server.queues[n] \in Queue
  BY DEF PanelInv, ServerOK
<1>2. ASSUME NEW n, Opened(n)
      PROVE  Tells /\ (rename'.closed => rename.closed /\ n # rename.old)
  <2> DEFINE b == rename.closed /\ n # rename.old
  <2>1. rename' = [rename EXCEPT !.closed = b]
    BY <1>2 DEF Opened
  <2>2. b => rename.closed /\ n # rename.old
    OBVIOUS
  <2> HIDE DEF b
  <2>3. DOMAIN rename = RenameFields
    BY <1>1 DEF RenameOK
  <2> QED
    BY <2>1, <2>2, <2>3 DEF SameRename, RenameFields
<1>3. rename' = rename => Tells /\ rename'.closed = rename.closed
  BY DEF SameRename
<1>4. ASSUME JobsExcused
      PROVE  /\ SameRename(rename, rename') /\ rename'.pc = rename.pc
             /\ rename'.closed = rename.closed /\ rename'.since = rename.since + 1
  <2>1. rename' = [rename EXCEPT !.since = rename.since + 1] /\ DOMAIN rename = RenameFields
    BY <1>1, <1>4 DEF RenameOK, JobsExcused
  <2> QED
    BY <2>1 DEF SameRename, RenameFields
<1>5. ASSUME NEW after, NEW kinds, OtherChange(after, kinds)
      PROVE  server' = after /\ panel' = panel /\ changes' = changes + 1
  BY <1>5 DEF OtherChange, ServerBecomes
<1>6. ASSUME NEW n \in Printers, NEW q \in Queue, server' = AddQueue(server, n, q), n # rename.old
      PROVE  StaysClosed(rename.old, server, server')
  <2>1. /\ DOMAIN server'.queues = DOMAIN server.queues \cup {n}
        /\ \A m \in DOMAIN server.queues : m # n => server'.queues[m] = server.queues[m]
    BY <1>1, <1>6, AddQueueFacts
  <2>2. \A m \in DOMAIN server.queues : server.queues[m].jobs \in Int
    BY <1>1, PrintersAssumption DEF Queue
  <2> QED
    BY <1>6, <2>1, <2>2 DEF StaysClosed
<1>7. ASSUME server'.queues = server.queues PROVE StaysClosed(rename.old, server, server')
  <2>1. \A m \in DOMAIN server.queues : server.queues[m].jobs \in Int
    BY <1>1, PrintersAssumption DEF Queue
  <2> QED
    BY <1>7, <2>1 DEF StaysClosed
<1> SUFFICES Good
  OBVIOUS
<1> HIDE DEF Good
<1>8. CASE AdditionCreates
  <2>1. panel.adding = "adding" /\ changes' = changes /\ panel' = panel
        /\ Opened(panel.new_printer_name)
    BY <1>8 DEF AdditionCreates
  <2>2. server' = AddQueue(server, panel.new_printer_name,
                           [NewQueue EXCEPT !.paused = FALSE, !.accepting = TRUE])
    BY <1>8, Zenon DEF AdditionCreates, ServerBecomes
  <2>3. panel.new_printer_name \in Printers
    BY <2>1 DEF PanelInv, ListPart
  <2>4. panel.new_printer_name # rename.old => StaysClosed(rename.old, server, server')
    BY <1>6, <2>2, <2>3, QueuesAdded
  <2> QED
    BY <1>2, <2>1, <2>4 DEF Good
<1>9. ASSUME NEW n \in Printers, OtherAdds(n) PROVE Good
  <2>1. /\ OtherChange(AddQueue(server, n, [NewQueue EXCEPT !.paused = FALSE, !.accepting = TRUE]),
                       PrinterSignal)
        /\ Opened(n)
    BY <1>9 DEF OtherAdds
  <2>2. n # rename.old => StaysClosed(rename.old, server, server')
    BY <1>5, <1>6, <2>1, QueuesAdded
  <2> QED
    BY <1>2, <1>5, <2>1, <2>2 DEF Good
<1>10. ASSUME NEW n, OtherDeletes(n) PROVE Good
  <2>1. OtherChange(DeleteQueue(server, n), PrinterSignal) /\ rename' = rename
    BY <1>10 DEF OtherDeletes
  <2>2. server' = DeleteQueue(server, n)
    BY <1>5, <2>1
  <2>3. /\ DOMAIN server'.queues = DOMAIN server.queues \ {n}
        /\ \A m \in DOMAIN server.queues : m # n => server'.queues[m] = server.queues[m]
    BY <1>1, <2>2, DeleteQueueFacts
  <2>4. \A m \in DOMAIN server.queues : server.queues[m].jobs \in Int
    BY <1>1, PrintersAssumption DEF Queue
  <2>5. StaysClosed(rename.old, server, server')
    BY <2>3, <2>4 DEF StaysClosed
  <2> QED
    BY <1>3, <1>5, <2>1, <2>5 DEF Good
<1>11. ASSUME NEW n \in DOMAIN server.queues, NEW f, NEW v, InField(f, v), NEW t,
              t = SetQueue(server, n, f, v), f = "accepting" => ~v,
              f = "jobs" => (~server.queues[n].accepting => v <= server.queues[n].jobs),
              server'.queues = t.queues
       PROVE  StaysClosed(rename.old, server, server')
  <2>1. /\ DOMAIN t.queues = DOMAIN server.queues /\ t.queues[n][f] = v
        /\ \A g \in QueueFields : g # f => t.queues[n][g] = server.queues[n][g]
        /\ \A m \in DOMAIN server.queues : m # n => t.queues[m] = server.queues[m]
    BY <1>1, <1>11, SetQueueFacts
  <2>2. \A m \in DOMAIN server.queues : server.queues[m].jobs \in Int
    BY <1>1, PrintersAssumption DEF Queue
  <2>3. CASE f = "accepting"
    <3>1. t.queues[n].jobs = server.queues[n].jobs /\ ~t.queues[n].accepting
      BY <1>11, <2>1, <2>3 DEF QueueFields
    <3> QED
      BY <1>11, <2>1, <2>2, <3>1 DEF StaysClosed
  <2>4. CASE f = "jobs"
    <3>1. t.queues[n].accepting = server.queues[n].accepting /\ t.queues[n].jobs = v
      BY <2>1, <2>4 DEF QueueFields
    <3> QED
      BY <1>11, <2>1, <2>2, <2>4, <3>1 DEF StaysClosed
  <2>5. CASE f = "paused"
    <3>1. t.queues[n].accepting = server.queues[n].accepting /\ t.queues[n].jobs = server.queues[n].jobs
      BY <2>1, <2>5 DEF QueueFields
    <3> QED
      BY <1>11, <2>1, <2>2, <3>1 DEF StaysClosed
  <2> QED
    BY <1>11, <2>3, <2>4, <2>5 DEF InField
<1>12. ASSUME NEW n, OtherPauses(n) PROVE Good
  <2> DEFINE b == ~server.queues[n].paused
  <2>1. InField("paused", b)
    BY DEF InField
  <2>2. /\ n \in DOMAIN server.queues /\ rename' = rename
        /\ OtherChange(SetQueue(server, n, "paused", b), PrinterSignal)
    BY <1>12, Zenon DEF OtherPauses, Exists
  <2> HIDE DEF b
  <2>3. server' = SetQueue(server, n, "paused", b) /\ panel' = panel /\ changes' = changes + 1
    BY <1>5, <2>2
  <2>4. StaysClosed(rename.old, server, server')
    BY <1>11, <2>1, <2>2, <2>3
  <2> QED
    BY <1>3, <2>2, <2>3, <2>4 DEF Good
<1>13. ASSUME NEW n, OtherSetsDefault(n) PROVE Good
  <2>1. OtherChange([server EXCEPT !.default = n], PrinterSignal) /\ rename' = rename
    BY <1>13 DEF OtherSetsDefault
  <2>2. server' = [server EXCEPT !.default = n] /\ panel' = panel /\ changes' = changes + 1
    BY <1>5, <2>1
  <2>3. server'.queues = server.queues
    BY <1>1, <2>2 DEF ServerOK
  <2> QED
    BY <1>3, <1>7, <2>1, <2>2, <2>3 DEF Good
<1>14. ASSUME NEW n, NEW b \in BOOLEAN, OtherSetsAccepting(n, b) PROVE Good
  <2>1. InField("accepting", b)
    BY DEF InField
  <2>2. /\ n \in DOMAIN server.queues /\ (IF b THEN Opened(n) ELSE rename' = rename)
        /\ OtherChange(SetQueue(server, n, "accepting", b), PrinterSignal)
    BY <1>14 DEF OtherSetsAccepting, Exists
  <2>3. server' = SetQueue(server, n, "accepting", b) /\ panel' = panel /\ changes' = changes + 1
    BY <1>5, <2>2
  <2>4. CASE b
    <3>1. /\ DOMAIN server'.queues = DOMAIN server.queues
          /\ \A m \in DOMAIN server.queues : m # n => server'.queues[m] = server.queues[m]
      BY <1>1, <2>1, <2>2, <2>3, SetQueueFacts
    <3>2. \A m \in DOMAIN server.queues : server.queues[m].jobs \in Int
      BY <1>1, PrintersAssumption DEF Queue
    <3>3. n # rename.old => StaysClosed(rename.old, server, server')
      BY <3>1, <3>2 DEF StaysClosed
    <3> QED
      BY <1>2, <2>2, <2>3, <2>4, <3>3 DEF Good
  <2>5. CASE ~b
    <3>1. StaysClosed(rename.old, server, server')
      BY <1>11, <2>1, <2>2, <2>3, <2>5
    <3> QED
      BY <1>3, <2>2, <2>3, <2>5, <3>1 DEF Good
  <2> QED
    BY <2>4, <2>5
<1>15. ASSUME NEW n \in DOMAIN server.queues, NEW v, InField("jobs", v), NEW t,
              t = SetQueue(server, n, "jobs", v), server'.queues = t.queues,
              server'.up = t.up, server'.default = t.default
       PROVE  SameServer(server', server)
  <2>1. /\ DOMAIN t.queues = DOMAIN server.queues /\ t.up = server.up /\ t.default = server.default
        /\ \A g \in QueueFields : g # "jobs" => t.queues[n][g] = server.queues[n][g]
        /\ \A m \in DOMAIN server.queues : m # n => t.queues[m] = server.queues[m]
    BY <1>1, <1>15, SetQueueFacts
  <2>2. SameQueue(t.queues[n], server.queues[n])
    BY <2>1 DEF QueueFields, SameQueue
  <2>3. \A m \in DOMAIN server.queues : SameQueue(t.queues[m], server.queues[m])
    BY <2>1, <2>2 DEF SameQueue
  <2> QED
    BY <1>15, <2>1, <2>3 DEF SameServer
<1>16. ASSUME NEW n, JobCreated(n) PROVE Good
  <2> DEFINE v == server.queues[n].jobs + 1
             t == SetQueue(server, n, "jobs", v)
  <2>1. /\ n \in DOMAIN server.queues /\ server.queues[n].jobs < MaxJobs /\ JobsExcused
        /\ server.queues[n].accepting
        /\ OtherChange([t EXCEPT !.last = n], JobSignal(n))
    BY <1>16, Zenon DEF JobCreated, Exists
  <2>2. InField("jobs", v)
    BY <1>1, <2>1, PrintersAssumption DEF InField, Queue
  <2> HIDE DEF v
  <2>3. ServerOK(t)
    BY <1>1, <2>1, <2>2, SetQueueFacts
  <2> HIDE DEF t
  <2>4. server' = [t EXCEPT !.last = n] /\ panel' = panel /\ changes' = changes + 1
    BY <1>5, <2>1
  <2>5. server'.queues = t.queues /\ server'.up = t.up /\ server'.default = t.default
    BY <2>3, <2>4 DEF ServerOK
  <2>6. SameServer(server', server)
    BY <1>15, <2>1, <2>2, <2>5 DEF t
  <2>7. StaysClosed(rename.old, server, server')
    BY <1>11, <2>1, <2>2, <2>5 DEF t
  <2> QED
    BY <1>4, <2>1, <2>4, <2>6, <2>7 DEF Good
<1>17. ASSUME NEW n, JobCompleted(n) PROVE Good
  <2> DEFINE v == server.queues[n].jobs - 1
             t == SetQueue(server, n, "jobs", v)
  <2>1. /\ n \in DOMAIN server.queues /\ server.queues[n].jobs > 0 /\ JobsExcused
        /\ OtherChange(t, JobSignal(n))
    BY <1>17, Zenon DEF JobCompleted, Exists
  <2>2. InField("jobs", v) /\ v <= server.queues[n].jobs
    BY <1>1, <2>1, PrintersAssumption DEF InField, Queue
  <2> HIDE DEF v, t
  <2>3. server' = t /\ panel' = panel /\ changes' = changes + 1
    BY <1>5, <2>1
  <2>4. SameServer(server', server)
    BY <1>15, <2>1, <2>2, <2>3 DEF t
  <2>5. StaysClosed(rename.old, server, server')
    BY <1>11, <2>1, <2>2, <2>3 DEF t
  <2> QED
    BY <1>4, <2>1, <2>3, <2>4, <2>5 DEF Good
<1>18. CASE CupsStopsOrStarts
  <2>1. OtherChange([server EXCEPT !.up = ~server.up], <<>>) /\ rename' = rename
    BY <1>18 DEF CupsStopsOrStarts
  <2>2. server' = [server EXCEPT !.up = ~server.up] /\ panel' = panel /\ changes' = changes + 1
    BY <1>5, <2>1
  <2>3. server'.queues = server.queues
    BY <1>1, <2>2 DEF ServerOK
  <2> QED
    BY <1>3, <1>7, <2>1, <2>2, <2>3 DEF Good
<1> QED
  BY <1>8, <1>9, <1>10, <1>12, <1>13, <1>14, <1>16, <1>17, <1>18 DEF Others

-----------------------------------------------------------------------------
\* The rest of the invariant, once the old printer and the way moved are looked after
LEMMA RenameMoves ==
  ASSUME RenameInv, SameRename(rename, rename'), panel'.adding = panel.adding,
         \/ rename'.pc = rename.pc
         \/ rename.pc \notin {"idle", "check", "done"} /\ rename'.pc \in RenamePcs \ {"idle", "check"},
         \/ changes' = changes /\ rename'.since = rename.since
         \/ changes' = changes + 1 /\ rename'.since = rename.since
         \/ changes' = changes + 1 /\ rename'.since = rename.since + 1,
         OldKept(rename', server'),
         (/\ rename.before.up /\ ServerOK(rename.before) /\ rename.old \in DOMAIN rename.before.queues
          /\ panel.adding # "adding" /\ Follows(rename, server)
          /\ ~(changes' = changes + 1 /\ rename'.since = rename.since)
          /\ rename.pc \notin {"idle", "check"})
         => Follows(rename', server')
  PROVE  RenameInv'
<1> USE DEF RenameInv, RenameHolds
<1>1. /\ changes \in Nat /\ changes' \in Nat
      /\ rename.before.up => rename.pc \notin {"idle", "check"} /\ rename.since \in 0..changes
      /\ rename'.before = rename.before /\ rename'.old = rename.old /\ rename'.new = rename.new
  BY DEF SameRename
<1>2. rename'.before.up => rename'.pc \notin {"idle", "check"} /\ rename'.since \in 0..changes'
  BY <1>1
<1>3. rename'.pc \in RenamePcs
      /\ (rename'.pc \notin {"idle", "check", "done"} => rename'.old # rename'.new)
  BY <1>1
<1>4. ASSUME Undisturbed(rename', changes', panel'.adding) PROVE Follows(rename', server')
  <2>1. /\ rename.before.up /\ rename.old \in DOMAIN rename.before.queues
        /\ panel.adding # "adding" /\ rename'.since = changes'
    BY <1>1, <1>4 DEF Undisturbed
  <2>2. rename.since = changes /\ ~(changes' = changes + 1 /\ rename'.since = rename.since)
    BY <1>1, <2>1
  <2>3. Follows(rename, server)
    BY <2>1, <2>2 DEF Undisturbed
  <2> QED
    BY <1>1, <2>1, <2>2, <2>3
<1>5. rename'.before.up => ServerOK(rename'.before)
  BY <1>1
<1> HIDE DEF RenameInv, RenameHolds
<1> QED
  BY <1>1, <1>2, <1>3, <1>4, <1>5 DEF RenameInv, RenameHolds

\* A request about another printer, or about none, keeps the old one closed.
LEMMA OldSameKept ==
  ASSUME NEW r, NEW t, NEW s, NEW u, OldKept(r, s), t.old = r.old, t.closed => r.closed,
         r.pc \in Closing \ {"recheck"} \/ t.pc \notin Closing,
         r.old \in DOMAIN u.queues =>
           r.old \in DOMAIN s.queues /\ u.queues[r.old] = s.queues[r.old]
  PROVE  OldKept(t, u)
<1> SUFFICES ASSUME t.closed, t.pc \in Closing, t.old \in DOMAIN u.queues
             PROVE  ~u.queues[t.old].accepting /\ u.queues[t.old].jobs <= 1
  BY DEF OldKept
<1>1. r.pc \in Closing /\ r.pc # "recheck" /\ r.closed /\ r.old \in DOMAIN s.queues
      /\ u.queues[t.old] = s.queues[r.old]
  OBVIOUS
<1> QED
  BY <1>1 DEF OldKept

LEMMA RequestEffect ==
  ASSUME NEW n, NEW ok \in BOOLEAN, NEW after, RenameRequest(n, ok, after)
  PROVE  /\ panel' = panel
         /\ \/ ok /\ Exists(server, n) /\ server' = after /\ changes' = changes
            \/ ~ok /\ server' = server /\ Exists(server, n) /\ changes' = changes + 1
            \/ ~ok /\ server' = server /\ ~Exists(server, n) /\ changes' = changes
  BY DEF RenameRequest, RenameFrame, Answered, ServerBecomes

\* What a record is that only moved on
LEMMA MovedOn ==
  ASSUME NEW pc, RenameOK(rename), rename' = [rename EXCEPT !.pc = pc]
  PROVE  /\ SameRename(rename, rename') /\ rename'.pc = pc /\ rename'.closed = rename.closed
         /\ rename'.since = rename.since
  BY DEF RenameOK, RenameFields, SameRename

\* The facts about a rename that nobody has disturbed so far
LEMMA OnItsWay ==
  ASSUME NEW r, NEW s, Follows(r, s), r.pc # "done", r.before.up, ServerOK(r.before),
         r.old \in DOMAIN r.before.queues
  PROVE  /\ Remembered(r, r.before) /\ MovedTo(r, s, r.before) /\ s.up
         /\ r.old \in DOMAIN s.queues /\ r.old # r.new
  BY DEF Follows, Remembered, MovedTo

LEMMA RenameCheckKept ==
  ASSUME PanelInv, RenameInv, RenameCheck
  PROVE  RenameInv'
<1>1. /\ ServerOK(server) /\ RenameOK(rename) /\ rename.pc = "check" /\ changes \in Nat
      /\ server' = server /\ changes' = changes /\ panel' = panel /\ ~rename.before.up
  BY DEF PanelInv, RenameCheck, RenameAt, RenameInv, RenameHolds, RenameFrame
<1> DEFINE known == Exists(server, rename.old)
           accepting == known => server.queues[rename.old].accepting
           paused == known /\ server.queues[rename.old].paused
           default == known /\ server.default = rename.old
           pc == IF accepting THEN "stop" ELSE "add"
<1>2. \/ rename' = [rename EXCEPT !.pc = "done"]
      \/ /\ rename' = [rename EXCEPT !.pc = pc, !.accepting = accepting, !.paused = paused,
                         !.is_default = default, !.closed = ~accepting, !.before = server,
                         !.since = changes]
         /\ rename.old # rename.new /\ ~Exists(server, rename.new)
         /\ ~(JobsOf(server, rename.old) > 1)
  BY Zenon DEF RenameCheck, Goto
<1>3. CASE rename' = [rename EXCEPT !.pc = "done"]
  <2>1. SameRename(rename, rename') /\ rename'.pc = "done"
    BY <1>1, <1>3, MovedOn
  <2>2. ~rename'.before.up
    BY <1>1, <2>1 DEF SameRename
  <2>3. OldKept(rename', server')
    BY <2>1 DEF OldKept, Closing
  <2> QED
    BY <1>1, <2>1, <2>2, <2>3 DEF RenameInv, RenameHolds, RenamePcs, Undisturbed
<1>4. ASSUME rename' = [rename EXCEPT !.pc = pc, !.accepting = accepting, !.paused = paused,
                          !.is_default = default, !.closed = ~accepting, !.before = server,
                          !.since = changes],
             rename.old # rename.new, ~Exists(server, rename.new), ~(JobsOf(server, rename.old) > 1)
      PROVE  RenameInv'
  <2>1. DOMAIN rename = RenameFields
    BY <1>1 DEF RenameOK
  <2>2. known => server.queues[rename.old] \in Queue
    BY <1>1 DEF Exists, ServerOK
  <2>3. /\ accepting \in BOOLEAN /\ pc = IF accepting THEN "stop" ELSE "add"
        /\ known => /\ accepting = server.queues[rename.old].accepting
                    /\ paused = server.queues[rename.old].paused
                    /\ (default <=> server.default = rename.old)
                    /\ server.queues[rename.old].jobs <= 1
        /\ ~accepting => known
    <3>1. accepting \in BOOLEAN
      OBVIOUS
    <3>2. known => /\ accepting = server.queues[rename.old].accepting
                   /\ paused = server.queues[rename.old].paused
      BY <2>2 DEF Queue
    <3>3. known => (default <=> server.default = rename.old)
      OBVIOUS
    <3>4. known => server.queues[rename.old].jobs <= 1
      BY <1>4, <2>2, PrintersAssumption DEF JobsOf, Queue
    <3>5. ~accepting => known
      OBVIOUS
    <3> QED
      BY <3>1, <3>2, <3>3, <3>4, <3>5
  <2> HIDE DEF accepting, paused, default, pc
  <2>4. /\ rename'.pc = pc /\ rename'.old = rename.old /\ rename'.new = rename.new
        /\ rename'.accepting = accepting /\ rename'.paused = paused
        /\ rename'.is_default = default /\ (rename'.closed = ~accepting)
        /\ rename'.before = server /\ rename'.since = changes
    BY <1>4, <2>1 DEF RenameFields
  <2>5. rename'.pc \in {"stop", "add"}
    BY <2>3, <2>4
  <2>6. OldKept(rename', server')
    <3> SUFFICES ASSUME rename'.closed, rename'.pc \in Closing, rename.old \in DOMAIN server.queues
                 PROVE  ~server.queues[rename.old].accepting /\ server.queues[rename.old].jobs <= 1
      BY <1>1, <2>4 DEF OldKept
    <3>1. known
      BY <2>3, <2>4
    <3> QED
      BY <2>3, <2>4, <3>1
  <2>7. ASSUME server.up, rename.old \in DOMAIN server.queues PROVE Follows(rename', server)
    <3>1. known /\ rename.new \notin DOMAIN server.queues
      BY <1>4, <2>7 DEF Exists
    <3>2. Remembered(rename', server)
      BY <1>4, <2>3, <2>4, <3>1 DEF Remembered
    <3>3. rename'.pc = "stop" <=> accepting
      BY <2>3, <2>4
    <3>4. IF rename'.pc = "stop"
          THEN server.queues[rename.old].accepting = server.queues[rename.old].accepting
          ELSE ~server.queues[rename.old].accepting
      BY <2>3, <3>1, <3>3
    <3>5. MovedTo(rename', server, server)
      BY <2>4, <2>5, <3>1, <3>4 DEF MovedTo, SameQueue
    <3> QED
      BY <2>4, <2>5, <3>2, <3>5 DEF Follows
  <2>8. rename'.old # rename'.new
    BY <1>4, <2>4
  <2>9. Undisturbed(rename', changes', panel'.adding) => Follows(rename', server')
    BY <1>1, <2>4, <2>7 DEF Undisturbed
  <2>10. rename'.pc \in RenamePcs /\ rename'.pc \notin {"idle", "check", "done"}
    BY <2>5 DEF RenamePcs, Closing
  <2>11. rename'.since \in 0..changes' /\ changes' \in Nat /\ ServerOK(rename'.before)
    BY <1>1, <2>4
  <2> QED
    BY <2>6, <2>8, <2>9, <2>10, <2>11 DEF RenameInv, RenameHolds
<1> QED
  BY <1>2, <1>3, <1>4

LEMMA SetFieldFacts ==
  ASSUME NEW s, ServerOK(s), NEW n \in DOMAIN s.queues, NEW b \in BOOLEAN, NEW t
  PROVE  /\ t = SetQueue(s, n, "accepting", b) =>
              /\ t.up = s.up /\ t.default = s.default /\ DOMAIN t.queues = DOMAIN s.queues
              /\ t.queues[n].accepting = b /\ t.queues[n].paused = s.queues[n].paused
              /\ \A m \in DOMAIN s.queues : m # n => t.queues[m] = s.queues[m]
         /\ t = SetQueue(s, n, "paused", b) =>
              /\ t.up = s.up /\ t.default = s.default /\ DOMAIN t.queues = DOMAIN s.queues
              /\ t.queues[n].paused = b /\ t.queues[n].accepting = s.queues[n].accepting
              /\ \A m \in DOMAIN s.queues : m # n => t.queues[m] = s.queues[m]
<1>1. InField("accepting", b) /\ InField("paused", b)
  BY DEF InField
<1>2. ASSUME t = SetQueue(s, n, "accepting", b)
      PROVE  /\ t.up = s.up /\ t.default = s.default /\ DOMAIN t.queues = DOMAIN s.queues
             /\ t.queues[n]["accepting"] = b
             /\ \A g \in QueueFields : g # "accepting" => t.queues[n][g] = s.queues[n][g]
             /\ \A m \in DOMAIN s.queues : m # n => t.queues[m] = s.queues[m]
  BY <1>1, <1>2, SetQueueFacts
<1>3. ASSUME t = SetQueue(s, n, "paused", b)
      PROVE  /\ t.up = s.up /\ t.default = s.default /\ DOMAIN t.queues = DOMAIN s.queues
             /\ t.queues[n]["paused"] = b
             /\ \A g \in QueueFields : g # "paused" => t.queues[n][g] = s.queues[n][g]
             /\ \A m \in DOMAIN s.queues : m # n => t.queues[m] = s.queues[m]
  BY <1>1, <1>3, SetQueueFacts
<1> QED
  BY <1>2, <1>3 DEF QueueFields

\* The requests that close and open the old printer
LEMMA RenameOldKept ==
  ASSUME PanelInv, RenameInv, RenameStopAccepting \/ RenameReopen
  PROVE  RenameInv'
<1>1. ServerOK(server) /\ RenameOK(rename) /\ OldKept(rename, server)
  BY DEF PanelInv, RenameInv, RenameHolds
<1>2. CASE RenameStopAccepting
  <2>1. PICK ok \in BOOLEAN :
          /\ RenameRequest(rename.old, ok, SetQueue(server, rename.old, "accepting", FALSE))
          /\ rename' = [rename EXCEPT !.pc = "recheck", !.closed = ok]
    BY <1>2, Zenon DEF RenameStopAccepting
  <2>2. rename.pc = "stop"
    BY <1>2, Zenon DEF RenameStopAccepting, RenameAt
  <2>3. /\ SameRename(rename, rename') /\ rename'.pc = "recheck" /\ rename'.closed = ok
        /\ rename'.since = rename.since
    BY <1>1, <2>1 DEF RenameOK, RenameFields, SameRename
  <2> DEFINE t == SetQueue(server, rename.old, "accepting", FALSE)
  <2>4. /\ panel' = panel
        /\ \/ ok /\ Exists(server, rename.old) /\ server' = t /\ changes' = changes
           \/ ~ok /\ server' = server /\ Exists(server, rename.old) /\ changes' = changes + 1
           \/ ~ok /\ server' = server /\ ~Exists(server, rename.old) /\ changes' = changes
    BY <2>1, RequestEffect
  <2> HIDE DEF t
  <2>5. Exists(server, rename.old) =>
          /\ t.up = server.up /\ t.default = server.default /\ DOMAIN t.queues = DOMAIN server.queues
          /\ ~t.queues[rename.old].accepting
          /\ t.queues[rename.old].paused = server.queues[rename.old].paused
          /\ \A m \in DOMAIN server.queues : m # rename.old => t.queues[m] = server.queues[m]
    <3>1. SUFFICES ASSUME rename.old \in DOMAIN server.queues
                   PROVE  /\ t.up = server.up /\ t.default = server.default
                          /\ DOMAIN t.queues = DOMAIN server.queues
                          /\ ~t.queues[rename.old].accepting
                          /\ t.queues[rename.old].paused = server.queues[rename.old].paused
                          /\ \A m \in DOMAIN server.queues :
                               m # rename.old => t.queues[m] = server.queues[m]
      BY DEF Exists
    <3>2. /\ t.up = server.up /\ t.default = server.default
          /\ t.queues = [server.queues EXCEPT
                           ![rename.old] = [server.queues[rename.old] EXCEPT !["accepting"] = FALSE]]
      BY <1>1 DEF SetQueue, ServerOK, t
    <3>3. server.queues \in [DOMAIN server.queues -> Queue] /\ server.queues[rename.old] \in Queue
      BY <1>1, <3>1 DEF ServerOK
    <3>4. /\ DOMAIN t.queues = DOMAIN server.queues
          /\ t.queues[rename.old] = [server.queues[rename.old] EXCEPT !["accepting"] = FALSE]
          /\ \A m \in DOMAIN server.queues : m # rename.old => t.queues[m] = server.queues[m]
      BY <3>1, <3>2, <3>3
    <3>5. ~t.queues[rename.old].accepting /\ t.queues[rename.old].paused = server.queues[rename.old].paused
      BY <3>3, <3>4 DEF Queue
    <3> QED
      BY <3>2, <3>4, <3>5
  <2>6. OldKept(rename', server')
    BY <2>3, <2>4, <2>5 DEF OldKept, SameRename
  <2>7. ASSUME rename.before.up, ServerOK(rename.before),
               rename.old \in DOMAIN rename.before.queues, Follows(rename, server),
               ~(changes' = changes + 1 /\ rename'.since = rename.since)
        PROVE  Follows(rename', server')
    <3>1. /\ Remembered(rename, rename.before) /\ MovedTo(rename, server, rename.before)
          /\ Exists(server, rename.old)
      BY <2>2, <2>7, OnItsWay DEF Exists
    <3>2. ok /\ server' = t
      BY <2>3, <2>4, <2>7, <3>1
    <3>3. rename'.before = rename.before /\ rename'.old = rename.old /\ rename'.new = rename.new
      BY <2>3 DEF SameRename
    <3>4. Remembered(rename', rename.before)
      BY <2>3, <3>1 DEF Remembered, SameRename
    <3>5. \A n \in DOMAIN rename.before.queues \ {rename.old} :
            SameQueue(server'.queues[n], rename.before.queues[n])
      BY <2>5, <3>1, <3>2 DEF MovedTo
    <3>6. MovedTo(rename', server', rename.before)
      BY <2>2, <2>3, <2>5, <3>1, <3>2, <3>3, <3>5 DEF MovedTo
    <3> QED
      BY <2>3, <3>3, <3>4, <3>6 DEF Follows
  <2> QED
    BY <2>2, <2>3, <2>4, <2>6, <2>7, RenameMoves DEF RenamePcs, Closing
<1>3. CASE RenameReopen
  <2>1. PICK ok \in BOOLEAN :
          RenameRequest(rename.old, ok, SetQueue(server, rename.old, "accepting", rename.accepting))
    BY <1>3 DEF RenameReopen
  <2>2. rename.pc = "reopen" /\ rename' = [rename EXCEPT !.pc = "done"]
    BY <1>3 DEF RenameReopen, RenameAt, Goto
  <2>3. /\ SameRename(rename, rename') /\ rename'.pc = "done" /\ rename'.since = rename.since
    BY <1>1, <2>2, MovedOn
  <2> DEFINE t == SetQueue(server, rename.old, "accepting", rename.accepting)
  <2>4. /\ panel' = panel
        /\ \/ ok /\ Exists(server, rename.old) /\ server' = t /\ changes' = changes
           \/ ~ok /\ server' = server /\ Exists(server, rename.old) /\ changes' = changes + 1
           \/ ~ok /\ server' = server /\ ~Exists(server, rename.old) /\ changes' = changes
    BY <2>1, RequestEffect
  <2> HIDE DEF t
  <2>5. Exists(server, rename.old) =>
          /\ t.up = server.up /\ t.default = server.default /\ DOMAIN t.queues = DOMAIN server.queues
          /\ t.queues[rename.old].accepting = rename.accepting
          /\ t.queues[rename.old].paused = server.queues[rename.old].paused
          /\ \A m \in DOMAIN server.queues : m # rename.old => t.queues[m] = server.queues[m]
    <3>1. rename.accepting \in BOOLEAN
      BY <1>1 DEF RenameOK
    <3>2. t = SetQueue(server, rename.old, "accepting", rename.accepting)
      BY Zenon DEF t
    <3>3. SUFFICES ASSUME rename.old \in DOMAIN server.queues
                   PROVE  /\ t.up = server.up /\ t.default = server.default
                          /\ DOMAIN t.queues = DOMAIN server.queues
                          /\ t.queues[rename.old].accepting = rename.accepting
                          /\ t.queues[rename.old].paused = server.queues[rename.old].paused
                          /\ \A m \in DOMAIN server.queues :
                               m # rename.old => t.queues[m] = server.queues[m]
      BY DEF Exists
    <3> QED
      BY <1>1, <3>1, <3>2, <3>3, SetFieldFacts
  <2>6. OldKept(rename', server')
    BY <2>3 DEF OldKept, Closing
  <2>7. ASSUME rename.before.up, ServerOK(rename.before),
               rename.old \in DOMAIN rename.before.queues, Follows(rename, server),
               ~(changes' = changes + 1 /\ rename'.since = rename.since)
        PROVE  Follows(rename', server')
    <3>1. /\ Remembered(rename, rename.before) /\ MovedTo(rename, server, rename.before)
          /\ Exists(server, rename.old)
      BY <2>2, <2>7, OnItsWay DEF Exists
    <3>2. ok /\ server' = t
      BY <2>3, <2>4, <2>7, <3>1
    <3>3. rename'.before = rename.before
      BY <2>3 DEF SameRename
    <3>4. DOMAIN server'.queues = DOMAIN rename.before.queues
      BY <2>2, <2>5, <3>1, <3>2 DEF MovedTo
    <3>5. SameQueue(server'.queues[rename.old], rename.before.queues[rename.old])
      BY <2>5, <3>1, <3>2 DEF MovedTo, SameQueue, Remembered
    <3>6. \A n \in DOMAIN rename.before.queues \ {rename.old} :
            SameQueue(server'.queues[n], rename.before.queues[n])
      BY <2>5, <3>1, <3>2 DEF MovedTo
    <3>7. server'.up = rename.before.up /\ server'.default = rename.before.default
      BY <2>2, <2>5, <3>1, <3>2 DEF MovedTo
    <3>8. SameServer(server', rename.before)
      BY <3>4, <3>5, <3>6, <3>7 DEF SameServer
    <3> QED
      BY <2>3, <3>3, <3>8 DEF Follows
  <2> QED
    BY <2>2, <2>3, <2>4, <2>6, <2>7, RenameMoves DEF RenamePcs
<1> QED
  BY <1>2, <1>3

\* The looks at the server
LEMMA RenameLooksKept ==
  ASSUME PanelInv, RenameInv, RenameRecheck \/ RenameVerify
  PROVE  RenameInv'
<1>1. ServerOK(server) /\ RenameOK(rename) /\ OldKept(rename, server)
  BY DEF PanelInv, RenameInv, RenameHolds
<1>2. server' = server /\ changes' = changes /\ panel' = panel
  BY DEF RenameRecheck, RenameVerify, RenameFrame
<1>3. CASE RenameRecheck
  <2> DEFINE pc == IF JobsOf(server, rename.old) > 1 THEN "reopen" ELSE "add"
             b == rename.closed /\ server.up
  <2>1. rename' = [rename EXCEPT !.pc = pc, !.closed = b] /\ rename.pc = "recheck"
    BY <1>3 DEF RenameRecheck, RenameAt
  <2>2. /\ pc \in {"reopen", "add"} /\ (pc = "add" => ~(JobsOf(server, rename.old) > 1))
        /\ (b => rename.closed /\ server.up)
    OBVIOUS
  <2> HIDE DEF pc, b
  <2>3. /\ SameRename(rename, rename') /\ rename'.pc = pc /\ rename'.closed = b
        /\ rename'.since = rename.since
    BY <1>1, <2>1 DEF RenameOK, RenameFields, SameRename
  <2>4. OldKept(rename', server')
    <3> SUFFICES ASSUME rename'.closed, rename'.pc \in Closing, rename.old \in DOMAIN server.queues
                 PROVE  ~server.queues[rename.old].accepting /\ server.queues[rename.old].jobs <= 1
      BY <1>2, <2>3 DEF OldKept, SameRename
    <3>1. pc = "add" /\ rename.closed /\ server.up
      BY <2>2, <2>3 DEF Closing
    <3>2. ~server.queues[rename.old].accepting
      BY <1>1, <2>1, <3>1 DEF OldKept, Closing
    <3>3. server.queues[rename.old] \in Queue
      BY <1>1 DEF ServerOK
    <3>4. server.queues[rename.old].jobs <= 1
      BY <2>2, <3>1, <3>3, PrintersAssumption DEF JobsOf, Exists, Queue
    <3> QED
      BY <3>2, <3>4
  <2>5. ASSUME rename.before.up, ServerOK(rename.before),
               rename.old \in DOMAIN rename.before.queues, Follows(rename, server)
        PROVE  Follows(rename', server')
    <3>1. Remembered(rename, rename.before) /\ MovedTo(rename, server, rename.before)
      BY <2>1, <2>5, OnItsWay
    <3>2. rename'.before = rename.before
      BY <2>3 DEF SameRename
    <3>3. Remembered(rename', rename.before)
      BY <2>3, <3>1 DEF Remembered, SameRename
    <3>4. MovedTo(rename', server, rename.before)
      BY <2>1, <2>2, <2>3, <3>1 DEF MovedTo, SameRename
    <3> QED
      BY <1>2, <2>2, <2>3, <3>2, <3>3, <3>4 DEF Follows
  <2> QED
    BY <1>2, <2>1, <2>2, <2>3, <2>4, <2>5, RenameMoves DEF RenamePcs, Closing
<1>4. CASE RenameVerify
  <2> DEFINE pc == IF Exists(server, rename.new) THEN "accept" ELSE "reopen"
  <2>1. rename' = [rename EXCEPT !.pc = pc] /\ rename.pc = "verify"
    BY <1>4 DEF RenameVerify, RenameAt, Goto
  <2>2. /\ pc \in {"reopen", "accept"} /\ (pc = "accept" <=> Exists(server, rename.new))
    OBVIOUS
  <2> HIDE DEF pc
  <2>3. /\ SameRename(rename, rename') /\ rename'.pc = pc /\ rename'.closed = rename.closed
        /\ rename'.since = rename.since
    BY <1>1, <2>1, MovedOn
  <2>4. OldKept(rename', server')
    BY <1>1, <1>2, <2>1, <2>3, OldSameKept DEF Closing, SameRename
  <2>5. ASSUME rename.before.up, ServerOK(rename.before),
               rename.old \in DOMAIN rename.before.queues, Follows(rename, server)
        PROVE  Follows(rename', server')
    <3>1. Remembered(rename, rename.before) /\ MovedTo(rename, server, rename.before) /\ server.up
      BY <2>1, <2>5, OnItsWay
    <3>2. rename'.before = rename.before
      BY <2>3 DEF SameRename
    <3>3. Remembered(rename', rename.before)
      BY <2>3, <3>1 DEF Remembered, SameRename
    <3>4. pc = "accept" <=> rename.new \in DOMAIN server.queues
      BY <2>2, <3>1 DEF Exists
    <3>5. MovedTo(rename', server, rename.before)
      BY <2>1, <2>2, <2>3, <3>1, <3>4 DEF MovedTo, SameRename
    <3> QED
      BY <1>2, <2>2, <2>3, <3>2, <3>3, <3>5 DEF Follows
  <2> QED
    BY <1>2, <2>1, <2>2, <2>3, <2>4, <2>5, RenameMoves DEF RenamePcs, Closing
<1> QED
  BY <1>3, <1>4

\* The requests that make the new printer and set it up
LEMMA RenameAddKept ==
  ASSUME PanelInv, RenameInv, RenameAdd
  PROVE  RenameInv'
<1>1. ServerOK(server) /\ RenameOK(rename) /\ OldKept(rename, server) /\ rename.pc = "add"
      /\ rename.old # rename.new /\ rename.new \in Printers
  BY DEF PanelInv, RenameInv, RenameHolds, RenameAdd, RenameAt, RenameOK
<1> DEFINE t == IF Exists(server, rename.new) THEN server ELSE AddQueue(server, rename.new, NewQueue)
           since == rename.since + (changes' - changes)
<1>2. /\ panel' = panel
      /\ \/ /\ server.up /\ server' = t /\ changes' = changes
            /\ rename' = [rename EXCEPT !.pc = "verify"]
         \/ /\ server' = server /\ changes' = IF server.up THEN changes + 1 ELSE changes
            /\ rename' = [rename EXCEPT !.pc = "verify", !.since = since]
  BY Zenon DEF RenameAdd, RenameFrame, ServerBecomes, Goto
<1>3. CASE /\ server.up /\ server' = t /\ changes' = changes
           /\ rename' = [rename EXCEPT !.pc = "verify"]
  <2>1. /\ SameRename(rename, rename') /\ rename'.pc = "verify" /\ rename'.closed = rename.closed
        /\ rename'.since = rename.since
    BY <1>1, <1>3, MovedOn
  <2>2. /\ t.up = server.up /\ t.default = server.default
        /\ DOMAIN t.queues = DOMAIN server.queues \cup {rename.new}
        /\ \A m \in DOMAIN server.queues : t.queues[m] = server.queues[m]
    <3>1. CASE Exists(server, rename.new)
      BY <3>1 DEF Exists
    <3>2. CASE ~Exists(server, rename.new)
      <4>1. rename.new \notin DOMAIN server.queues
        BY <1>3, <3>2 DEF Exists
      <4>2. t = AddQueue(server, rename.new, NewQueue)
        BY <3>2
      <4> HIDE DEF t
      <4> QED
        BY <1>1, <4>1, <4>2, QueuesAdded, AddQueueFacts
    <3> QED
      BY <3>1, <3>2
  <2> HIDE DEF t
  <2>3. rename.old \in DOMAIN server'.queues =>
          rename.old \in DOMAIN server.queues /\ server'.queues[rename.old] = server.queues[rename.old]
    BY <1>1, <1>3, <2>2
  <2>4. OldKept(rename', server')
    BY <1>1, <2>1, <2>3, OldSameKept DEF Closing, SameRename
  <2>5. ASSUME rename.before.up, ServerOK(rename.before),
               rename.old \in DOMAIN rename.before.queues, Follows(rename, server)
        PROVE  Follows(rename', server')
    <3>1. Remembered(rename, rename.before) /\ MovedTo(rename, server, rename.before)
          /\ rename.old \in DOMAIN server.queues
      BY <1>1, <2>5, OnItsWay
    <3>2. rename'.before = rename.before /\ rename'.old = rename.old /\ rename'.new = rename.new
      BY <2>1 DEF SameRename
    <3>3. Remembered(rename', rename.before)
      BY <2>1, <3>1 DEF Remembered, SameRename
    <3>4. \A n \in DOMAIN rename.before.queues \ {rename.old} :
            SameQueue(server'.queues[n], rename.before.queues[n])
      BY <1>3, <2>2, <3>1 DEF MovedTo
    <3>5. server'.queues[rename.old] = server.queues[rename.old]
      BY <1>3, <2>2, <3>1
    <3>6. /\ server'.up = server.up /\ server'.default = server.default
          /\ DOMAIN server'.queues = DOMAIN server.queues \cup {rename.new}
      BY <1>3, <2>2
    <3>7. MovedTo(rename', server', rename.before)
      BY <1>1, <2>1, <3>1, <3>2, <3>4, <3>5, <3>6 DEF MovedTo
    <3> QED
      BY <2>1, <3>2, <3>3, <3>7 DEF Follows
  <2> QED
    BY <1>1, <1>2, <1>3, <2>1, <2>4, <2>5, RenameMoves DEF RenamePcs, Closing
<1>4. CASE /\ server' = server /\ changes' = IF server.up THEN changes + 1 ELSE changes
           /\ rename' = [rename EXCEPT !.pc = "verify", !.since = since]
  <2>1. changes \in Nat /\ (rename.before.up => rename.since \in Nat)
    BY <1>1 DEF RenameInv, RenameHolds
  <2> HIDE DEF since
  <2>2. /\ SameRename(rename, rename') /\ rename'.pc = "verify" /\ rename'.closed = rename.closed
        /\ rename'.since = since
    BY <1>1, <1>4 DEF RenameOK, RenameFields, SameRename
  <2>3. OldKept(rename', server')
    BY <1>1, <1>4, <2>2, OldSameKept DEF Closing, SameRename
  <2>4. ASSUME rename.before.up, ServerOK(rename.before),
               rename.old \in DOMAIN rename.before.queues, Follows(rename, server)
        PROVE  Follows(rename', server')
    <3>1. Remembered(rename, rename.before) /\ MovedTo(rename, server, rename.before)
      BY <1>1, <2>4, OnItsWay
    <3>2. rename'.before = rename.before
      BY <2>2 DEF SameRename
    <3>3. Remembered(rename', rename.before)
      BY <2>2, <3>1 DEF Remembered, SameRename
    <3>4. MovedTo(rename', server, rename.before)
      BY <1>1, <2>2, <3>1 DEF MovedTo, SameRename
    <3> QED
      BY <1>4, <2>2, <3>2, <3>3, <3>4 DEF Follows
  <2>5. CASE rename.before.up
    <3>1. \/ changes' = changes /\ rename'.since = rename.since
          \/ changes' = changes + 1 /\ rename'.since = rename.since + 1
      BY <1>4, <2>1, <2>2, <2>5 DEF since
    <3> QED
      BY <1>1, <1>2, <2>2, <2>3, <2>4, <3>1, RenameMoves DEF RenamePcs, Closing
  <2>6. CASE ~rename.before.up
    <3>1. /\ rename'.before = rename.before /\ rename'.old = rename.old /\ rename'.new = rename.new
          /\ changes' \in Nat
      BY <1>4, <2>1, <2>2 DEF SameRename
    <3> QED
      BY <1>1, <2>2, <2>3, <2>6, <3>1 DEF RenameInv, RenameHolds, RenamePcs, Closing, Undisturbed
  <2> QED
    BY <2>5, <2>6
<1> QED
  BY <1>2, <1>3, <1>4, Zenon

LEMMA RenameSetKept ==
  ASSUME PanelInv, RenameInv, RenameSetAccepting \/ RenameSetEnabled
  PROVE  RenameInv'
<1>1. /\ ServerOK(server) /\ RenameOK(rename) /\ OldKept(rename, server)
      /\ rename.accepting \in BOOLEAN /\ rename.paused \in BOOLEAN
  BY DEF PanelInv, RenameInv, RenameHolds, RenameOK
<1> DEFINE t == SetQueue(server, rename.new, "accepting", rename.accepting)
           u == SetQueue(server, rename.new, "paused", rename.paused)
           pc == IF rename.is_default THEN "default" ELSE "delete"
<1>2. /\ panel' = panel
      /\ \/ /\ rename.pc = "accept" /\ rename' = [rename EXCEPT !.pc = "enable"]
            /\ \/ Exists(server, rename.new) /\ server' = t /\ changes' = changes
               \/ server' = server /\ Exists(server, rename.new) /\ changes' = changes + 1
               \/ server' = server /\ ~Exists(server, rename.new) /\ changes' = changes
         \/ /\ rename.pc = "enable" /\ rename' = [rename EXCEPT !.pc = pc]
            /\ \/ Exists(server, rename.new) /\ server' = u /\ changes' = changes
               \/ server' = server /\ Exists(server, rename.new) /\ changes' = changes + 1
               \/ server' = server /\ ~Exists(server, rename.new) /\ changes' = changes
  <2>1. CASE RenameSetAccepting
    <3>1. PICK ok \in BOOLEAN : RenameRequest(rename.new, ok, t)
      BY <2>1 DEF RenameSetAccepting
    <3>2. rename.pc = "accept" /\ rename' = [rename EXCEPT !.pc = "enable"]
      BY <2>1 DEF RenameSetAccepting, RenameAt, Goto
    <3> HIDE DEF t, u, pc
    <3> QED
      BY <3>1, <3>2, RequestEffect
  <2>2. CASE RenameSetEnabled
    <3>1. PICK ok \in BOOLEAN : RenameRequest(rename.new, ok, u)
      BY <2>2 DEF RenameSetEnabled
    <3>2. rename.pc = "enable" /\ rename' = [rename EXCEPT !.pc = pc]
      BY <2>2 DEF RenameSetEnabled, RenameAt, Goto
    <3> HIDE DEF t, u, pc
    <3> QED
      BY <3>1, <3>2, RequestEffect
  <2> QED
    BY <2>1, <2>2
<1>3. Exists(server, rename.new) =>
        /\ t.up = server.up /\ t.default = server.default /\ DOMAIN t.queues = DOMAIN server.queues
        /\ t.queues[rename.new].accepting = rename.accepting
        /\ \A m \in DOMAIN server.queues : m # rename.new => t.queues[m] = server.queues[m]
  <2>1. t = SetQueue(server, rename.new, "accepting", rename.accepting)
    BY Zenon
  <2> HIDE DEF t, u, pc
  <2> SUFFICES ASSUME rename.new \in DOMAIN server.queues
               PROVE  /\ t.up = server.up /\ t.default = server.default
                      /\ DOMAIN t.queues = DOMAIN server.queues
                      /\ t.queues[rename.new].accepting = rename.accepting
                      /\ \A m \in DOMAIN server.queues : m # rename.new => t.queues[m] = server.queues[m]
    BY DEF Exists
  <2> QED
    BY <1>1, <2>1, SetFieldFacts
<1>4. Exists(server, rename.new) =>
        /\ u.up = server.up /\ u.default = server.default /\ DOMAIN u.queues = DOMAIN server.queues
        /\ u.queues[rename.new].paused = rename.paused
        /\ u.queues[rename.new].accepting = server.queues[rename.new].accepting
        /\ \A m \in DOMAIN server.queues : m # rename.new => u.queues[m] = server.queues[m]
  <2>1. u = SetQueue(server, rename.new, "paused", rename.paused)
    BY Zenon
  <2> HIDE DEF t, u, pc
  <2> SUFFICES ASSUME rename.new \in DOMAIN server.queues
               PROVE  /\ u.up = server.up /\ u.default = server.default
                      /\ DOMAIN u.queues = DOMAIN server.queues
                      /\ u.queues[rename.new].paused = rename.paused
                      /\ u.queues[rename.new].accepting = server.queues[rename.new].accepting
                      /\ \A m \in DOMAIN server.queues : m # rename.new => u.queues[m] = server.queues[m]
    BY DEF Exists
  <2> QED
    BY <1>1, <2>1, SetFieldFacts
<1>5. pc \in {"default", "delete"} /\ (pc = "default" <=> rename.is_default)
  OBVIOUS
<1> HIDE DEF t, u, pc
<1>6. /\ SameRename(rename, rename') /\ rename'.closed = rename.closed
      /\ rename'.since = rename.since
      /\ \/ rename.pc = "accept" /\ rename'.pc = "enable"
         \/ rename.pc = "enable" /\ rename'.pc = pc
  BY <1>1, <1>2, MovedOn
<1>7. rename.old # rename.new
  BY <1>6 DEF RenameInv, RenameHolds
<1>8. rename.old \in DOMAIN server'.queues =>
        rename.old \in DOMAIN server.queues /\ server'.queues[rename.old] = server.queues[rename.old]
  BY <1>2, <1>3, <1>4, <1>7
<1>9. OldKept(rename', server')
  BY <1>1, <1>6, <1>8, OldSameKept DEF Closing, SameRename
<1>10. ASSUME rename.before.up, ServerOK(rename.before),
              rename.old \in DOMAIN rename.before.queues, Follows(rename, server),
              ~(changes' = changes + 1 /\ rename'.since = rename.since)
       PROVE  Follows(rename', server')
  <2>1. Remembered(rename, rename.before) /\ MovedTo(rename, server, rename.before)
        /\ rename.old \in DOMAIN server.queues /\ server.up
    BY <1>6, <1>10, OnItsWay
  <2>2. Exists(server, rename.new)
    BY <1>6, <2>1 DEF MovedTo, Exists
  <2>3. /\ rename.pc = "accept" => server' = t
        /\ rename.pc = "enable" => server' = u
    BY <1>2, <1>6, <1>10, <2>2
  <2>4. rename'.before = rename.before /\ rename'.old = rename.old /\ rename'.new = rename.new
        /\ rename'.accepting = rename.accepting /\ rename'.paused = rename.paused
        /\ rename'.is_default = rename.is_default
    BY <1>6 DEF SameRename
  <2>5. Remembered(rename', rename.before)
    BY <2>1, <2>4 DEF Remembered
  <2>6. /\ server'.up = server.up /\ server'.default = server.default
        /\ DOMAIN server'.queues = DOMAIN server.queues
        /\ \A m \in DOMAIN server.queues : m # rename.new => server'.queues[m] = server.queues[m]
    BY <1>3, <1>4, <1>6, <2>2, <2>3
  <2>7. \A n \in DOMAIN rename.before.queues \ {rename.old} :
          SameQueue(server'.queues[n], rename.before.queues[n])
    BY <2>1, <2>6 DEF MovedTo, Remembered
  <2>8. server'.queues[rename.old] = server.queues[rename.old]
    BY <1>7, <2>1, <2>6
  <2>9. server'.queues[rename.new].accepting = rename.accepting
        /\ (rename.pc = "enable" => server'.queues[rename.new].paused = rename.paused)
    BY <1>3, <1>4, <1>6, <2>1, <2>2, <2>3 DEF MovedTo
  <2>10. MovedTo(rename', server', rename.before)
    BY <1>5, <1>6, <2>1, <2>4, <2>6, <2>7, <2>8, <2>9 DEF MovedTo
  <2> QED
    BY <1>5, <1>6, <2>4, <2>5, <2>10 DEF Follows
<1> QED
  BY <1>2, <1>5, <1>6, <1>9, <1>10, RenameMoves DEF RenamePcs, Closing

LEMMA RenameEndsKept ==
  ASSUME PanelInv, RenameInv, RenameSetDefault \/ RenameDelete
  PROVE  RenameInv'
<1>1. /\ ServerOK(server) /\ RenameOK(rename) /\ OldKept(rename, server)
  BY DEF PanelInv, RenameInv, RenameHolds
<1>2. CASE RenameSetDefault
  <2> DEFINE t == [server EXCEPT !.default = rename.new]
  <2>1. PICK ok \in BOOLEAN : RenameRequest(rename.new, ok, t)
    BY <1>2 DEF RenameSetDefault
  <2>2. rename.pc = "default" /\ rename' = [rename EXCEPT !.pc = "delete"]
    BY <1>2 DEF RenameSetDefault, RenameAt, Goto
  <2>3. t.up = server.up /\ t.queues = server.queues /\ t.default = rename.new
    BY <1>1 DEF ServerOK
  <2> HIDE DEF t
  <2>4. /\ panel' = panel
        /\ \/ ok /\ Exists(server, rename.new) /\ server' = t /\ changes' = changes
           \/ ~ok /\ server' = server /\ Exists(server, rename.new) /\ changes' = changes + 1
           \/ ~ok /\ server' = server /\ ~Exists(server, rename.new) /\ changes' = changes
    BY <2>1, RequestEffect
  <2>5. /\ SameRename(rename, rename') /\ rename'.pc = "delete" /\ rename'.closed = rename.closed
        /\ rename'.since = rename.since
    BY <1>1, <2>2, MovedOn
  <2>6. OldKept(rename', server')
    BY <1>1, <2>2, <2>3, <2>4, <2>5, OldSameKept DEF Closing, SameRename
  <2>7. ASSUME rename.before.up, ServerOK(rename.before),
               rename.old \in DOMAIN rename.before.queues, Follows(rename, server),
               ~(changes' = changes + 1 /\ rename'.since = rename.since)
        PROVE  Follows(rename', server')
    <3>1. Remembered(rename, rename.before) /\ MovedTo(rename, server, rename.before) /\ server.up
      BY <2>2, <2>7, OnItsWay
    <3>2. Exists(server, rename.new)
      BY <2>2, <3>1 DEF MovedTo, Exists
    <3>3. server' = t
      BY <2>4, <2>5, <2>7, <3>2
    <3>4. rename'.before = rename.before /\ rename'.old = rename.old /\ rename'.new = rename.new
          /\ rename'.accepting = rename.accepting /\ rename'.paused = rename.paused
          /\ rename'.is_default = rename.is_default
      BY <2>5 DEF SameRename
    <3>5. Remembered(rename', rename.before)
      BY <3>1, <3>4 DEF Remembered
    <3>6. rename.is_default
      BY <2>2, <3>1 DEF MovedTo
    <3>7. MovedTo(rename', server', rename.before)
      BY <2>2, <2>3, <2>5, <3>1, <3>3, <3>4, <3>6 DEF MovedTo
    <3> QED
      BY <2>5, <3>4, <3>5, <3>7 DEF Follows
  <2> QED
    BY <2>2, <2>4, <2>5, <2>6, <2>7, RenameMoves DEF RenamePcs, Closing
<1>3. CASE RenameDelete
  <2> DEFINE t == DeleteQueue(server, rename.old)
  <2>1. PICK ok \in BOOLEAN : RenameRequest(rename.old, ok, t)
    BY <1>3 DEF RenameDelete
  <2>2. rename.pc = "delete" /\ rename' = [rename EXCEPT !.pc = "done"]
    BY <1>3 DEF RenameDelete, RenameAt, Goto
  <2>3. /\ t.up = server.up
        /\ t.default = IF server.default = rename.old THEN NoPrinter ELSE server.default
        /\ DOMAIN t.queues = DOMAIN server.queues \ {rename.old}
        /\ \A m \in DOMAIN server.queues : m # rename.old => t.queues[m] = server.queues[m]
    BY <1>1, DeleteQueueFacts
  <2> HIDE DEF t
  <2>4. /\ panel' = panel
        /\ \/ ok /\ Exists(server, rename.old) /\ server' = t /\ changes' = changes
           \/ ~ok /\ server' = server /\ Exists(server, rename.old) /\ changes' = changes + 1
           \/ ~ok /\ server' = server /\ ~Exists(server, rename.old) /\ changes' = changes
    BY <2>1, RequestEffect
  <2>5. /\ SameRename(rename, rename') /\ rename'.pc = "done" /\ rename'.since = rename.since
    BY <1>1, <2>2, MovedOn
  <2>6. OldKept(rename', server')
    BY <2>5 DEF OldKept, Closing
  <2>7. ASSUME rename.before.up, ServerOK(rename.before),
               rename.old \in DOMAIN rename.before.queues, Follows(rename, server),
               ~(changes' = changes + 1 /\ rename'.since = rename.since)
        PROVE  Follows(rename', server')
    <3> DEFINE b == rename.before
    <3>1. Remembered(rename, b) /\ MovedTo(rename, server, b)
          /\ Exists(server, rename.old)
      BY <2>2, <2>7, OnItsWay DEF Exists
    <3>2. server' = t
      BY <2>4, <2>5, <2>7, <3>1
    <3>3. rename'.before = b /\ rename'.old = rename.old /\ rename'.new = rename.new
      BY <2>5 DEF SameRename
    <3>4. /\ rename.old # rename.new /\ rename.new \notin DOMAIN b.queues
          /\ rename.new \in DOMAIN server.queues
          /\ server.queues[rename.new].accepting = b.queues[rename.old].accepting
          /\ server.queues[rename.new].paused = b.queues[rename.old].paused
      BY <2>2, <3>1 DEF MovedTo, Remembered
    <3>5. server.default = IF b.default = rename.old THEN rename.new ELSE b.default
      BY <2>2, <3>1 DEF MovedTo, Remembered
    <3>6. server'.default = IF b.default = rename.old THEN rename.new ELSE b.default
      BY <2>3, <3>2, <3>4, <3>5
    <3>7. DOMAIN server'.queues = (DOMAIN b.queues \cup {rename.new}) \ {rename.old}
      BY <2>3, <3>1, <3>2, <3>4 DEF MovedTo
    <3>8. \A n \in DOMAIN b.queues \ {rename.old} : SameQueue(server'.queues[n], b.queues[n])
      BY <2>3, <3>1, <3>2 DEF MovedTo
    <3>9. SameQueue(server'.queues[rename.new], b.queues[rename.old])
      BY <2>3, <3>2, <3>4 DEF SameQueue
    <3>10. server'.up = b.up
      BY <2>3, <3>1, <3>2 DEF MovedTo
    <3>11. MovedServer(rename', server', rename'.before)
      BY <3>3, <3>4, <3>6, <3>7, <3>8, <3>9, <3>10 DEF MovedServer
    <3> QED
      BY <2>5, <3>11 DEF Follows
  <2> QED
    BY <2>2, <2>4, <2>5, <2>6, <2>7, RenameMoves DEF RenamePcs
<1> QED
  BY <1>2, <1>3

-----------------------------------------------------------------------------
\* What the user and other clients do, and what is refused, is counted.
LEMMA ChangesStep ==
  ASSUME changes \in Nat, Next
  PROVE  changes' \in Nat
<1> USE DEF DriverFrame, AdditionFrame, RenameFrame, Acted, Counted
<1> DEFINE Counts == changes' = changes \/ changes' = changes + 1
<1>1. ASSUME NEW n, NEW ok \in BOOLEAN, Answered(n, ok, changes) \/ Answered(n, ok, changes + 1)
      PROVE  changes' \in Nat
  <2>1. \/ changes' = changes \/ changes' = changes + 1 \/ changes' = changes + 1 + 1
    BY <1>1, Zenon DEF Answered
  <2> QED
    BY <2>1
<1>2. Start => Counts
  BY Zenon DEF Start, PopulatePrintersList, AttachToCupsNotifier, StartStatusCheck
<1>3. MainLoop => changes' \in Nat
  <2>1. ASSUME NEW i \in DOMAIN calls, NEW ok \in BOOLEAN, SetPpdCallback(i, ok)
        PROVE  changes' \in Nat
    BY <1>1, <2>1 DEF SetPpdCallback
  <2>2. ASSUME NEW found \in BOOLEAN, SearchAnswered(found) PROVE Counts
    BY <2>2, Zenon DEF SearchAnswered
  <2>3. (CupsStatusCheck \/ RenewSubscription \/ SubscriptionExpires \/ OnCupsNotification
         \/ OnPermissionChanged) => Counts
    BY Zenon DEF CupsStatusCheck, RenewSubscription, SubscriptionExpires, OnCupsNotification,
           OnPermissionChanged
  <2> QED
    BY <2>1, <2>2, <2>3 DEF MainLoop
<1>4. User => changes' \in Nat
  <2>1. (\/ \E i \in DOMAIN panel.rows : SelectRow(i)
         \/ \E n \in Printers \ Discovered : PrinterNameEdit(n)
         \/ \E ok \in BOOLEAN : PpdSelectionDialogResponse(ok)
         \/ PopupModelMenu \/ CloseMenu \/ SetPpdFromList \/ OpenChooser) => Counts
    BY Zenon DEF SelectRow, PrinterNameEdit, PpdSelectionDialogResponse, PopupModelMenu, CloseMenu,
           SetPpdFromList, OpenChooser
  <2>2. CASE PrinterDisable
    <3>1. \E ok \in BOOLEAN : Answered(CurrentName(panel), ok, changes + 1)
      BY <2>2, Zenon DEF PrinterDisable
    <3> QED
      BY <1>1, <3>1
  <2>3. CASE PrinterRemove
    <3>1. \E ok \in BOOLEAN : Answered(CurrentName(panel), ok, changes + 1)
      BY <2>3, Zenon DEF PrinterRemove
    <3> QED
      BY <1>1, <3>1
  <2>4. CASE PrinterSetDefault
    <3>1. \/ changes' = changes + 1
          \/ \E ok \in BOOLEAN : Answered(CurrentName(panel), ok, changes + 1)
      BY <2>4, Zenon DEF PrinterSetDefault
    <3> QED
      BY <1>1, <3>1
  <2>5. CASE PrinterLocationEdit
    <3>1. Answered(CurrentName(panel), TRUE, changes + 1)
      BY <2>5, Zenon DEF PrinterLocationEdit
    <3> QED
      BY <1>1, <3>1
  <2>6. Counts => changes' \in Nat
    OBVIOUS
  <2> HIDE DEF Counts
  <2> QED
    BY <2>1, <2>2, <2>3, <2>4, <2>5, <2>6, Zenon DEF User
<1>5. Rename => changes' \in Nat
  <2>1. ASSUME NEW n, NEW ok \in BOOLEAN, NEW after, RenameRequest(n, ok, after)
        PROVE  changes' \in Nat
    <3>1. Counts
      BY <2>1, RequestEffect, Zenon
    <3> QED
      BY <3>1
  <2>2. RenameStopAccepting \/ RenameReopen => changes' \in Nat
    BY <2>1, Zenon DEF RenameStopAccepting, RenameReopen
  <2>3. RenameSetAccepting \/ RenameSetEnabled \/ RenameSetDefault \/ RenameDelete => changes' \in Nat
    BY <2>1, Zenon DEF RenameSetAccepting, RenameSetEnabled, RenameSetDefault, RenameDelete
  <2>4. RenameCheck \/ RenameRecheck \/ RenameVerify \/ RenameDone => Counts
    BY Zenon DEF RenameCheck, RenameRecheck, RenameVerify, RenameDone
  <2>5. RenameAdd => Counts
    BY Zenon DEF RenameAdd
  <2>6. Counts => changes' \in Nat
    OBVIOUS
  <2> HIDE DEF Counts
  <2> QED
    BY <2>2, <2>3, <2>4, <2>5, <2>6, Zenon DEF Rename
<1>6. Addition => Counts
  BY Zenon DEF Addition, PrinterAdd, AdditionCreates, NewPrinterDialogResponse, PreResponse
<1>7. Others => Counts
  BY Zenon DEF Others, OtherAdds, OtherDeletes, OtherPauses, OtherSetsDefault, OtherSetsAccepting,
         JobCreated, JobCompleted, CupsStopsOrStarts, OtherChange
<1> QED
  BY <1>2, <1>3, <1>4, <1>5, <1>6, <1>7 DEF Next

\* Only a rename, others and what the dialog had asked for go on while the main loop is blocked.
LEMMA BlockedSteps ==
  ASSUME PanelInv, rename.pc # "idle", Next
  PROVE  \/ Rename \/ Others \/ AdditionCreates
         \/ /\ server' = server /\ rename' = rename /\ panel'.adding = panel.adding
            /\ changes' = changes \/ changes' = changes + 1
<1>1. ~Runs /\ panel.loaded # "no" /\ DOMAIN panel = PanelFields
  BY PanelFacts DEF PanelInv, Runs
<1>2. ~MainLoop \/ SubscriptionExpires
  BY <1>1 DEF MainLoop, CupsStatusCheck, RenewSubscription, OnCupsNotification,
         OnPermissionChanged, SearchAnswered, SetPpdCallback
<1>3. ~User
  <2>1. ~UserActs
    BY <1>1 DEF UserActs
  <2>2. ~(\/ \E i \in DOMAIN panel.rows : SelectRow(i)
          \/ \E n \in Printers \ Discovered : PrinterNameEdit(n)
          \/ PrinterDisable \/ PrinterSetDefault \/ PrinterRemove \/ PrinterLocationEdit
          \/ PopupModelMenu)
    BY <2>1, Zenon DEF SelectRow, PrinterDisable, PrinterSetDefault, PrinterRemove,
         PrinterLocationEdit, PrinterNameEdit, PopupModelMenu
  <2>3. ~(\/ CloseMenu \/ SetPpdFromList \/ OpenChooser
          \/ \E ok \in BOOLEAN : PpdSelectionDialogResponse(ok))
    BY <1>1, Zenon DEF CloseMenu, SetPpdFromList, OpenChooser, PpdSelectionDialogResponse
  <2> QED
    BY <2>2, <2>3, Zenon DEF User
<1>4. ~Addition \/ AdditionCreates
  BY <1>1, Zenon DEF Addition, PrinterAdd, NewPrinterDialogResponse, PreResponse, UserActs
<1>5. SubscriptionExpires => /\ server' = server /\ rename' = rename /\ panel' = panel
                             /\ changes' = changes
  BY DEF SubscriptionExpires
<1>6. Start => /\ server' = server /\ rename' = rename /\ panel'.adding = panel.adding
               /\ changes' = changes \/ changes' = changes + 1
  BY <1>1 DEF Start, PopulatePrintersList, AttachToCupsNotifier, StartStatusCheck, PanelFields
<1> QED
  BY <1>2, <1>3, <1>4, <1>5, <1>6 DEF Next

\* A rename is started by the user only.
LEMMA RenameSteps ==
  ASSUME PanelInv, rename.pc = "idle", Next, ~\E n \in Printers \ Discovered : PrinterNameEdit(n)
  PROVE  rename'.pc = "idle"
<1> USE DEF DriverFrame, AdditionFrame
<1>1. ~Rename
  BY DEF Rename, RenameCheck, RenameStopAccepting, RenameRecheck, RenameAdd, RenameVerify,
         RenameSetAccepting, RenameSetEnabled, RenameSetDefault, RenameDelete, RenameReopen,
         RenameDone, RenameAt
<1>2. Start \/ (Addition /\ ~AdditionCreates) => rename' = rename
  BY Zenon DEF Start, PopulatePrintersList, AttachToCupsNotifier, StartStatusCheck, Addition, PrinterAdd,
         NewPrinterDialogResponse, PreResponse
<1>3. MainLoop => rename' = rename
  BY DEF MainLoop, CupsStatusCheck, RenewSubscription, SubscriptionExpires, OnCupsNotification,
         OnPermissionChanged, SearchAnswered, SetPpdCallback
<1>4. User => rename' = rename
  BY DEF User, SelectRow, PrinterDisable, PrinterSetDefault, PrinterRemove, PrinterLocationEdit,
         PopupModelMenu, CloseMenu, SetPpdFromList, OpenChooser, PpdSelectionDialogResponse
<1>5. Others \/ AdditionCreates => rename'.pc = rename.pc
  BY OthersRename DEF PanelInv
<1> QED
  BY <1>1, <1>2, <1>3, <1>4, <1>5 DEF Next

LEMMA IdleHolds ==
  ASSUME changes' \in Nat, rename'.pc \in {"idle", "check"}, ~rename'.before.up
  PROVE  RenameInv'
<1>1. OldKept(rename', server')
  BY DEF OldKept, Closing
<1> QED
  BY <1>1 DEF RenameInv, RenameHolds, RenamePcs, Undisturbed

LEMMA RenameInvStep ==
  ASSUME PanelInv, RenameInv, [Next]_vars
  PROVE  RenameInv'
<1>1. /\ changes \in Nat /\ PanelInv' /\ OldKept(rename, server)
      /\ ServerOK(server) /\ ServerOK(server') /\ RenameOK(rename)
  <2>1. PanelInv'
    BY PanelInvStep
  <2> QED
    BY <2>1 DEF RenameInv, RenameHolds, PanelInv
<1>2. CASE UNCHANGED vars
  BY <1>2 DEF vars, RenameInv
<1>3. ASSUME rename' = NoRename, changes' \in Nat PROVE RenameInv'
  <2>1. rename'.pc = "idle" /\ ~rename'.before.up
    BY <1>3 DEF NoRename, NoServer
  <2> QED
    BY <1>3, <2>1, IdleHolds
<1>4. ASSUME Next, rename.pc = "idle" PROVE RenameInv'
  <2>1. changes' \in Nat
    BY <1>1, <1>4, ChangesStep
  <2>2. rename = NoRename
    BY <1>1, <1>4 DEF RenameOK
  <2>3. ASSUME NEW n, PrinterNameEdit(n) PROVE RenameInv'
    <3>1. rename' = [rename EXCEPT !.pc = "check", !.old = CurrentName(panel), !.new = n]
      BY <2>3 DEF PrinterNameEdit
    <3>2. rename'.pc = "check" /\ ~rename'.before.up
      BY <2>2, <3>1 DEF NoRename, NoServer
    <3> QED
      BY <2>1, <3>2, IdleHolds
  <2>4. CASE ~\E n \in Printers \ Discovered : PrinterNameEdit(n)
    <3>1. rename'.pc = "idle"
      BY <1>1, <1>4, <2>4, RenameSteps
    <3>2. rename' = NoRename
      BY <1>1, <3>1 DEF PanelInv, RenameOK
    <3> QED
      BY <1>3, <2>1, <3>2
  <2> QED
    BY <2>3, <2>4
<1>5. ASSUME Next, rename.pc # "idle" PROVE RenameInv'
  <2>1. CASE Rename
    <3>1. RenameDone => RenameInv'
      BY <1>3, <1>1, <1>5, ChangesStep DEF RenameDone
    <3> QED
      BY <2>1, <3>1, RenameCheckKept, RenameOldKept, RenameLooksKept, RenameAddKept, RenameSetKept,
         RenameEndsKept, Zenon DEF Rename
  <2>2. CASE Others \/ AdditionCreates
    <3>1. /\ SameRename(rename, rename') /\ rename'.pc = rename.pc /\ panel' = panel
          /\ rename'.closed => rename.closed /\ StaysClosed(rename.old, server, server')
          /\ \/ panel.adding = "adding" /\ rename'.since = rename.since /\ changes' = changes
             \/ changes' = changes + 1 /\ rename'.since = rename.since
             \/ /\ changes' = changes + 1 /\ rename'.since = rename.since + 1
                /\ SameServer(server', server)
      BY <1>5, <2>2, OthersEffect
    <3>2. OldKept(rename', server')
      BY <1>1, <3>1, ClosedKept DEF SameRename
    <3>3. ASSUME rename.before.up, ServerOK(rename.before), rename.old \in DOMAIN rename.before.queues,
                 panel.adding # "adding", Follows(rename, server),
                 ~(changes' = changes + 1 /\ rename'.since = rename.since)
          PROVE  Follows(rename', server')
      BY <3>1, <3>3, FollowsSame
    <3> QED
      BY <3>1, <3>2, <3>3, RenameMoves
  <2>3. CASE /\ server' = server /\ rename' = rename /\ panel'.adding = panel.adding
             /\ changes' = changes \/ changes' = changes + 1
    BY <1>1, <2>3, RenameMoves DEF SameRename
  <2> QED
    BY <1>5, <2>1, <2>2, <2>3, BlockedSteps
<1> QED
  BY <1>2, <1>4, <1>5

LEMMA RenameInvInit ==
  ASSUME Init
  PROVE  RenameInv
<1>1. changes \in Nat /\ rename.pc = "idle" /\ ~rename.before.up
  BY DEF Init, NoRename, NoServer
<1>2. OldKept(rename, server)
  BY <1>1 DEF OldKept, Closing
<1> QED
  BY <1>1, <1>2 DEF RenameInv, RenameHolds, RenamePcs, Undisturbed

\* A rename deletes no queue with more than one job, for any number of printers, jobs and other
\* clients: closed for jobs before CUPS was asked for their number, it can only lose some.
THEOREM RenameKeepsJobs == Spec => RenameKeepsQueuedJobs
<1>1. Init => PanelInv /\ RenameInv
  BY PanelInvInit, RenameInvInit
<1>2. (PanelInv /\ RenameInv) /\ [Next]_vars => (PanelInv /\ RenameInv)'
  BY PanelInvStep, RenameInvStep
<1> DEFINE Kept == (RenameAt("delete") /\ rename'.pc = "done" /\ rename.closed
                    /\ rename.old \in DOMAIN server.queues /\ rename.old \notin DOMAIN server'.queues)
                   => server.queues[rename.old].jobs <= 1
<1>3. PanelInv /\ RenameInv /\ [Next]_vars => [Kept]_vars
  <2>1. RenameInv => Kept
    BY DEF RenameInv, RenameHolds, OldKept, Closing, RenameAt
  <2> QED
    BY <2>1
<1> QED
  BY <1>1, <1>2, <1>3, PTL DEF Spec, RenameKeepsQueuedJobs

\* The settings of two servers are the same if those of each queue and the default are.
LEMMA SameSettings ==
  ASSUME NEW s, NEW b, DOMAIN s.queues = DOMAIN b.queues, s.default = b.default,
         \A n \in DOMAIN b.queues : SameQueue(s.queues[n], b.queues[n])
  PROVE  Settings(s) = Settings(b)
<1> DEFINE q(x) == [n \in DOMAIN x.queues |-> [paused |-> x.queues[n].paused,
                                               accepting |-> x.queues[n].accepting]]
<1>1. \A n \in DOMAIN b.queues : s.queues[n].paused = b.queues[n].paused
                                 /\ s.queues[n].accepting = b.queues[n].accepting
  BY DEF SameQueue
<1>2. q(s) = q(b)
  BY <1>1
<1>3. Settings(s) = [queues |-> q(s), default |-> s.default]
      /\ Settings(b) = [queues |-> q(b), default |-> b.default]
  BY DEF Settings
<1> HIDE DEF q
<1> QED
  BY <1>2, <1>3

\* A rename that nobody disturbs and of which no request but the addition is refused leaves every
\* printer as it was, or has moved the printer with its settings, whatever jobs came and went.
THEOREM RenamesAllOrNothing == Spec => []RenameAllOrNothing
<1>1. Init => PanelInv /\ RenameInv
  BY PanelInvInit, RenameInvInit
<1>2. (PanelInv /\ RenameInv) /\ [Next]_vars => (PanelInv /\ RenameInv)'
  BY PanelInvStep, RenameInvStep
<1>3. PanelInv /\ RenameInv => RenameAllOrNothing
  <2> DEFINE b == rename.before
  <2> SUFFICES ASSUME PanelInv, RenameInv, RenameAt("done"), b.up, panel.adding # "adding",
                      rename.old \in DOMAIN b.queues, rename.since = changes
               PROVE  Settings(server) = Settings(b) \/ Settings(server) = Settings(Renamed(b))
    BY DEF RenameAllOrNothing
  <2>1. ServerOK(b) /\ rename.pc = "done" /\ Follows(rename, server) /\ rename.new \in Printers
    BY DEF RenameInv, RenameHolds, Undisturbed, RenameAt, PanelInv, RenameOK
  <2> HIDE DEF b
  <2>2. CASE SameServer(server, b)
    BY <2>2, SameSettings DEF SameServer
  <2>3. CASE MovedServer(rename, server, b)
    <3> DEFINE q == b.queues[rename.old]
               added == AddQueue(b, rename.new, q)
               moved == DeleteQueue(added, rename.old)
               r == Renamed(b)
    <3>1. q \in Queue
      BY <2>1 DEF ServerOK
    <3>2. r = IF b.default = rename.old THEN [moved EXCEPT !.default = rename.new] ELSE moved
      BY Zenon DEF Renamed
    <3> HIDE DEF q, r
    <3>3. /\ ServerOK(added) /\ added.default = b.default
          /\ DOMAIN added.queues = DOMAIN b.queues \cup {rename.new} /\ added.queues[rename.new] = q
          /\ \A m \in DOMAIN b.queues : m # rename.new => added.queues[m] = b.queues[m]
      BY <2>1, <3>1, AddQueueFacts
    <3> HIDE DEF added
    <3>4. /\ ServerOK(moved)
          /\ moved.default = IF added.default = rename.old THEN NoPrinter ELSE added.default
          /\ DOMAIN moved.queues = DOMAIN added.queues \ {rename.old}
          /\ \A m \in DOMAIN added.queues : m # rename.old => moved.queues[m] = added.queues[m]
      BY <3>3, DeleteQueueFacts
    <3> HIDE DEF moved
    <3>5. r.queues = moved.queues
          /\ r.default = IF b.default = rename.old THEN rename.new ELSE b.default
      BY <3>2, <3>3, <3>4 DEF ServerOK
    <3>6. DOMAIN server.queues = DOMAIN r.queues /\ server.default = r.default
      BY <2>3, <3>3, <3>4, <3>5 DEF MovedServer
    <3>7. \A n \in DOMAIN r.queues : SameQueue(server.queues[n], r.queues[n])
      <4> TAKE n \in DOMAIN r.queues
      <4>1. CASE n = rename.new
        <5>1. r.queues[n] = q
          BY <2>3, <3>3, <3>4, <3>5, <4>1 DEF MovedServer
        <5> QED
          BY <2>3, <4>1, <5>1 DEF MovedServer, q
      <4>2. CASE n # rename.new
        <5>1. n \in DOMAIN b.queues \ {rename.old} /\ r.queues[n] = b.queues[n]
          BY <3>3, <3>4, <3>5, <4>2
        <5> QED
          BY <2>3, <5>1 DEF MovedServer
      <4> QED
        BY <4>1, <4>2
    <3>8. Settings(server) = Settings(r)
      BY <3>6, <3>7, SameSettings
    <3> QED
      BY <3>8 DEF r
  <2> QED
    BY <2>1, <2>2, <2>3 DEF Follows, b
<1> QED
  BY <1>1, <1>2, <1>3, PTL DEF Spec
=============================================================================
