-------------------------- MODULE JsonListsProofs --------------------------
(* JsonTree implements ItemLists, for any number of items, names and values: what
   every call of cJSON does to the pointers is what ItemLists lets it do to the lists
   that one reads off them, following next from child. And cJSON_Compare, which goes
   down two such lists, tells whether two items have the same value.               *)
EXTENDS JsonTreeProofs, SequenceTheorems

--------------------------------------------------------------------------------
(* Sequences *)

\* The elements of s without the i-th.
LEMMA RemoveAtIs ==
  ASSUME NEW S, NEW s \in Seq(S), NEW i \in 1 .. Len(s)
  PROVE  /\ RemoveAt(s, i) \in Seq(S) /\ Len(RemoveAt(s, i)) = Len(s) - 1
         /\ \A j \in 1 .. Len(s) - 1 : RemoveAt(s, i)[j] = IF j < i THEN s[j] ELSE s[j + 1]
<1>. DEFINE a == SubSeq(s, 1, i - 1)
            b == SubSeq(s, i + 1, Len(s))
<1>0. Len(s) \in Nat /\ i \in Nat /\ i >= 1 /\ i <= Len(s)
  OBVIOUS
<1>1. a \in Seq(S) /\ Len(a) = i - 1 /\ \A j \in 1 .. i - 1 : a[j] = s[j]
  BY <1>0
<1>2. b \in Seq(S) /\ Len(b) = Len(s) - i /\ \A j \in 1 .. Len(s) - i : b[j] = s[i + j]
  BY <1>0
<1>3. RemoveAt(s, i) = a \o b
  BY DEF RemoveAt
<1>. HIDE DEF a, b
<1>4. a \o b \in Seq(S) /\ Len(a \o b) = Len(s) - 1
  <2>1. a \o b \in Seq(S) /\ Len(a \o b) = Len(a) + Len(b)
    BY <1>1, <1>2, ConcatProperties
  <2>. QED BY <1>0, <1>1, <1>2, <2>1
<1>5. ASSUME NEW j \in 1 .. Len(s) - 1
      PROVE  (a \o b)[j] = IF j < i THEN s[j] ELSE s[j + 1]
  <2>1. CASE j < i
    BY <1>0, <1>1, <1>2, <2>1
  <2>2. CASE ~(j < i)
    <3>1. (a \o b)[j] = b[j - (i - 1)] /\ j - (i - 1) \in 1 .. Len(s) - i
      BY <1>0, <1>1, <1>2, <2>2
    <3>2. i + (j - (i - 1)) = j + 1
      BY <1>0
    <3>. QED BY <1>2, <2>2, <3>1, <3>2
  <2>. QED BY <2>1, <2>2
<1>. QED BY <1>3, <1>4, <1>5

\* The elements of s with e before the i-th.
LEMMA InsertAtIs ==
  ASSUME NEW S, NEW s \in Seq(S), NEW i \in 1 .. Len(s) + 1, NEW e \in S
  PROVE  /\ InsertAt(s, i, e) \in Seq(S) /\ Len(InsertAt(s, i, e)) = Len(s) + 1
         /\ \A j \in 1 .. Len(s) + 1 : InsertAt(s, i, e)[j] = IF j < i THEN s[j] ELSE IF j = i THEN e ELSE s[j - 1]
<1>. DEFINE a == SubSeq(s, 1, i - 1)
            b == SubSeq(s, i, Len(s))
            c == a \o <<e>>
<1>0. Len(s) \in Nat /\ i \in Nat /\ i >= 1 /\ i <= Len(s) + 1
  OBVIOUS
<1>1. a \in Seq(S) /\ Len(a) = i - 1 /\ \A j \in 1 .. i - 1 : a[j] = s[j]
  BY <1>0
<1>2. b \in Seq(S) /\ Len(b) = Len(s) + 1 - i /\ \A j \in 1 .. Len(s) + 1 - i : b[j] = s[i - 1 + j]
  BY <1>0
<1>3. InsertAt(s, i, e) = c \o b
  BY DEF InsertAt
<1>. HIDE DEF a, b
<1>4. c \in Seq(S) /\ Len(c) = i /\ c[i] = e /\ \A j \in 1 .. i - 1 : c[j] = s[j]
  BY <1>0, <1>1
<1>. HIDE DEF c
<1>5. c \o b \in Seq(S) /\ Len(c \o b) = Len(s) + 1
  BY <1>0, <1>2, <1>4
<1>6. ASSUME NEW j \in 1 .. Len(s) + 1
      PROVE  (c \o b)[j] = IF j < i THEN s[j] ELSE IF j = i THEN e ELSE s[j - 1]
  <2>1. CASE j < i
    <3>1. j \in 1 .. Len(c) /\ j \in 1 .. i - 1
      BY <1>0, <1>4, <2>1
    <3>2. (c \o b)[j] = c[j]
      BY <1>2, <1>4, <3>1
    <3>. QED BY <1>4, <2>1, <3>1, <3>2
  <2>2. CASE j = i
    BY <1>0, <1>2, <1>4, <2>2
  <2>3. CASE j > i
    <3>1. (c \o b)[j] = b[j - i] /\ j - i \in 1 .. Len(s) + 1 - i
      BY <1>0, <1>2, <1>4, <2>3
    <3>2. i - 1 + (j - i) = j - 1
      BY <1>0
    <3>. QED BY <1>0, <1>2, <2>3, <3>1, <3>2
  <2>4. j < i \/ j = i \/ j > i
    BY <1>0
  <2>. QED BY <2>1, <2>2, <2>3, <2>4
<1>. QED BY <1>3, <1>5, <1>6

--------------------------------------------------------------------------------
(* The list one meets by next *)

\* s is what one meets from c.
ListOf(s, c, nx) ==
  /\ s \in Seq(Nodes)
  /\ c = IF Len(s) = 0 THEN Null ELSE s[1]
  /\ \A i \in 1 .. Len(s) : nx[s[i]] = IF i = Len(s) THEN Null ELSE s[i + 1]

\* A set of numbers that is not empty and bounded has a greatest one.
LEMMA GreatestNumber ==
  ASSUME NEW K \in SUBSET Nat, NEW b \in Nat, K # {}, \A k \in K : k <= b
  PROVE  \E k \in K : \A j \in K : j <= k
<1>. DEFINE L == {b - k : k \in K}
<1>1. L \in SUBSET Nat /\ L # {}
  <2>1. \A k \in K : b - k \in Nat
    OBVIOUS
  <2>. QED BY <2>1
<1>. HIDE DEF L
<1>2. PICK l \in L : \A j \in L : l <= j
  BY <1>1, LeastNumber
<1>3. PICK k \in K : l = b - k
  BY DEF L
<1>4. ASSUME NEW j \in K PROVE j <= k
  <2>1. b - j \in L
    BY DEF L
  <2>. QED BY <1>2, <1>3, <2>1
<1>. QED BY <1>4

\* Nothing is met twice: one would not come to an end.
LEMMA ListOnce ==
  ASSUME NEW s, NEW c, NEW nx, ListOf(s, c, nx)
  PROVE  \A i, j \in 1 .. Len(s) : s[i] = s[j] => i = j
<1>0. Len(s) \in Nat /\ \A i \in 1 .. Len(s) : s[i] \in Nodes /\ s[i] # Null
  BY TreeAssumption DEF ListOf
<1>. DEFINE K == {j \in 1 .. Len(s) : \E i \in 1 .. Len(s) : i < j /\ s[i] = s[j]}
<1>1. K = {}
  <2>. SUFFICES ASSUME K # {} PROVE FALSE
    OBVIOUS
  <2>1. K \in SUBSET Nat /\ \A k \in K : k <= Len(s)
    BY <1>0
  <2>2. PICK j \in K : \A k \in K : k <= j
    <3>. HIDE DEF K
    <3>. QED BY <1>0, <2>1, GreatestNumber
  <2>3. PICK i \in 1 .. Len(s) : i < j /\ s[i] = s[j]
    BY <2>2
  <2>4. nx[s[i]] = s[i + 1] /\ i + 1 \in 1 .. Len(s)
    BY <1>0, <2>2, <2>3 DEF ListOf
  <2>5. CASE j = Len(s)
    BY <1>0, <2>2, <2>3, <2>4, <2>5 DEF ListOf
  <2>6. CASE j # Len(s)
    <3>1. nx[s[j]] = s[j + 1] /\ j + 1 \in 1 .. Len(s)
      BY <1>0, <2>2, <2>6 DEF ListOf
    <3>2. j + 1 \in K
      BY <1>0, <2>2, <2>3, <2>4, <3>1
    <3>. QED BY <1>0, <2>2, <3>2
  <2>. QED BY <2>5, <2>6
<1>. QED BY <1>0, <1>1

\* It is no longer than there are items.
LEMMA ListShort ==
  ASSUME NEW s \in Seq(Nodes), \A i, j \in 1 .. Len(s) : s[i] = s[j] => i = j
  PROVE  Len(s) <= Cardinality(Nodes) /\ Cardinality(Nodes) \in Nat
<1>. DEFINE S == {s[i] : i \in 1 .. Len(s)}
<1>1. IsFiniteSet(Nodes) /\ Cardinality(Nodes) \in Nat
  BY FS_CardinalityType, TreeAssumption
<1>2. S \in SUBSET Nodes
  OBVIOUS
<1>3. Cardinality(S) <= Cardinality(Nodes)
  BY <1>1, <1>2, FS_Subset
<1>4. Cardinality(S) = Len(s)
  <2>. DEFINE g == [i \in 1 .. Len(s) |-> s[i]]
  <2>1. g \in Bijection(1 .. Len(s), S)
    BY DEF Bijection, Injection, Surjection, IsInjective
  <2>2. ExistsBijection(1 .. Len(s), S)
    BY <2>1 DEF ExistsBijection
  <2>3. Len(s) \in Nat
    OBVIOUS
  <2>. QED BY <2>2, <2>3, FS_CountingElements
<1>. QED BY <1>1, <1>3, <1>4

\* f is the walk of ArrayList, for each rank up to k.
Walks(k, nx, f) ==
  f = [rank \in 0 .. k |->
         [n \in Nodes \cup {Null} |->
            IF n = Null \/ rank = 0 THEN << >> ELSE <<n>> \o f[rank - 1][nx[n]]]]

Walk(c, nx) ==
  LET from[rank \in 0..Cardinality(Nodes) + 1] ==
        [n \in Nodes \cup {Null} |->
           IF n = Null \/ rank = 0 THEN << >> ELSE <<n>> \o from[rank - 1][nx[n]]]
  IN from[Cardinality(Nodes) + 1][c]

\* Of a walk of one rank more there is one.
LEMMA WalksOn ==
  ASSUME NEW k \in Nat, NEW nx \in [Nodes -> Nodes \cup {Null}], NEW f, Walks(k, nx, f)
  PROVE  \E g : Walks(k + 1, nx, g)
<1>. DEFINE N == Nodes \cup {Null}
            h == [n \in N |-> IF n = Null \/ k + 1 = 0 THEN << >> ELSE <<n>> \o f[k][nx[n]]]
            g == [rank \in 0 .. k + 1 |-> IF rank <= k THEN f[rank] ELSE h]
<1>1. \A rank \in 0 .. k :
        f[rank] = [n \in N |-> IF n = Null \/ rank = 0 THEN << >> ELSE <<n>> \o f[rank - 1][nx[n]]]
  BY Zenon DEF Walks
<1>2. ASSUME NEW rank \in 0 .. k + 1
      PROVE  g[rank] = [n \in N |-> IF n = Null \/ rank = 0 THEN << >> ELSE <<n>> \o g[rank - 1][nx[n]]]
  <2>1. CASE rank <= k
    <3>1. g[rank] = f[rank] /\ rank \in 0 .. k
      BY <2>1
    <3>2. rank # 0 => g[rank - 1] = f[rank - 1]
      BY <2>1
    <3>. HIDE DEF g, N
    <3>3. f[rank] = [n \in N |-> IF n = Null \/ rank = 0 THEN << >> ELSE <<n>> \o f[rank - 1][nx[n]]]
      BY <1>1, <3>1
    <3>4. CASE rank = 0
      BY <3>1, <3>3, <3>4
    <3>5. CASE rank # 0
      BY <3>1, <3>2, <3>3, <3>5
    <3>. QED BY <3>4, <3>5
  <2>2. CASE rank = k + 1
    <3>1. g[rank] = h /\ g[rank - 1] = f[k] /\ rank # 0
      BY <2>2
    <3>2. h = [n \in N |-> IF n = Null \/ rank = 0 THEN << >> ELSE <<n>> \o f[k][nx[n]]]
      BY <2>2
    <3>. HIDE DEF g, h
    <3>. QED BY <3>1, <3>2
  <2>. QED BY <2>1, <2>2
<1>3. g = [rank \in 0 .. k + 1 |-> g[rank]]
  OBVIOUS
<1>. HIDE DEF g, N
<1>4. g = [rank \in 0 .. k + 1 |->
             [n \in N |-> IF n = Null \/ rank = 0 THEN << >> ELSE <<n>> \o g[rank - 1][nx[n]]]]
  BY <1>2, <1>3
<1>. QED BY <1>4 DEF Walks, N

\* There are walks of every rank.
LEMMA WalksExist ==
  ASSUME NEW nx \in [Nodes -> Nodes \cup {Null}], NEW k \in Nat
  PROVE  \E f : Walks(k, nx, f)
<1>. DEFINE K == {r \in Nat : ~\E f : Walks(r, nx, f)}
<1>1. 0 \notin K
  <2>. DEFINE f == [rank \in 0 .. 0 |-> [n \in Nodes \cup {Null} |-> << >>]]
  <2>1. Walks(0, nx, f)
    BY DEF Walks
  <2>. QED BY <2>1
<1>2. K = {}
  <2>. SUFFICES ASSUME K # {} PROVE FALSE
    OBVIOUS
  <2>. HIDE DEF Walks
  <2>1. PICK r \in K : \A j \in K : r <= j
    <3>1. K \in SUBSET Nat
      OBVIOUS
    <3>. HIDE DEF K
    <3>. QED BY <3>1, LeastNumber
  <2>2. r \in Nat /\ r # 0
    BY <1>1
  <2>3. r - 1 \in Nat /\ r - 1 \notin K
    BY <2>1, <2>2
  <2>4. PICK f : Walks(r - 1, nx, f)
    BY <2>3
  <2>5. \E g : Walks((r - 1) + 1, nx, g)
    BY <2>3, <2>4, WalksOn
  <2>6. (r - 1) + 1 = r
    BY <2>2
  <2>. QED BY <2>1, <2>5, <2>6
<1>. QED BY <1>2

\* The walk of ArrayList is one of them.
LEMMA WalkIsOne ==
  ASSUME NEW nx, NEW c, NEW g, Walks(Cardinality(Nodes) + 1, nx, g)
  PROVE  \E f : Walks(Cardinality(Nodes) + 1, nx, f) /\ Walk(c, nx) = f[Cardinality(Nodes) + 1][c]
<1>. DEFINE f == CHOOSE f : Walks(Cardinality(Nodes) + 1, nx, f)
<1>1. Walks(Cardinality(Nodes) + 1, nx, f)
  <2>. HIDE DEF Walks
  <2>. QED BY Zenon
<1>2. Walk(c, nx) = f[Cardinality(Nodes) + 1][c]
  BY Zenon DEF Walk, Walks
<1>. HIDE DEF f
<1>. QED BY <1>1, <1>2

\* If one comes to an end from c, the walk is what one meets.
LEMMA WalkIs ==
  ASSUME NEW nx \in [Nodes -> Nodes \cup {Null}], NEW s, NEW c, ListOf(s, c, nx)
  PROVE  Walk(c, nx) = s
<1>. DEFINE m == Cardinality(Nodes) + 1
            last == Len(s)
            at(i) == IF i <= last THEN s[i] ELSE Null
            rest(i) == SubSeq(s, i, last)
<1>1. m \in Nat /\ last \in Nat /\ last <= m /\ s \in Seq(Nodes) /\ \A i \in 1 .. last : s[i] \in Nodes /\ s[i] # Null
  BY ListOnce, ListShort, TreeAssumption DEF ListOf
<1>2. PICK f : Walks(m, nx, f) /\ Walk(c, nx) = f[m][c]
  <2>1. \E g : Walks(m, nx, g)
    BY <1>1, WalksExist
  <2>. QED BY <2>1, WalkIsOne
<1>. HIDE DEF m, last
<1>3. \A r \in 0 .. m, n \in Nodes \cup {Null} :
        f[r][n] = IF n = Null \/ r = 0 THEN << >> ELSE <<n>> \o f[r - 1][nx[n]]
  <2>1. \A r \in 0 .. m :
          f[r] = [n \in Nodes \cup {Null} |-> IF n = Null \/ r = 0 THEN << >> ELSE <<n>> \o f[r - 1][nx[n]]]
    BY <1>2, Zenon DEF Walks
  <2>. QED BY <2>1
<1>4. rest(last + 1) = << >> /\ \A i \in 1 .. last : rest(i) = <<s[i]>> \o rest(i + 1)
  <2>1. rest(last + 1) = << >>
    BY <1>1
  <2>2. ASSUME NEW i \in 1 .. last PROVE rest(i) = <<s[i]>> \o rest(i + 1)
    BY <1>1 DEF last
  <2>. QED BY <2>1, <2>2
<1>. DEFINE K == {r \in 0 .. m : \E i \in 1 .. last + 1 : last + 1 - i <= r /\ f[r][at(i)] # rest(i)}
<1>5. K = {}
  <2>. SUFFICES ASSUME K # {} PROVE FALSE
    OBVIOUS
  <2>1. PICK r \in K : \A j \in K : r <= j
    <3>1. K \in SUBSET Nat
      BY <1>1
    <3>. HIDE DEF K
    <3>. QED BY <3>1, LeastNumber
  <2>2. PICK i \in 1 .. last + 1 : last + 1 - i <= r /\ f[r][at(i)] # rest(i)
    OBVIOUS
  <2>3. CASE i = last + 1
    <3>1. at(i) = Null
      BY <1>1, <2>3
    <3>2. f[r][at(i)] = << >>
      BY <1>3, <3>1
    <3>. QED BY <1>4, <2>2, <2>3, <3>2
  <2>4. CASE i # last + 1
    <3>0. r \in 0 .. m
      OBVIOUS
    <3>1. /\ i \in 1 .. last /\ at(i) = s[i] /\ i + 1 \in 1 .. last + 1 /\ r # 0 /\ r - 1 \in 0 .. m
          /\ last + 1 - (i + 1) <= r - 1
      <4>. HIDE DEF K, rest
      <4>1. i \in 1 .. last /\ i + 1 \in 1 .. last + 1
        BY <1>1, <2>4
      <4>. QED BY <1>1, <2>2, <3>0, <4>1
    <3>2. nx[s[i]] = at(i + 1)
      <4>. HIDE DEF K, rest
      <4>1. nx[s[i]] = IF i = last THEN Null ELSE s[i + 1]
        BY <1>1, <3>1 DEF ListOf, last
      <4>. QED BY <1>1, <3>1, <4>1
    <3>3. f[r][at(i)] = <<s[i]>> \o f[r - 1][at(i + 1)]
      <4>. HIDE DEF K, rest
      <4>1. s[i] \in Nodes /\ s[i] # Null
        BY <1>1, <3>1
      <4>2. f[r][s[i]] = <<s[i]>> \o f[r - 1][nx[s[i]]]
        BY <1>3, <3>0, <3>1, <4>1
      <4>. HIDE DEF at
      <4>. QED BY <3>1, <3>2, <4>2
    <3>4. r - 1 \notin K
      <4>. HIDE DEF K
      <4>1. r \in Nat /\ ~(r <= r - 1)
        BY <1>1, <3>0
      <4>. QED BY <2>1, <4>1
    <3>5. f[r - 1][at(i + 1)] = rest(i + 1)
      <4>. HIDE DEF at, rest
      <4>. QED BY <3>1, <3>4
    <3>. QED BY <1>4, <2>2, <3>1, <3>3, <3>5
  <2>. QED BY <2>3, <2>4
<1>6. f[m][at(1)] = rest(1)
  <2>1. m \in 0 .. m /\ 1 \in 1 .. last + 1 /\ last + 1 - 1 <= m
    BY <1>1
  <2>. HIDE DEF at, rest
  <2>. QED BY <1>5, <2>1
<1>7. rest(1) = s
  BY <1>1 DEF last
<1>8. at(1) = c
  BY <1>1 DEF ListOf, last
<1>. QED BY <1>2, <1>6, <1>7, <1>8

--------------------------------------------------------------------------------
(* The lists of a forest *)

\* s is a part of the list of p, from its first item.
Chain(s, p, nx, ch) ==
  /\ s \in Seq(Nodes) /\ Len(s) >= 1 /\ s[1] = ch[p]
  /\ \A i \in 1 .. Len(s) - 1 : nx[s[i]] = s[i + 1]

\* All of it is in the list of p, and prev leads back.
LEMMA ChainIs ==
  ASSUME NEW lv, NEW nx, NEW pv, NEW ch, NEW ow, NEW tg, Forest(lv, nx, pv, ch, ow, tg),
         NEW p \in lv, tg[p] = Null, NEW s, Chain(s, p, nx, ch)
  PROVE  /\ \A i \in 1 .. Len(s) : s[i] \in lv /\ ow[s[i]] = p
         /\ \A i \in 1 .. Len(s) - 1 : pv[s[i + 1]] = s[i]
         /\ \A i, j \in 1 .. Len(s) : s[i] = s[j] => i = j
<1>0. /\ lv \subseteq Nodes /\ Null \notin Nodes
      /\ nx \in [Nodes -> lv \cup {Null}] /\ pv \in [Nodes -> lv \cup {Null}]
      /\ ch \in [Nodes -> lv \cup {Null}] /\ ow \in [Nodes -> lv \cup {Null}]
  BY TreeAssumption DEF Forest, Typed
<1>1. /\ Len(s) \in Nat /\ Len(s) >= 1 /\ s[1] = ch[p] /\ \A i \in 1 .. Len(s) : s[i] \in Nodes /\ s[i] # Null
      /\ \A i \in 1 .. Len(s) - 1 : nx[s[i]] = s[i + 1]
  BY <1>0 DEF Chain
<1>2. \A x \in lv : LinkedAt(x, nx, pv, ch, ow, tg)
  BY DEF Forest, Linked
<1>3. \A i \in 1 .. Len(s) : s[i] \in lv /\ ow[s[i]] = p
  <2>. DEFINE K == {i \in 1 .. Len(s) : ~(s[i] \in lv /\ ow[s[i]] = p)}
  <2>1. K = {}
    <3>. SUFFICES ASSUME K # {} PROVE FALSE
      OBVIOUS
    <3>1. PICK i \in K : \A j \in K : i <= j
      <4>1. K \in SUBSET Nat
        BY <1>1
      <4>. HIDE DEF K
      <4>. QED BY <4>1, LeastNumber
    <3>2. CASE i = 1
      <4>1. s[1] \in lv /\ ch[p] # Null
        BY <1>0, <1>1
      <4>2. ow[ch[p]] = p
        BY <1>2, <4>1 DEF LinkedAt
      <4>. QED BY <1>1, <3>2, <4>1, <4>2
    <3>3. CASE i # 1
      <4>1. i - 1 \in 1 .. Len(s) - 1 /\ i - 1 \in 1 .. Len(s) /\ i - 1 \notin K /\ (i - 1) + 1 = i /\ i \in 1 .. Len(s)
        BY <1>1, <3>1, <3>3
      <4>2. s[i - 1] \in lv /\ ow[s[i - 1]] = p /\ nx[s[i - 1]] = s[i] /\ s[i] # Null
        BY <1>1, <4>1
      <4>3. s[i] \in lv /\ ow[s[i]] = p
        BY <1>0, <1>2, <4>2 DEF LinkedAt
      <4>. QED BY <4>3
    <3>. QED BY <3>2, <3>3
  <2>. QED BY <2>1
<1>4. ASSUME NEW i \in 1 .. Len(s) - 1 PROVE pv[s[i + 1]] = s[i]
  <2>1. s[i] \in lv /\ nx[s[i]] = s[i + 1] /\ s[i + 1] # Null
    BY <1>1, <1>3
  <2>. QED BY <1>2, <2>1 DEF LinkedAt
<1>5. ASSUME NEW i \in 2 .. Len(s) PROVE s[i] # s[1]
  <2>1. i - 1 \in 1 .. Len(s) - 1 /\ (i - 1) + 1 = i /\ i \in 1 .. Len(s) /\ 1 \in 1 .. Len(s)
    BY <1>1
  <2>2. pv[s[i]] = s[i - 1] /\ nx[s[i - 1]] = s[i] /\ s[i] # Null
    BY <1>1, <1>4, <2>1
  <2>3. s[1] \in lv /\ ow[s[1]] = p /\ s[1] = ch[p] /\ p # Null
    BY <1>0, <1>1, <1>3, <2>1
  <2>4. nx[pv[s[1]]] = Null
    BY <1>2, <2>3 DEF LinkedAt
  <2>. QED BY <2>2, <2>4
<1>6. \A i, j \in 1 .. Len(s) : s[i] = s[j] => i = j
  <2>. DEFINE K == {i \in 1 .. Len(s) : \E j \in 1 .. Len(s) : i < j /\ s[i] = s[j]}
  <2>1. K = {}
    <3>. SUFFICES ASSUME K # {} PROVE FALSE
      OBVIOUS
    <3>1. PICK i \in K : \A j \in K : i <= j
      <4>1. K \in SUBSET Nat
        BY <1>1
      <4>. HIDE DEF K
      <4>. QED BY <4>1, LeastNumber
    <3>2. PICK j \in 1 .. Len(s) : i < j /\ s[i] = s[j]
      OBVIOUS
    <3>3. i # 1
      BY <1>1, <1>5, <3>2
    <3>4. /\ i - 1 \in 1 .. Len(s) - 1 /\ (i - 1) + 1 = i /\ i - 1 \in 1 .. Len(s)
          /\ j - 1 \in 1 .. Len(s) - 1 /\ (j - 1) + 1 = j /\ j - 1 \in 1 .. Len(s) /\ i - 1 < j - 1
      BY <1>1, <3>2, <3>3
    <3>5. s[i - 1] = s[j - 1]
      BY <1>4, <3>2, <3>4
    <3>6. i - 1 \in K /\ i \in Nat
      BY <1>1, <3>4, <3>5
    <3>. QED BY <3>1, <3>6
  <2>. QED BY <1>1, <2>1
<1>. QED BY <1>3, <1>4, <1>6

\* The items with the owner p are a list, which one meets from child.
LEMMA ListExists ==
  ASSUME NEW lv, NEW nx, NEW pv, NEW ch, NEW ow, NEW tg, Forest(lv, nx, pv, ch, ow, tg),
         NEW p \in lv, tg[p] = Null
  PROVE  \E s : ListOf(s, ch[p], nx)
<1>0. /\ lv \subseteq Nodes /\ Null \notin Nodes
      /\ nx \in [Nodes -> lv \cup {Null}] /\ ch \in [Nodes -> lv \cup {Null}]
  BY TreeAssumption DEF Forest, Typed
<1>1. CASE ch[p] = Null
  <2>1. ListOf(<< >>, ch[p], nx)
    BY <1>1 DEF ListOf
  <2>. QED BY <2>1
<1>2. CASE ch[p] # Null
  <2>. DEFINE C == {s \in Seq(Nodes) : Chain(s, p, nx, ch)}
              K == {Len(s) : s \in C}
  <2>1. <<ch[p]>> \in C
    BY <1>0, <1>2 DEF Chain
  <2>2. \A s \in C : Len(s) \in Nat /\ Len(s) <= Cardinality(Nodes) /\ Cardinality(Nodes) \in Nat
    <3>. SUFFICES ASSUME NEW s \in C
                  PROVE  Len(s) \in Nat /\ Len(s) <= Cardinality(Nodes) /\ Cardinality(Nodes) \in Nat
      OBVIOUS
    <3>1. \A i, j \in 1 .. Len(s) : s[i] = s[j] => i = j
      BY ChainIs
    <3>. QED BY <3>1, ListShort
  <2>3. PICK k \in K : \A j \in K : j <= k
    <3>1. K \in SUBSET Nat /\ K # {} /\ (\A j \in K : j <= Cardinality(Nodes)) /\ Cardinality(Nodes) \in Nat
      <4>. HIDE DEF C
      <4>. QED BY <2>1, <2>2
    <3>. HIDE DEF K
    <3>. QED BY <3>1, GreatestNumber
  <2>4. PICK s \in C : Len(s) = k
    OBVIOUS
  <2>. DEFINE last == s[Len(s)]
  <2>5. /\ s \in Seq(Nodes) /\ Len(s) \in Nat /\ Len(s) >= 1 /\ s[1] = ch[p] /\ last \in Nodes
        /\ \A i \in 1 .. Len(s) - 1 : nx[s[i]] = s[i + 1]
    BY DEF Chain
  <2>6. nx[last] = Null
    <3>. SUFFICES ASSUME nx[last] # Null PROVE FALSE
      OBVIOUS
    <3>. DEFINE t == Append(s, nx[last])
    <3>1. nx[last] \in Nodes
      BY <1>0, <2>5
    <3>2. t \in Seq(Nodes) /\ Len(t) = Len(s) + 1 /\ t[Len(s) + 1] = nx[last] /\ \A i \in 1 .. Len(s) : t[i] = s[i]
      BY <2>5, <3>1
    <3>. HIDE DEF t
    <3>3. ASSUME NEW i \in 1 .. Len(t) - 1 PROVE nx[t[i]] = t[i + 1]
      <4>1. CASE i = Len(s)
        BY <2>5, <3>2, <4>1
      <4>2. CASE i # Len(s)
        <5>1. i \in 1 .. Len(s) - 1 /\ i \in 1 .. Len(s) /\ i + 1 \in 1 .. Len(s)
          BY <2>5, <3>2, <4>2
        <5>. QED BY <2>5, <3>2, <5>1
      <4>. QED BY <4>1, <4>2
    <3>4. t \in C
      BY <2>5, <3>2, <3>3 DEF Chain
    <3>5. Len(t) \in K
      <4>. HIDE DEF C
      <4>. QED BY <3>4
    <3>. QED BY <2>3, <2>4, <2>5, <3>2, <3>5
  <2>7. ListOf(s, ch[p], nx)
    <3>1. ASSUME NEW i \in 1 .. Len(s) PROVE nx[s[i]] = IF i = Len(s) THEN Null ELSE s[i + 1]
      BY <2>5, <2>6
    <3>. QED BY <2>5, <3>1 DEF ListOf
  <2>. QED BY <2>7
<1>. QED BY <1>1, <1>2

\* It is all of them; prev leads back, and from the first to the last.
LEMMA ListIs ==
  ASSUME NEW lv, NEW nx, NEW pv, NEW ch, NEW ow, NEW tg, Forest(lv, nx, pv, ch, ow, tg),
         NEW p \in lv, tg[p] = Null, NEW s, ListOf(s, ch[p], nx)
  PROVE  /\ s \in Seq(lv) /\ Len(s) \in Nat /\ \A i \in 1 .. Len(s) : s[i] \in lv /\ ow[s[i]] = p
         /\ \A x \in lv : ow[x] = p => \E i \in 1 .. Len(s) : x = s[i]
         /\ \A i \in 1 .. Len(s) : pv[s[i]] = IF i = 1 THEN s[Len(s)] ELSE s[i - 1]
         /\ \A i, j \in 1 .. Len(s) : s[i] = s[j] => i = j
<1>0. /\ lv \subseteq Nodes /\ Null \notin Nodes
      /\ nx \in [Nodes -> lv \cup {Null}] /\ pv \in [Nodes -> lv \cup {Null}]
      /\ ch \in [Nodes -> lv \cup {Null}] /\ ow \in [Nodes -> lv \cup {Null}]
  BY TreeAssumption DEF Forest, Typed
<1>1. \A x \in lv : LinkedAt(x, nx, pv, ch, ow, tg)
  BY DEF Forest, Linked
<1>2. s \in Seq(Nodes) /\ Len(s) \in Nat
  BY DEF ListOf
<1>3. CASE Len(s) = 0
  <2>1. ch[p] = Null
    BY <1>3 DEF ListOf
  <2>2. \A x \in lv : ow[x] # p
    BY <1>0, <1>1, <2>1 DEF LinkedAt
  <2>3. s \in Seq(lv)
    BY <1>2, <1>3
  <2>. QED BY <1>2, <1>3, <2>2, <2>3
<1>4. CASE Len(s) # 0
  <2>1. Chain(s, p, nx, ch)
    <3>1. \A i \in 1 .. Len(s) - 1 : nx[s[i]] = s[i + 1]
      BY <1>2 DEF ListOf
    <3>. QED BY <1>2, <1>4, <3>1 DEF ListOf, Chain
  <2>2. /\ \A i \in 1 .. Len(s) : s[i] \in lv /\ ow[s[i]] = p
        /\ \A i \in 1 .. Len(s) - 1 : pv[s[i + 1]] = s[i]
        /\ \A i, j \in 1 .. Len(s) : s[i] = s[j] => i = j
    BY <2>1, ChainIs
  <2>3. s \in Seq(lv)
    BY <1>2, <2>2
  <2>4. ch[p] = s[1] /\ s[1] \in lv /\ ow[s[1]] = p /\ p # Null /\ nx[s[Len(s)]] = Null /\ s[Len(s)] \in lv /\ ow[s[Len(s)]] = p
    BY <1>0, <1>2, <1>4, <2>2 DEF ListOf
  <2>5. \A i \in 1 .. Len(s) : pv[s[i]] = IF i = 1 THEN s[Len(s)] ELSE s[i - 1]
    <3>1. pv[s[1]] = s[Len(s)]
      BY <1>1, <2>4 DEF LinkedAt
    <3>2. ASSUME NEW i \in 1 .. Len(s), i # 1 PROVE pv[s[i]] = s[i - 1]
      <4>1. i - 1 \in 1 .. Len(s) - 1 /\ (i - 1) + 1 = i
        BY <1>2, <3>2
      <4>. QED BY <2>2, <4>1
    <3>. QED BY <3>1, <3>2
  <2>6. \A x \in lv : ow[x] = p => \E i \in 1 .. Len(s) : x = s[i]
    <3>. DEFINE C == {x \in lv : ow[x] = p /\ ~\E i \in 1 .. Len(s) : x = s[i]}
    <3>1. ASSUME NEW x \in C PROVE ow[x] # Null /\ x # ch[ow[x]] /\ pv[x] \in C
      <4>1. x \in lv /\ ow[x] = p /\ p # Null /\ x # ch[p] /\ ~\E i \in 1 .. Len(s) : x = s[i]
        BY <1>2, <1>4, <2>4
      <4>2. pv[x] \in lv /\ ow[pv[x]] = p /\ nx[pv[x]] = x
        BY <1>0, <1>1, <4>1 DEF LinkedAt
      <4>3. ASSUME NEW i \in 1 .. Len(s), pv[x] = s[i] PROVE FALSE
        <5>1. x = IF i = Len(s) THEN Null ELSE s[i + 1]
          BY <4>2, <4>3 DEF ListOf
        <5>2. i # Len(s) => i + 1 \in 1 .. Len(s)
          BY <1>2
        <5>. QED BY <1>0, <4>1, <5>1, <5>2
      <4>. QED BY <4>1, <4>2, <4>3
    <3>2. C \in SUBSET lv
      OBVIOUS
    <3>3. C = {}
      <4>. HIDE DEF C
      <4>. QED BY <3>1, <3>2 DEF Forest, NoLoop
    <3>. QED BY <3>3
  <2>. QED BY <1>2, <2>2, <2>3, <2>5, <2>6
<1>. QED BY <1>3, <1>4
--------------------------------------------------------------------------------
(* The lists of a forest *)

\* The lists that the links make, and the item whose list each item shows.
KidsOf(lv, nx, ch, tg) == [n \in lv |-> IF tg[n] # Null THEN << >> ELSE Walk(ch[n], nx)]
ShowsOf(lv, tg) == [n \in lv |-> IF tg[n] = Null THEN n ELSE tg[n]]

\* s is a list of the items that p owns, each of them once.
OwnList(s, p, lv, ow) ==
  /\ s \in Seq(lv) /\ Len(s) \in Nat
  /\ \A i \in 1 .. Len(s) : s[i] \in lv /\ ow[s[i]] = p
  /\ \A i, j \in 1 .. Len(s) : s[i] = s[j] => i = j
  /\ \A x \in lv : ow[x] = p => \E i \in 1 .. Len(s) : x = s[i]

\* They are the lists of the items that are none; a reference owns no list.
LEMMA KidsAre ==
  ASSUME NEW lv, NEW nx, NEW pv, NEW ch, NEW ow, NEW tg, Forest(lv, nx, pv, ch, ow, tg),
         NEW K, K = KidsOf(lv, nx, ch, tg), NEW p \in lv
  PROVE  /\ DOMAIN K = lv
         /\ tg[p] = Null => ListOf(K[p], ch[p], nx)
         /\ tg[p] # Null => K[p] = << >>
         /\ OwnList(K[p], p, lv, ow)
<1>1. nx \in [Nodes -> Nodes \cup {Null}]
  BY DEF Forest, Typed
<1>2. DOMAIN K = lv /\ K[p] = IF tg[p] # Null THEN << >> ELSE Walk(ch[p], nx)
  BY DEF KidsOf
<1>3. CASE tg[p] = Null
  <2>1. PICK s : ListOf(s, ch[p], nx)
    BY <1>3, ListExists
  <2>2. K[p] = s
    BY <1>1, <1>2, <1>3, <2>1, WalkIs
  <2>3. OwnList(s, p, lv, ow)
    BY <1>3, <2>1, ListIs DEF OwnList
  <2>. QED BY <1>2, <1>3, <2>1, <2>2, <2>3
<1>4. CASE tg[p] # Null
  <2>1. \A x \in lv : ow[x] # p
    BY <1>4, TreeAssumption DEF Forest, References, Typed
  <2>2. OwnList(<< >>, p, lv, ow)
    BY <2>1 DEF OwnList
  <2>. QED BY <1>2, <1>4, <2>2
<1>. QED BY <1>3, <1>4

\* The items of the list of p are those that it owns.
LEMMA KidsOwned ==
  ASSUME NEW lv, NEW nx, NEW pv, NEW ch, NEW ow, NEW tg, Forest(lv, nx, pv, ch, ow, tg),
         NEW K, K = KidsOf(lv, nx, ch, tg)
  PROVE  \A p \in lv : ToSet(K[p]) = {x \in lv : ow[x] = p}
<1>. SUFFICES ASSUME NEW p \in lv PROVE ToSet(K[p]) = {x \in lv : ow[x] = p}
  OBVIOUS
<1>1. OwnList(K[p], p, lv, ow)
  BY KidsAre
<1>2. ASSUME NEW s, OwnList(s, p, lv, ow) PROVE ToSet(s) = {x \in lv : ow[x] = p}
  <2>1. DOMAIN s = 1 .. Len(s)
    BY <1>2 DEF OwnList
  <2>. QED BY <1>2, <2>1 DEF OwnList, ToSet
<1>. QED BY <1>1, <1>2

\* What the lists are after a step, given what each of them is.
LEMMA KidsBecome ==
  ASSUME NEW lv, NEW nx \in [Nodes -> Nodes \cup {Null}], NEW ch, NEW tg, NEW E, E = [p \in lv |-> E[p]],
         \A p \in lv : /\ tg[p] # Null => E[p] = << >>
                       /\ tg[p] = Null => ListOf(E[p], ch[p], nx)
  PROVE  KidsOf(lv, nx, ch, tg) = E
<1>1. \A p \in lv : tg[p] = Null => Walk(ch[p], nx) = E[p]
  BY WalkIs
<1>. QED BY <1>1 DEF KidsOf

\* A list whose links stay is the same.
LEMMA ListSame ==
  ASSUME NEW s, NEW c, NEW nx, ListOf(s, c, nx), NEW nx1, \A i \in 1 .. Len(s) : nx1[s[i]] = nx[s[i]]
  PROVE  ListOf(s, c, nx1)
BY DEF ListOf

--------------------------------------------------------------------------------
(* The lists that ItemLists is given *)

KidsNow == [n \in live |-> IF data[n].ref THEN << >> ELSE ArrayList(n)]
ShowsNow == [n \in live |-> IF target[n] = Null THEN n ELSE target[n]]

\* They are those of the forest there is.
LEMMA KidsNowAre ==
  ASSUME Links, Items
  PROVE  KidsNow = KidsOf(live, next, child, target) /\ ShowsNow = ShowsOf(live, target)
<1>1. \A n \in live : ArrayList(n) = Walk(child[n], next)
  BY Zenon DEF ArrayList, Walk
<1>2. \A n \in live : data[n].ref <=> target[n] # Null
  BY LinksTyped DEF Items
<1>. QED BY <1>1, <1>2 DEF KidsNow, KidsOf, ShowsNow, ShowsOf

\* After a step they are those of the next one.
LEMMA KidsNextAre ==
  ASSUME JsonInv'
  PROVE  KidsNow' = KidsOf(live', next', child', target') /\ ShowsNow' = ShowsOf(live', target')
<1>1. \A n \in live' : ArrayList(n)' = Walk(child'[n], next')
  BY Zenon DEF ArrayList, Walk
<1>2. Links' /\ Items'
  BY DEF JsonInv
<1>3. \A n \in live' : data'[n].ref <=> target'[n] # Null
  BY <1>2 DEF Links, Items, Forest, Typed
<1>. QED BY <1>1, <1>3 DEF KidsNow, KidsOf, ShowsNow, ShowsOf

\* The items that ItemLists speaks of.
LEMMA ListItems == Lists!Items = live /\ Lists!Items' = live'
BY DEF Lists!Items

\* What ItemLists calls made are the items of the next state that there were not.
LEMMA ListMade == Lists!Made = live' \ live
<1>1. Lists!Made = Lists!Items' \ Lists!Items
  BY Zenon DEF Lists!Made
<1>. QED BY <1>1, ListItems

\* A root is what is in no list.
LEMMA RootIs ==
  ASSUME JsonInv, NEW n \in live, owner[n] = Null
  PROVE  Lists!IsRoot(n)
<1>1. \A m \in live : ToSet(KidsNow[m]) = {x \in live : owner[x] = m}
  BY InvNow, KidsNowAre, KidsOwned DEF Links
<1>2. \A m \in live : n \notin ToSet(KidsNow[m])
  BY <1>1, InvNow, TreeAssumption
<1>. QED BY <1>2, ListItems, Zenon DEF Lists!IsRoot, Lists!ToSet, ToSet, KidsNow

\* The tree of n is what cJSON_Delete frees: what is left of that has no end of owners.
LEMMA TreeIs ==
  ASSUME JsonInv, NEW n \in live
  PROVE  Lists!Tree(n) = Freed(n)
<1>. DEFINE Closed(S) == n \in S /\ \A x \in S : ToSet(KidsNow[x]) \subseteq S
<1>1. Lists!Tree(n) = {m \in live : \A S \in SUBSET live : Closed(S) => m \in S}
  BY ListItems, Zenon DEF Lists!Tree, Lists!Below, Lists!ToSet, ToSet, KidsNow
<1>2. \A x \in live : ToSet(KidsNow[x]) = {y \in live : owner[y] = x}
  BY InvNow, KidsNowAre, KidsOwned DEF Links
<1>3. Freed(n) \in SUBSET live /\ Subtree(Freed(n), n, owner)
  BY InvNow, FreedIs
<1>4. Closed(Freed(n))
  BY <1>2, <1>3 DEF Subtree
<1>5. ASSUME NEW S \in SUBSET live, Closed(S) PROVE Freed(n) \subseteq S
  <2>. DEFINE C == Freed(n) \ S
  <2>1. C \in SUBSET live
    BY <1>3
  <2>2. \A x \in C : owner[x] \in Freed(n)
    BY <1>3, <1>5 DEF Subtree
  <2>3. \A x \in C : owner[x] \notin S
    BY <1>2, <1>3, <1>5
  <2>4. \A x \in C : owner[x] # Null /\ owner[x] \in C
    BY <1>3, <2>2, <2>3, InvNow, TreeAssumption
  <2>5. NoCycle(live, owner, target)
    BY InvNow DEF Forest
  <2>. HIDE DEF C
  <2>6. C = {}
    BY <2>1, <2>4, <2>5 DEF NoCycle, Shows
  <2>. QED BY <2>6 DEF C
<1>. HIDE DEF Closed
<1>. QED BY <1>1, <1>3, <1>4, <1>5

\* What n shows, as ItemLists and as cJSON_Duplicate see it.
LEMMA ShownListsIs ==
  ASSUME JsonInv, NEW n \in live
  PROVE  Lists!Shown(n) = Shown(n)
<1>. DEFINE sub == [y \in live |-> KidsNow[ShowsNow[y]]]
            Closed(S) == n \in S /\ \A x \in S : ToSet(sub[x]) \subseteq S
<1>1. Lists!Shown(n) = Lists!Below(n, sub)
  BY ListItems, Zenon DEF Lists!Shown, KidsNow, ShowsNow
<1>2. \A f : Lists!Below(n, f) = {m \in live : \A S \in SUBSET live :
                                     n \in S /\ (\A x \in S : ToSet(f[x]) \subseteq S) => m \in S}
  BY ListItems, Zenon DEF Lists!Below, Lists!ToSet, ToSet
<1>3. Lists!Shown(n) = {m \in live : \A S \in SUBSET live : Closed(S) => m \in S}
  BY <1>1, <1>2, Zenon
<1>4. /\ \A x \in live : ShowsNow[x] \in live /\ ShowsNow[x] = IF target[x] = Null THEN x ELSE target[x]
      /\ \A x, y \in live : owner[y] # Null => (owner[y] = ShowsNow[x] <=> Shows(x, y, owner, target))
  <2>1. /\ target \in [Nodes -> live \cup {Null}] /\ live \subseteq Nodes
        /\ \A y \in live : owner[y] # Null => target[owner[y]] = Null
    BY InvNow, LinksTyped DEF Forest, References
  <2>. QED BY <2>1 DEF ShowsNow, Shows
<1>5. \A x \in live : ToSet(sub[x]) = {y \in live : owner[y] # Null /\ Shows(x, y, owner, target)}
  <2>1. \A m \in live : ToSet(KidsNow[m]) = {x \in live : owner[x] = m}
    BY InvNow, KidsNowAre, KidsOwned DEF Links
  <2>2. Null \notin live
    BY InvNow, TreeAssumption
  <2>. QED BY <1>4, <2>1, <2>2
<1>. HIDE DEF sub
<1>6. /\ n \in Shown(n) /\ Shown(n) \in SUBSET live
      /\ \A x \in Shown(n) \ {n} : owner[x] # Null /\ \E q \in Shown(n) : Shows(q, x, owner, target)
      /\ \A q \in Shown(n), x \in live : owner[x] # Null /\ Shows(q, x, owner, target) => x \in Shown(n)
  BY InvNow, ShownIs
<1>7. Closed(Shown(n))
  BY <1>5, <1>6
<1>8. ASSUME NEW S \in SUBSET live, Closed(S) PROVE Shown(n) \subseteq S
  <2>. DEFINE C == Shown(n) \ S
  <2>1. C \in SUBSET live
    BY <1>6
  <2>2. ASSUME NEW x \in C PROVE owner[x] # Null /\ \E q \in C : Shows(q, x, owner, target)
    <3>1. PICK q \in Shown(n) : owner[x] # Null /\ Shows(q, x, owner, target)
      BY <1>6, <1>8
    <3>2. q \notin S
      BY <1>5, <1>6, <1>8, <3>1
    <3>. QED BY <3>1, <3>2
  <2>3. NoCycle(live, owner, target)
    BY InvNow DEF Forest
  <2>. HIDE DEF C
  <2>4. C = {}
    BY <2>1, <2>2, <2>3 DEF NoCycle
  <2>. QED BY <2>4 DEF C
<1>. HIDE DEF Closed
<1>. QED BY <1>3, <1>6, <1>7, <1>8

--------------------------------------------------------------------------------
(* What happens to one list *)

\* An item n is linked in before the i-th, or after the last.
LEMMA ListInsert ==
  ASSUME NEW s, NEW c, NEW nx, ListOf(s, c, nx), NEW n \in Nodes, \A j \in 1 .. Len(s) : s[j] # n,
         NEW i \in 1 .. Len(s) + 1, NEW c1, NEW nx1,
         c1 = IF i = 1 THEN n ELSE c,
         nx1[n] = IF i = Len(s) + 1 THEN Null ELSE s[i],
         \A j \in 1 .. Len(s) : nx1[s[j]] = IF j = i - 1 THEN n ELSE nx[s[j]]
  PROVE  ListOf(InsertAt(s, i, n), c1, nx1)
<1>. DEFINE t == InsertAt(s, i, n)
<1>1. /\ s \in Seq(Nodes) /\ Len(s) \in Nat /\ c = IF Len(s) = 0 THEN Null ELSE s[1]
      /\ \A j \in 1 .. Len(s) : nx[s[j]] = IF j = Len(s) THEN Null ELSE s[j + 1]
  BY DEF ListOf
<1>2. i \in Nat /\ i >= 1 /\ i <= Len(s) + 1 /\ Len(s) \in Nat
  BY <1>1
<1>3. /\ t \in Seq(Nodes) /\ Len(t) = Len(s) + 1
      /\ \A j \in 1 .. Len(s) + 1 : t[j] = IF j < i THEN s[j] ELSE IF j = i THEN n ELSE s[j - 1]
  BY <1>1, InsertAtIs
<1>. HIDE DEF t
<1>4. c1 = t[1] /\ Len(t) # 0
  <2>1. CASE i = 1
    BY <1>1, <1>3, <2>1
  <2>2. CASE i # 1
    BY <1>1, <1>2, <1>3, <2>2
  <2>. QED BY <2>1, <2>2
<1>5. ASSUME NEW j \in 1 .. Len(t) PROVE nx1[t[j]] = IF j = Len(t) THEN Null ELSE t[j + 1]
  <2>1. j \in Nat /\ j >= 1 /\ j <= Len(s) + 1
    BY <1>1, <1>3
  <2>2. CASE j < i
    <3>1. t[j] = s[j] /\ j \in 1 .. Len(s) /\ j # Len(t) /\ j + 1 \in 1 .. Len(s) + 1
      BY <1>1, <1>2, <1>3, <2>1, <2>2
    <3>2. CASE j = i - 1
      <4>1. nx1[s[j]] = n /\ t[j + 1] = n
        BY <1>2, <1>3, <2>1, <3>1, <3>2
      <4>. QED BY <3>1, <4>1
    <3>3. CASE j # i - 1
      <4>1. nx1[s[j]] = nx[s[j]] /\ nx[s[j]] = s[j + 1] /\ t[j + 1] = s[j + 1]
        BY <1>1, <1>2, <1>3, <2>1, <2>2, <3>1, <3>3
      <4>. QED BY <3>1, <4>1
    <3>. QED BY <3>2, <3>3
  <2>3. CASE j = i
    <3>1. t[j] = n
      BY <1>1, <1>3, <2>1, <2>3
    <3>2. CASE i = Len(s) + 1
      BY <1>3, <2>3, <3>1, <3>2
    <3>3. CASE i # Len(s) + 1
      <4>1. t[j + 1] = s[i]
        BY <1>1, <1>2, <1>3, <2>3, <3>3
      <4>. QED BY <1>1, <1>3, <2>3, <3>1, <3>3, <4>1
    <3>. QED BY <3>2, <3>3
  <2>4. CASE j > i
    <3>1. t[j] = s[j - 1] /\ j - 1 \in 1 .. Len(s) /\ j - 1 # i - 1
      BY <1>1, <1>2, <1>3, <2>1, <2>4
    <3>2. nx1[t[j]] = nx[s[j - 1]]
      BY <3>1
    <3>3. nx[s[j - 1]] = IF j - 1 = Len(s) THEN Null ELSE s[(j - 1) + 1]
      BY <1>1, <3>1
    <3>4. CASE j = Len(t)
      <4>1. j - 1 = Len(s)
        BY <1>1, <1>3, <3>4
      <4>. QED BY <3>2, <3>3, <3>4, <4>1
    <3>5. CASE j # Len(t)
      <4>0. j # Len(s) + 1
        BY <1>3, <3>5
      <4>1. j - 1 # Len(s) /\ (j - 1) + 1 = j /\ (j + 1) - 1 = j
        BY <1>1, <2>1, <4>0
      <4>2. j + 1 \in 1 .. Len(s) + 1 /\ ~(j + 1 < i) /\ j + 1 # i
        BY <1>2, <2>1, <2>4, <4>0
      <4>3. t[j + 1] = s[(j + 1) - 1]
        BY <1>3, <4>2
      <4>. QED BY <3>2, <3>3, <3>5, <4>1, <4>3
    <3>. QED BY <3>4, <3>5
  <2>. QED BY <1>2, <2>1, <2>2, <2>3, <2>4
<1>6. ListOf(t, c1, nx1)
  BY <1>3, <1>4, <1>5 DEF ListOf
<1>. QED BY <1>6 DEF t

\* The i-th item is linked out.
LEMMA ListRemove ==
  ASSUME NEW s, NEW c, NEW nx, ListOf(s, c, nx), NEW i \in 1 .. Len(s), NEW c1, NEW nx1,
         c1 = IF i = 1 THEN nx[s[i]] ELSE c,
         \A j \in 1 .. Len(s) : j # i => nx1[s[j]] = IF j = i - 1 THEN nx[s[i]] ELSE nx[s[j]]
  PROVE  ListOf(RemoveAt(s, i), c1, nx1)
<1>. DEFINE t == RemoveAt(s, i)
<1>1. /\ s \in Seq(Nodes) /\ Len(s) \in Nat /\ c = IF Len(s) = 0 THEN Null ELSE s[1]
      /\ \A j \in 1 .. Len(s) : nx[s[j]] = IF j = Len(s) THEN Null ELSE s[j + 1]
  BY DEF ListOf
<1>2. i \in Nat /\ i >= 1 /\ i <= Len(s)
  BY <1>1
<1>3. /\ t \in Seq(Nodes) /\ Len(t) = Len(s) - 1
      /\ \A j \in 1 .. Len(s) - 1 : t[j] = IF j < i THEN s[j] ELSE s[j + 1]
  BY <1>1, RemoveAtIs
<1>. HIDE DEF t
<1>4. c1 = IF Len(t) = 0 THEN Null ELSE t[1]
  <2>1. CASE i = 1
    <3>1. c1 = IF 1 = Len(s) THEN Null ELSE s[2]
      BY <1>1, <1>2, <2>1
    <3>2. CASE Len(s) = 1
      BY <1>3, <3>1, <3>2
    <3>3. CASE Len(s) # 1
      <4>1. t[1] = s[2] /\ Len(t) # 0
        BY <1>1, <1>2, <1>3, <2>1, <3>3
      <4>. QED BY <3>1, <3>3, <4>1
    <3>. QED BY <3>2, <3>3
  <2>2. CASE i # 1
    <3>1. c1 = s[1] /\ Len(t) # 0 /\ t[1] = s[1]
      BY <1>1, <1>2, <1>3, <2>2
    <3>. QED BY <3>1
  <2>. QED BY <2>1, <2>2
<1>5. ASSUME NEW j \in 1 .. Len(t) PROVE nx1[t[j]] = IF j = Len(t) THEN Null ELSE t[j + 1]
  <2>1. j \in Nat /\ j >= 1 /\ j <= Len(s) - 1
    BY <1>1, <1>3
  <2>2. CASE j < i
    <3>1. t[j] = s[j] /\ j \in 1 .. Len(s) /\ j # i
      BY <1>1, <1>2, <1>3, <2>1, <2>2
    <3>2. CASE j = i - 1
      <4>1. nx1[t[j]] = IF i = Len(s) THEN Null ELSE s[i + 1]
        BY <1>1, <1>2, <3>1, <3>2
      <4>2. CASE i = Len(s)
        <5>1. j = Len(t)
          BY <1>1, <1>3, <3>2, <4>2
        <5>. QED BY <4>1, <4>2, <5>1
      <4>3. CASE i # Len(s)
        <5>1. j # Len(t) /\ t[j + 1] = s[i + 1]
          BY <1>1, <1>2, <1>3, <2>1, <3>2, <4>3
        <5>. QED BY <4>1, <4>3, <5>1
      <4>. QED BY <4>2, <4>3
    <3>3. CASE j # i - 1
      <4>1. nx1[t[j]] = nx[s[j]] /\ nx[s[j]] = s[j + 1] /\ t[j + 1] = s[j + 1] /\ j # Len(t)
        BY <1>1, <1>2, <1>3, <2>1, <2>2, <3>1, <3>3
      <4>. QED BY <4>1
    <3>. QED BY <3>2, <3>3
  <2>3. CASE ~(j < i)
    <3>1. t[j] = s[j + 1] /\ j + 1 \in 1 .. Len(s) /\ j + 1 # i - 1 /\ j + 1 # i
      BY <1>1, <1>2, <1>3, <2>1, <2>3
    <3>2. nx1[t[j]] = nx[s[j + 1]]
      BY <3>1
    <3>3. nx[s[j + 1]] = IF j + 1 = Len(s) THEN Null ELSE s[(j + 1) + 1]
      BY <1>1, <3>1
    <3>4. CASE j = Len(t)
      <4>1. j + 1 = Len(s)
        BY <1>1, <1>3, <3>4
      <4>. QED BY <3>2, <3>3, <3>4, <4>1
    <3>5. CASE j # Len(t)
      <4>1. j + 1 # Len(s) /\ t[j + 1] = s[(j + 1) + 1]
        BY <1>1, <1>2, <1>3, <2>1, <2>3, <3>5
      <4>. QED BY <3>2, <3>3, <3>5, <4>1
    <3>. QED BY <3>4, <3>5
  <2>. QED BY <2>2, <2>3
<1>6. ListOf(t, c1, nx1)
  BY <1>3, <1>4, <1>5 DEF ListOf
<1>. QED BY <1>6 DEF t

\* An item r takes the place of the i-th: t is the list, and its links are c1 and nx1.
PutIn(r, i, s, c, nx, t, c1, nx1) ==
  /\ r \in Nodes /\ i \in 1 .. Len(s) /\ c1 = IF i = 1 THEN r ELSE c
  /\ nx1[r] = nx[s[i]]
  /\ \A j \in 1 .. Len(s) : j # i => nx1[s[j]] = IF j = i - 1 THEN r ELSE nx[s[j]]
  /\ t \in Seq(Nodes) /\ Len(t) = Len(s) /\ \A j \in 1 .. Len(s) : t[j] = IF j = i THEN r ELSE s[j]

\* Another item in the place of one of a list
LEMMA ListReplace ==
  ASSUME NEW s, NEW c, NEW nx, ListOf(s, c, nx),
         NEW r, NEW i, NEW t, NEW c1, NEW nx1, PutIn(r, i, s, c, nx, t, c1, nx1)
  PROVE  ListOf(t, c1, nx1)
<1>0. /\ c1 = (IF i = 1 THEN r ELSE c) /\ nx1[r] = nx[s[i]]
      /\ \A j \in 1 .. Len(s) : j # i => nx1[s[j]] = IF j = i - 1 THEN r ELSE nx[s[j]]
  BY DEF PutIn
<1>1. /\ s \in Seq(Nodes) /\ Len(s) \in Nat /\ c = IF Len(s) = 0 THEN Null ELSE s[1]
      /\ \A j \in 1 .. Len(s) : nx[s[j]] = IF j = Len(s) THEN Null ELSE s[j + 1]
  BY DEF ListOf
<1>2. i \in 1 .. Len(s) /\ i \in Nat /\ i >= 1 /\ i <= Len(s)
  BY <1>1 DEF PutIn
<1>3. /\ t \in Seq(Nodes) /\ Len(t) = Len(s)
      /\ \A j \in 1 .. Len(s) : t[j] = IF j = i THEN r ELSE s[j]
  BY DEF PutIn
<1>4. Len(t) # 0 /\ c1 = t[1]
  <2>1. 1 \in 1 .. Len(s) /\ Len(s) # 0
    BY <1>1, <1>2
  <2>. QED BY <1>0, <1>1, <1>3, <2>1
<1>5. ASSUME NEW j \in 1 .. Len(t) PROVE nx1[t[j]] = IF j = Len(t) THEN Null ELSE t[j + 1]
  <2>1. j \in 1 .. Len(s) /\ j \in Nat /\ j >= 1 /\ j <= Len(s)
    BY <1>1, <1>3
  <2>2. j # Len(s) => j + 1 \in 1 .. Len(s)
    BY <1>1, <2>1
  <2>3. CASE j = i
    <3>1. nx1[t[j]] = IF j = Len(s) THEN Null ELSE s[j + 1]
      BY <1>0, <1>1, <1>3, <2>1, <2>3
    <3>2. j # Len(s) => t[j + 1] = s[j + 1]
      BY <1>2, <1>3, <2>2, <2>3
    <3>. QED BY <1>3, <3>1, <3>2
  <2>4. CASE j = i - 1
    <3>1. t[j] = s[j] /\ nx1[s[j]] = r
      BY <1>0, <1>2, <1>3, <2>1, <2>4
    <3>2. j # Len(s) /\ t[j + 1] = r
      BY <1>2, <1>3, <2>1, <2>2, <2>4
    <3>. QED BY <1>3, <3>1, <3>2
  <2>5. CASE j # i /\ j # i - 1
    <3>1. nx1[t[j]] = IF j = Len(s) THEN Null ELSE s[j + 1]
      BY <1>0, <1>1, <1>3, <2>1, <2>5
    <3>2. j # Len(s) => t[j + 1] = s[j + 1]
      BY <1>2, <1>3, <2>1, <2>2, <2>5
    <3>. QED BY <1>3, <3>1, <3>2
  <2>. QED BY <2>3, <2>4, <2>5
<1>. QED BY <1>3, <1>4, <1>5 DEF ListOf

--------------------------------------------------------------------------------
(* What happens to the lists *)

\* What does not go through p or its items is in the other lists.
LEMMA OtherItem ==
  ASSUME NEW lv \in SUBSET Nodes, NEW ow, NEW s, NEW q \in lv, OwnList(s, q, lv, ow)
  PROVE  \A i \in 1 .. Len(s) : s[i] \in lv /\ s[i] \in Nodes /\ ow[s[i]] = q /\ ow[s[i]] # Null
BY TreeAssumption DEF OwnList

\* An item of the list of p has a place in it; the item before it is its prev, the first the child of p.
LEMMA PlaceIs ==
  ASSUME NEW lv, NEW nx, NEW pv, NEW ch, NEW ow, NEW tg, Forest(lv, nx, pv, ch, ow, tg),
         NEW K, K = KidsOf(lv, nx, ch, tg), NEW p \in lv, NEW n \in lv, ow[n] = p, tg[p] = Null
  PROVE  \E i \in 1 .. Len(K[p]) : /\ n = K[p][i] /\ (i = 1 <=> n = ch[p])
                                   /\ i # 1 => i - 1 \in 1 .. Len(K[p]) /\ pv[n] = K[p][i - 1]
<1>1. DOMAIN K = lv /\ ListOf(K[p], ch[p], nx) /\ OwnList(K[p], p, lv, ow)
  BY KidsAre
<1>2. ASSUME NEW s, ListOf(s, ch[p], nx), OwnList(s, p, lv, ow)
      PROVE  \E i \in 1 .. Len(s) : /\ n = s[i] /\ (i = 1 <=> n = ch[p])
                                    /\ i # 1 => i - 1 \in 1 .. Len(s) /\ pv[n] = s[i - 1]
  <2>1. /\ s \in Seq(lv) /\ Len(s) \in Nat
        /\ \A i, j \in 1 .. Len(s) : s[i] = s[j] => i = j
    BY <1>2 DEF OwnList
  <2>2. PICK i \in 1 .. Len(s) : n = s[i]
    BY <1>2 DEF OwnList
  <2>3. ch[p] = s[1] /\ 1 \in 1 .. Len(s)
    BY <1>2, <2>1, <2>2 DEF ListOf
  <2>4. pv[s[i]] = IF i = 1 THEN s[Len(s)] ELSE s[i - 1]
    BY <1>2, ListIs
  <2>5. i = 1 <=> n = ch[p]
    BY <2>1, <2>2, <2>3
  <2>6. i # 1 => i - 1 \in 1 .. Len(s)
    BY <2>1
  <2>. QED BY <2>2, <2>4, <2>5, <2>6
<1>. QED BY <1>1, <1>2

\* The last item of the list of p is the prev of the first.
LEMMA LastIs ==
  ASSUME NEW lv, NEW nx, NEW pv, NEW ch, NEW ow, NEW tg, Forest(lv, nx, pv, ch, ow, tg),
         NEW K, K = KidsOf(lv, nx, ch, tg), NEW p \in lv, tg[p] = Null
  PROVE  IF ch[p] = Null THEN Len(K[p]) = 0
         ELSE Len(K[p]) \in 1 .. Len(K[p]) /\ pv[ch[p]] = K[p][Len(K[p])]
<1>1. ListOf(K[p], ch[p], nx) /\ OwnList(K[p], p, lv, ow)
  BY KidsAre
<1>2. ASSUME NEW s, ListOf(s, ch[p], nx), OwnList(s, p, lv, ow)
      PROVE  IF ch[p] = Null THEN Len(s) = 0 ELSE Len(s) \in 1 .. Len(s) /\ pv[ch[p]] = s[Len(s)]
  <2>1. Len(s) \in Nat /\ s \in Seq(Nodes) /\ ch[p] = IF Len(s) = 0 THEN Null ELSE s[1]
    BY <1>2 DEF ListOf, OwnList
  <2>2. \A i \in 1 .. Len(s) : pv[s[i]] = IF i = 1 THEN s[Len(s)] ELSE s[i - 1]
    BY <1>2, ListIs
  <2>3. Len(s) # 0 => 1 \in 1 .. Len(s) /\ Len(s) \in 1 .. Len(s) /\ s[1] \in Nodes
    BY <2>1
  <2>. QED BY <2>1, <2>2, <2>3, TreeAssumption
<1>. QED BY <1>1, <1>2

\* The root n is linked into the list of p, as the i-th item.
LEMMA KidsInsert ==
  ASSUME NEW lv, NEW nx, NEW pv, NEW ch, NEW ow, NEW tg, Forest(lv, nx, pv, ch, ow, tg),
         NEW K, K = KidsOf(lv, nx, ch, tg), NEW p \in lv, tg[p] = Null, NEW n \in lv, ow[n] = Null,
         NEW i \in 1 .. Len(K[p]) + 1,
         NEW nx1 \in [Nodes -> lv \cup {Null}], NEW ch1,
         \A y \in lv : ch1[y] = IF y = p /\ i = 1 THEN n ELSE ch[y],
         nx1[n] = IF i = Len(K[p]) + 1 THEN Null ELSE K[p][i],
         \A y \in lv : y # n => nx1[y] = IF i # 1 /\ y = K[p][i - 1] THEN n ELSE nx[y]
  PROVE  KidsOf(lv, nx1, ch1, tg) = [K EXCEPT ![p] = InsertAt(@, i, n)]
<1>. DEFINE E == [K EXCEPT ![p] = InsertAt(@, i, n)]
<1>0. lv \in SUBSET Nodes /\ Null \notin lv
  BY TreeAssumption DEF Forest, Typed
<1>1. DOMAIN K = lv /\ \A q \in lv : /\ tg[q] = Null => ListOf(K[q], ch[q], nx)
                                     /\ tg[q] # Null => K[q] = << >>
                                     /\ OwnList(K[q], q, lv, ow)
  BY KidsAre
<1>2. E = [q \in lv |-> E[q]] /\ E[p] = InsertAt(K[p], i, n) /\ \A q \in lv : q # p => E[q] = K[q]
  BY <1>1
<1>3. ListOf(InsertAt(K[p], i, n), ch1[p], nx1)
  <2>1. ASSUME NEW s, ListOf(s, ch[p], nx), OwnList(s, p, lv, ow), i \in 1 .. Len(s) + 1,
               nx1[n] = IF i = Len(s) + 1 THEN Null ELSE s[i],
               \A y \in lv : y # n => nx1[y] = IF i # 1 /\ y = s[i - 1] THEN n ELSE nx[y]
        PROVE  ListOf(InsertAt(s, i, n), ch1[p], nx1)
    <3>1. Len(s) \in Nat /\ \A j, k \in 1 .. Len(s) : s[j] = s[k] => j = k
      BY <2>1 DEF OwnList
    <3>2. \A j \in 1 .. Len(s) : s[j] \in lv /\ s[j] # n
      BY <1>0, <2>1, OtherItem
    <3>3. \A j \in 1 .. Len(s) : nx1[s[j]] = IF j = i - 1 THEN n ELSE nx[s[j]]
      <4>1. ASSUME NEW j \in 1 .. Len(s) PROVE (i # 1 /\ s[j] = s[i - 1]) <=> j = i - 1
        <5>1. i # 1 => i - 1 \in 1 .. Len(s)
          BY <2>1, <3>1
        <5>2. j = i - 1 => i # 1
          BY <3>1
        <5>. QED BY <3>1, <5>1, <5>2
      <4>. QED BY <2>1, <3>2, <4>1
    <3>4. ch1[p] = IF i = 1 THEN n ELSE ch[p]
      OBVIOUS
    <3>. QED BY <1>0, <2>1, <3>2, <3>3, <3>4, ListInsert
  <2>. QED BY <1>1, <2>1
<1>4. ASSUME NEW q \in lv, q # p, tg[q] = Null PROVE ListOf(K[q], ch1[q], nx1)
  <2>1. ASSUME NEW s, ListOf(s, ch[q], nx), OwnList(s, q, lv, ow) PROVE ListOf(s, ch1[q], nx1)
    <3>1. i # 1 => K[p][i - 1] \in lv /\ ow[K[p][i - 1]] = p
      <4>1. Len(K[p]) \in Nat /\ OwnList(K[p], p, lv, ow)
        BY <1>1 DEF OwnList
      <4>2. i # 1 => i - 1 \in 1 .. Len(K[p])
        BY <4>1
      <4>. QED BY <1>0, <4>1, <4>2, OtherItem
    <3>2. \A j \in 1 .. Len(s) : s[j] \in lv /\ s[j] # n /\ ow[s[j]] = q
      BY <1>0, <2>1, OtherItem
    <3>3. \A j \in 1 .. Len(s) : nx1[s[j]] = nx[s[j]]
      BY <1>4, <3>1, <3>2
    <3>4. ch1[q] = ch[q]
      BY <1>4
    <3>. QED BY <2>1, <3>3, <3>4, ListSame
  <2>. QED BY <1>1, <1>4, <2>1
<1>. HIDE DEF E
<1>5. \A q \in lv : /\ tg[q] # Null => E[q] = << >>
                    /\ tg[q] = Null => ListOf(E[q], ch1[q], nx1)
  BY <1>1, <1>2, <1>3, <1>4
<1>6. nx1 \in [Nodes -> Nodes \cup {Null}]
  BY <1>0
<1>7. KidsOf(lv, nx1, ch1, tg) = E
  BY <1>2, <1>5, <1>6, KidsBecome
<1>. QED BY <1>7 DEF E

\* The i-th item of the list of p is linked out.
LEMMA KidsDetach ==
  ASSUME NEW lv, NEW nx, NEW pv, NEW ch, NEW ow, NEW tg, Forest(lv, nx, pv, ch, ow, tg),
         NEW K, K = KidsOf(lv, nx, ch, tg), NEW p \in lv, tg[p] = Null,
         NEW i \in 1 .. Len(K[p]), NEW n, n = K[p][i],
         NEW nx1 \in [Nodes -> lv \cup {Null}], NEW ch1,
         \A y \in lv : ch1[y] = IF y = p /\ i = 1 THEN nx[n] ELSE ch[y],
         \A y \in lv : y # n => nx1[y] = IF i # 1 /\ y = K[p][i - 1] THEN nx[n] ELSE nx[y]
  PROVE  KidsOf(lv, nx1, ch1, tg) = [K EXCEPT ![p] = RemoveAt(@, i)]
<1>. DEFINE E == [K EXCEPT ![p] = RemoveAt(@, i)]
<1>0. lv \in SUBSET Nodes /\ Null \notin lv
  BY TreeAssumption DEF Forest, Typed
<1>1. DOMAIN K = lv /\ \A q \in lv : /\ tg[q] = Null => ListOf(K[q], ch[q], nx)
                                     /\ tg[q] # Null => K[q] = << >>
                                     /\ OwnList(K[q], q, lv, ow)
  BY KidsAre
<1>2. E = [q \in lv |-> E[q]] /\ E[p] = RemoveAt(K[p], i) /\ \A q \in lv : q # p => E[q] = K[q]
  BY <1>1
<1>3. ListOf(RemoveAt(K[p], i), ch1[p], nx1)
  <2>1. ASSUME NEW s, ListOf(s, ch[p], nx), OwnList(s, p, lv, ow), i \in 1 .. Len(s), n = s[i],
               \A y \in lv : y # n => nx1[y] = IF i # 1 /\ y = s[i - 1] THEN nx[n] ELSE nx[y]
        PROVE  ListOf(RemoveAt(s, i), ch1[p], nx1)
    <3>1. Len(s) \in Nat /\ \A j, k \in 1 .. Len(s) : s[j] = s[k] => j = k
      BY <2>1 DEF OwnList
    <3>2. \A j \in 1 .. Len(s) : s[j] \in lv /\ (j # i => s[j] # n)
      BY <1>0, <2>1, <3>1, OtherItem
    <3>3. \A j \in 1 .. Len(s) : j # i => nx1[s[j]] = IF j = i - 1 THEN nx[s[i]] ELSE nx[s[j]]
      <4>1. ASSUME NEW j \in 1 .. Len(s) PROVE (i # 1 /\ s[j] = s[i - 1]) <=> j = i - 1
        <5>1. i # 1 => i - 1 \in 1 .. Len(s)
          BY <2>1, <3>1
        <5>2. j = i - 1 => i # 1
          BY <3>1
        <5>. QED BY <3>1, <5>1, <5>2
      <4>. QED BY <2>1, <3>2, <4>1
    <3>4. ch1[p] = IF i = 1 THEN nx[s[i]] ELSE ch[p]
      BY <2>1
    <3>. QED BY <2>1, <3>3, <3>4, ListRemove
  <2>. QED BY <1>1, <2>1
<1>4. ASSUME NEW q \in lv, q # p, tg[q] = Null PROVE ListOf(K[q], ch1[q], nx1)
  <2>1. ASSUME NEW s, ListOf(s, ch[q], nx), OwnList(s, q, lv, ow) PROVE ListOf(s, ch1[q], nx1)
    <3>1. (i # 1 => ow[K[p][i - 1]] = p) /\ ow[n] = p
      <4>1. Len(K[p]) \in Nat /\ OwnList(K[p], p, lv, ow)
        BY <1>1 DEF OwnList
      <4>2. i # 1 => i - 1 \in 1 .. Len(K[p])
        BY <4>1
      <4>3. \A j \in 1 .. Len(K[p]) : ow[K[p][j]] = p
        BY <4>1 DEF OwnList
      <4>. QED BY <4>2, <4>3
    <3>2. \A j \in 1 .. Len(s) : s[j] \in lv /\ ow[s[j]] = q
      BY <2>1 DEF OwnList
    <3>3. \A j \in 1 .. Len(s) : nx1[s[j]] = nx[s[j]]
      BY <1>4, <3>1, <3>2
    <3>4. ch1[q] = ch[q]
      BY <1>4
    <3>. QED BY <2>1, <3>3, <3>4, ListSame
  <2>. QED BY <1>1, <1>4, <2>1
<1>. HIDE DEF E
<1>5. \A q \in lv : /\ tg[q] # Null => E[q] = << >>
                    /\ tg[q] = Null => ListOf(E[q], ch1[q], nx1)
  BY <1>1, <1>2, <1>3, <1>4
<1>6. nx1 \in [Nodes -> Nodes \cup {Null}]
  BY <1>0
<1>7. KidsOf(lv, nx1, ch1, tg) = E
  BY <1>2, <1>5, <1>6, KidsBecome
<1>. QED BY <1>7 DEF E

\* The items of F go, with n, which is no item of what stays.
LEMMA KidsPrune ==
  ASSUME NEW lv, NEW nx, NEW pv, NEW ch, NEW ow, NEW tg, Forest(lv, nx, pv, ch, ow, tg),
         NEW K, K = KidsOf(lv, nx, ch, tg), NEW F \in SUBSET lv, NEW n \in F, ow[n] = Null,
         \A x \in F : x # n => ow[x] \in F, \A r \in lv \ F : tg[r] \notin F
  PROVE  KidsOf(lv \ F, Free(F, nx), Free(F, ch), Free(F, tg)) = Restrict(K, lv \ F)
<1>. DEFINE E == Restrict(K, lv \ F)
<1>0. lv \in SUBSET Nodes /\ Null \notin lv /\ nx \in [Nodes -> lv \cup {Null}]
  BY TreeAssumption DEF Forest, Typed
<1>1. DOMAIN K = lv /\ \A q \in lv : /\ tg[q] = Null => ListOf(K[q], ch[q], nx)
                                     /\ tg[q] # Null => K[q] = << >>
                                     /\ OwnList(K[q], q, lv, ow)
  BY KidsAre
<1>2. E = [q \in lv \ F |-> E[q]] /\ \A q \in lv \ F : E[q] = K[q]
  BY DEF Restrict
<1>3. \A q \in Nodes : /\ Free(F, nx)[q] = IF q \in F THEN Null ELSE nx[q]
                       /\ Free(F, ch)[q] = IF q \in F THEN Null ELSE ch[q]
                       /\ Free(F, tg)[q] = IF q \in F THEN Null ELSE tg[q]
  BY DEF Free
<1>4. ASSUME NEW q \in lv \ F, tg[q] = Null PROVE ListOf(K[q], Free(F, ch)[q], Free(F, nx))
  <2>1. ASSUME NEW s, ListOf(s, ch[q], nx), OwnList(s, q, lv, ow) PROVE ListOf(s, ch[q], Free(F, nx))
    <3>1. \A j \in 1 .. Len(s) : s[j] \in Nodes /\ s[j] \notin F
      BY <1>0, <2>1, OtherItem
    <3>2. \A j \in 1 .. Len(s) : Free(F, nx)[s[j]] = nx[s[j]]
      BY <1>3, <3>1
    <3>. QED BY <2>1, <3>2, ListSame
  <2>2. Free(F, ch)[q] = ch[q]
    BY <1>0, <1>3
  <2>. QED BY <1>1, <1>4, <2>1, <2>2
<1>. HIDE DEF E
<1>5. \A q \in lv \ F : /\ Free(F, tg)[q] # Null => E[q] = << >>
                        /\ Free(F, tg)[q] = Null => ListOf(E[q], Free(F, ch)[q], Free(F, nx))
  BY <1>0, <1>1, <1>2, <1>3, <1>4
<1>6. Free(F, nx) \in [Nodes -> Nodes \cup {Null}]
  BY <1>0 DEF Free
<1>7. KidsOf(lv \ F, Free(F, nx), Free(F, ch), Free(F, tg)) = E
  BY <1>2, <1>5, <1>6, KidsBecome
<1>. QED BY <1>7 DEF E

\* The links of the items of S, where r takes the place of the i-th item of the list s of p.
InPlace(r, p, i, s, S, nx, ch, tg, nx1, ch1, tg1) ==
  /\ nx1[r] = nx[s[i]]
  /\ \A y \in S : /\ tg1[y] = tg[y]
                  /\ ch1[y] = IF y = p /\ i = 1 THEN r ELSE ch[y]
                  /\ y # r => nx1[y] = IF i # 1 /\ y = s[i - 1] THEN r ELSE nx[y]

\* The root r takes the place of the i-th item of p, which goes with F; l is the new list.
Replacing(lv, F, p, i, n, r, K, l, nx, ch, ow, tg, nx1, ch1, tg1) ==
  /\ K = KidsOf(lv, nx, ch, tg) /\ F \in SUBSET lv /\ p \in lv \ F /\ tg[p] = Null
  /\ i \in 1 .. Len(K[p]) /\ n = K[p][i] /\ r \in lv \ F /\ ow[r] = Null
  /\ \A x \in F : x # n => ow[x] \in F
  /\ nx1 \in [Nodes -> lv \cup {Null}]
  /\ InPlace(r, p, i, K[p], lv \ F, nx, ch, tg, nx1, ch1, tg1)
  /\ l = [K[p] EXCEPT ![i] = r]

\* r in place of the i-th item of p, whose tree S is no more: the lists that are left.
LEMMA KidsReplace ==
  ASSUME NEW lv, NEW nx, NEW pv, NEW ch, NEW ow, NEW tg, Forest(lv, nx, pv, ch, ow, tg),
         NEW F, NEW p, NEW i, NEW n, NEW r, NEW K, NEW l, NEW nx1, NEW ch1, NEW tg1,
         Replacing(lv, F, p, i, n, r, K, l, nx, ch, ow, tg, nx1, ch1, tg1)
  PROVE  KidsOf(lv \ F, nx1, ch1, tg1) = Restrict([K EXCEPT ![p] = l], lv \ F)
<1>. DEFINE E == Restrict([K EXCEPT ![p] = l], lv \ F)
<1>0. lv \in SUBSET Nodes /\ Null \notin lv
  BY TreeAssumption DEF Forest, Typed
<1>a. l = [K[p] EXCEPT ![i] = r]
  BY DEF Replacing
<1>1. K = KidsOf(lv, nx, ch, tg) /\ nx1 \in [Nodes -> lv \cup {Null}]
  BY DEF Replacing
<1>2. /\ p \in lv \ F /\ tg[p] = Null /\ r \in lv \ F /\ ow[r] = Null
      /\ \A x \in F : x # n => ow[x] \in F
  BY DEF Replacing
<1>3. i \in 1 .. Len(K[p]) /\ n = K[p][i]
  BY DEF Replacing
<1>4. /\ nx1[r] = nx[n]
      /\ \A y \in lv \ F : y # r => nx1[y] = IF i # 1 /\ y = K[p][i - 1] THEN r ELSE nx[y]
  BY <1>3 DEF InPlace, Replacing
<1>5. \A y \in lv \ F : tg1[y] = tg[y] /\ ch1[y] = IF y = p /\ i = 1 THEN r ELSE ch[y]
  BY DEF InPlace, Replacing
<1>6. DOMAIN K = lv /\ \A q \in lv : /\ tg[q] = Null => ListOf(K[q], ch[q], nx)
                                     /\ tg[q] # Null => K[q] = << >>
                                     /\ OwnList(K[q], q, lv, ow)
  <2>1. DOMAIN K = lv
    BY <1>1 DEF KidsOf
  <2>2. ASSUME NEW q \in lv
        PROVE  /\ tg[q] = Null => ListOf(K[q], ch[q], nx)
               /\ tg[q] # Null => K[q] = << >>
               /\ OwnList(K[q], q, lv, ow)
    BY <1>1, KidsAre
  <2>. QED BY <2>1, <2>2
<1>7. /\ E = [q \in lv \ F |-> E[q]] /\ E[p] = l
      /\ \A q \in lv \ F : q # p => E[q] = K[q]
  BY <1>2, <1>6 DEF Restrict
<1>8. ListOf(l, ch1[p], nx1)
  <2>1. ASSUME NEW s, ListOf(s, ch[p], nx), OwnList(s, p, lv, ow), i \in 1 .. Len(s), n = s[i],
               l = [s EXCEPT ![i] = r],
               \A y \in lv \ F : y # r => nx1[y] = IF i # 1 /\ y = s[i - 1] THEN r ELSE nx[y]
        PROVE  ListOf(l, ch1[p], nx1)
    <3>1. s \in Seq(lv) /\ Len(s) \in Nat /\ \A j, k \in 1 .. Len(s) : s[j] = s[k] => j = k
      BY <2>1 DEF OwnList
    <3>2. \A j \in 1 .. Len(s) : s[j] \in lv /\ ow[s[j]] = p
      BY <2>1 DEF OwnList
    <3>3. \A j \in 1 .. Len(s) : j # i => s[j] \in lv \ F /\ s[j] # r
      BY <1>0, <1>2, <2>1, <3>1, <3>2
    <3>4. \A j \in 1 .. Len(s) : j # i => nx1[s[j]] = IF j = i - 1 THEN r ELSE nx[s[j]]
      <4>1. ASSUME NEW j \in 1 .. Len(s) PROVE (i # 1 /\ s[j] = s[i - 1]) <=> j = i - 1
        <5>1. i # 1 => i - 1 \in 1 .. Len(s)
          BY <2>1, <3>1
        <5>2. j = i - 1 => i # 1
          BY <3>1
        <5>. QED BY <3>1, <5>1, <5>2
      <4>. QED BY <2>1, <3>3, <4>1
    <3>5. ch1[p] = (IF i = 1 THEN r ELSE ch[p]) /\ nx1[r] = nx[s[i]] /\ r \in Nodes
      BY <1>0, <1>2, <1>4, <1>5, <2>1
    <3>6. l \in Seq(Nodes) /\ Len(l) = Len(s) /\ \A j \in 1 .. Len(s) : l[j] = IF j = i THEN r ELSE s[j]
      BY <1>0, <2>1, <3>1, <3>5
    <3>7. ListOf(s, ch[p], nx) /\ i \in 1 .. Len(s)
      BY <2>1
    <3>8. PutIn(r, i, s, ch[p], nx, l, ch1[p], nx1)
      BY <3>4, <3>5, <3>6, <3>7 DEF PutIn
    <3>. QED BY <3>7, <3>8, ListReplace
  <2>. QED BY <1>a, <1>2, <1>3, <1>4, <1>6, <2>1
<1>9. ASSUME NEW q \in lv \ F, q # p, tg[q] = Null PROVE ListOf(K[q], ch1[q], nx1)
  <2>1. ASSUME NEW s, ListOf(s, ch[q], nx), OwnList(s, q, lv, ow) PROVE ListOf(s, ch1[q], nx1)
    <3>1. (i # 1 => ow[K[p][i - 1]] = p) /\ ow[n] = p
      <4>1. Len(K[p]) \in Nat /\ \A j \in 1 .. Len(K[p]) : ow[K[p][j]] = p
        BY <1>2, <1>6 DEF OwnList
      <4>2. i # 1 => i - 1 \in 1 .. Len(K[p])
        BY <1>3, <4>1
      <4>. QED BY <1>3, <4>1, <4>2
    <3>2. \A j \in 1 .. Len(s) : s[j] \in lv /\ ow[s[j]] = q
      BY <2>1 DEF OwnList
    <3>3. \A j \in 1 .. Len(s) : s[j] \in lv \ F /\ s[j] # r
      BY <1>0, <1>2, <1>9, <3>1, <3>2
    <3>4. \A j \in 1 .. Len(s) : nx1[s[j]] = nx[s[j]]
      BY <1>4, <1>9, <3>1, <3>2, <3>3
    <3>5. ch1[q] = ch[q]
      BY <1>5, <1>9
    <3>. QED BY <2>1, <3>4, <3>5, ListSame
  <2>. QED BY <1>6, <1>9, <2>1
<1>. HIDE DEF E
<1>10. \A q \in lv \ F : /\ tg1[q] # Null => E[q] = << >>
                         /\ tg1[q] = Null => ListOf(E[q], ch1[q], nx1)
  <2>. SUFFICES ASSUME NEW q \in lv \ F
                PROVE  /\ tg1[q] # Null => E[q] = << >>
                       /\ tg1[q] = Null => ListOf(E[q], ch1[q], nx1)
    OBVIOUS
  <2>1. tg1[q] = tg[q]
    BY <1>5
  <2>2. CASE q = p
    BY <1>2, <1>7, <1>8, <2>1, <2>2
  <2>3. CASE q # p
    <3>1. E[q] = K[q]
      BY <1>7, <2>3
    <3>. QED BY <1>6, <1>9, <2>1, <2>3, <3>1
  <2>. QED BY <2>2, <2>3
<1>11. nx1 \in [Nodes -> Nodes \cup {Null}]
  BY <1>0, <1>1
<1>12. KidsOf(lv \ F, nx1, ch1, tg1) = E
  BY <1>7, <1>10, <1>11, KidsBecome
<1>. QED BY <1>12 DEF E

\* Inserting after the last is appending.
LEMMA InsertAtEnd ==
  ASSUME NEW S, NEW s \in Seq(S), NEW e \in S
  PROVE  InsertAt(s, Len(s) + 1, e) = Append(s, e)
<1>1. Len(s) + 1 \in 1 .. Len(s) + 1 /\ Len(s) \in Nat
  OBVIOUS
<1>. DEFINE a == InsertAt(s, Len(s) + 1, e)
            b == Append(s, e)
<1>2. /\ a \in Seq(S) /\ Len(a) = Len(s) + 1
      /\ \A j \in 1 .. Len(s) + 1 : a[j] = IF j < Len(s) + 1 THEN s[j] ELSE IF j = Len(s) + 1 THEN e ELSE s[j - 1]
  <2>. DEFINE k == Len(s) + 1
  <2>. HIDE DEF k
  <2>1. k \in 1 .. Len(s) + 1
    BY <1>1 DEF k
  <2>2. /\ InsertAt(s, k, e) \in Seq(S) /\ Len(InsertAt(s, k, e)) = Len(s) + 1
        /\ \A j \in 1 .. Len(s) + 1 : InsertAt(s, k, e)[j] = IF j < k THEN s[j] ELSE IF j = k THEN e ELSE s[j - 1]
    BY <2>1, InsertAtIs
  <2>. QED BY <2>2 DEF k
<1>3. /\ b \in Seq(S) /\ Len(b) = Len(s) + 1
      /\ \A j \in 1 .. Len(s) + 1 : b[j] = IF j < Len(s) + 1 THEN s[j] ELSE e
  BY <1>1
<1>. HIDE DEF a, b
<1>4. \A j \in 1 .. Len(s) + 1 : a[j] = b[j]
  BY <1>1, <1>2, <1>3
<1>5. a = b
  BY <1>1, <1>2, <1>3, <1>4
<1>. QED BY <1>5 DEF a, b

\* add_item_to_array: the root n becomes the last item of p.
LEMMA KidsAppend ==
  ASSUME NEW lv, NEW nx, NEW pv, NEW ch, NEW ow, NEW tg, Forest(lv, nx, pv, ch, ow, tg),
         NEW K, K = KidsOf(lv, nx, ch, tg), NEW p \in lv, tg[p] = Null, NEW n \in lv, ow[n] = Null, NEW nx1, NEW ch1,
         IF ch[p] = Null THEN ch1 = [ch EXCEPT ![p] = n] /\ nx1 = nx
         ELSE ch1 = ch /\ nx1 = [nx EXCEPT ![pv[ch[p]]] = n]
  PROVE  KidsOf(lv, nx1, ch1, tg) = [K EXCEPT ![p] = Append(@, n)]
<1>. DEFINE last == Len(K[p])
<1>0. /\ lv \in SUBSET Nodes /\ nx \in [Nodes -> lv \cup {Null}] /\ ch \in [Nodes -> lv \cup {Null}]
      /\ n # Null
  BY TreeAssumption DEF Forest, Typed
<1>1. IF ch[p] = Null THEN last = 0 ELSE last \in 1 .. last /\ pv[ch[p]] = K[p][last]
  BY LastIs
<1>2. OwnList(K[p], p, lv, ow)
  BY KidsAre
<1>3. last \in Nat /\ K[p] \in Seq(lv)
  BY <1>2 DEF OwnList
<1>4. nx[n] = Null
  BY DEF Forest, Linked, LinkedAt
<1>5. \A i \in 1 .. last : K[p][i] # n
  BY <1>0, <1>2, OtherItem
<1>6. last + 1 \in 1 .. last + 1 /\ (last + 1) - 1 = last /\ (last + 1 = 1 <=> last = 0)
  BY <1>3
<1>7. InsertAt(K[p], last + 1, n) = Append(K[p], n)
  BY <1>3, InsertAtEnd
<1>8. last # 0 => last \in 1 .. last
  BY <1>3
<1>. HIDE DEF last
<1>9. /\ \A y \in lv : ch1[y] = IF y = p /\ last = 0 THEN n ELSE ch[y]
      /\ nx1[n] = Null /\ nx1 \in [Nodes -> lv \cup {Null}]
      /\ \A y \in lv : y # n => nx1[y] = IF last # 0 /\ y = K[p][last] THEN n ELSE nx[y]
  <2>1. CASE ch[p] = Null
    <3>1. nx1 = nx /\ ch1 = [ch EXCEPT ![p] = n]
      BY <2>1
    <3>. QED BY <1>0, <1>1, <1>4, <2>1, <3>1
  <2>2. CASE ch[p] # Null
    <3>1. ch1 = ch /\ nx1 = [nx EXCEPT ![pv[ch[p]]] = n]
      BY <2>2
    <3>2. last # 0 /\ pv[ch[p]] = K[p][last] /\ K[p][last] # n
      BY <1>1, <1>5, <2>2
    <3>3. nx1 \in [Nodes -> lv \cup {Null}] /\ \A y \in Nodes : nx1[y] = IF y = pv[ch[p]] THEN n ELSE nx[y]
      BY <1>0, <3>1
    <3>. QED BY <1>0, <1>4, <3>1, <3>2, <3>3
  <2>. QED BY <2>1, <2>2
<1>. DEFINE i == last + 1
<1>10. /\ i \in 1 .. last + 1 /\ nx1 \in [Nodes -> lv \cup {Null}]
       /\ \A y \in lv : ch1[y] = IF y = p /\ i = 1 THEN n ELSE ch[y]
       /\ nx1[n] = IF i = last + 1 THEN Null ELSE K[p][i]
       /\ \A y \in lv : y # n => nx1[y] = IF i # 1 /\ y = K[p][i - 1] THEN n ELSE nx[y]
  BY <1>6, <1>9
<1>. HIDE DEF i
<1>11. KidsOf(lv, nx1, ch1, tg) = [K EXCEPT ![p] = InsertAt(@, i, n)]
  BY <1>10, KidsInsert DEF last
<1>12. InsertAt(K[p], i, n) = Append(K[p], n)
  BY <1>7 DEF i
<1>. QED BY <1>11, <1>12

--------------------------------------------------------------------------------
(* The steps of ItemLists *)

\* Insert, given what the two functions of lists become
LEMMA ListsInsert ==
  ASSUME NEW p \in live, NEW m \in live, live' = live, Lists!IsRoot(m), p \notin Lists!Tree(m),
         NEW i \in 1 .. Len(KidsNow[p]) + 1,
         KidsNow' = [KidsNow EXCEPT ![p] = InsertAt(@, i, m)], ShowsNow' = ShowsNow
  PROVE  Lists!Next
<1>1. Lists!Insert(p, i, m)
  BY ListItems, Zenon DEF Lists!Insert, Lists!InsertAt, InsertAt, KidsNow, ShowsNow
<1>. QED BY <1>1, ListItems, Zenon DEF Lists!Next, KidsNow

\* Detach, likewise
LEMMA ListsDetach ==
  ASSUME NEW p \in live, live' = live, NEW i \in DOMAIN KidsNow[p], i \in 1 .. Len(KidsNow[p]) + 1,
         KidsNow' = [KidsNow EXCEPT ![p] = RemoveAt(@, i)], ShowsNow' = ShowsNow
  PROVE  Lists!Next
<1>1. Lists!Detach(p, i)
  BY ListItems, Zenon DEF Lists!Detach, Lists!RemoveAt, RemoveAt, KidsNow, ShowsNow
<1>. QED BY <1>1, ListItems, Zenon DEF Lists!Next, KidsNow

\* Delete: the lists of the tree S are gone.
LEMMA ListsDelete ==
  ASSUME NEW n \in live, NEW S, S = Lists!Tree(n), Lists!IsRoot(n), live' = live \ S, live' # live,
         KidsNow' = Restrict(KidsNow, live \ S), ShowsNow' = Restrict(ShowsNow, live \ S)
  PROVE  Lists!Next
<1>1. Lists!Delete(n)
  BY ListItems, Zenon DEF Lists!Delete, Lists!Lose, Lists!Restrict, Restrict, KidsNow, ShowsNow
<1>2. Lists!Made = {}
  BY ListMade
<1>. QED BY <1>1, <1>2, ListItems, Zenon DEF Lists!Next

\* DeleteAt: so are they, and their root is out of the list of p.
LEMMA ListsDeleteAt ==
  ASSUME NEW p \in live, NEW i \in DOMAIN KidsNow[p], NEW S, S = Lists!Tree(KidsNow[p][i]),
         live' = live \ S, live' # live,
         KidsNow' = Restrict([KidsNow EXCEPT ![p] = RemoveAt(@, i)], live \ S),
         ShowsNow' = Restrict(ShowsNow, live \ S)
  PROVE  Lists!Next
<1>1. Lists!DeleteAt(p, i)
  BY ListItems, Zenon DEF Lists!DeleteAt, Lists!Lose, Lists!Restrict, Restrict, Lists!RemoveAt, RemoveAt, KidsNow, ShowsNow
<1>2. Lists!Made = {}
  BY ListMade
<1>. QED BY <1>1, <1>2, ListItems, Zenon DEF Lists!Next, KidsNow

\* PutAt: so are they, and m is where their root was.
LEMMA ListsPutAt ==
  ASSUME NEW p \in live, NEW i \in DOMAIN KidsNow[p], NEW S, S = Lists!Tree(KidsNow[p][i]),
         NEW m \in live, Lists!IsRoot(m), p \notin Lists!Tree(m),
         live' = live \ S, live' # live,
         KidsNow' = Restrict([KidsNow EXCEPT ![p] = [KidsNow[p] EXCEPT ![i] = m]], live \ S),
         ShowsNow' = Restrict(ShowsNow, live \ S)
  PROVE  Lists!Next
<1>1. Lists!PutAt(p, i, m)
  BY ListItems, Zenon DEF Lists!PutAt, Lists!Lose, Lists!Restrict, Restrict, KidsNow, ShowsNow
<1>2. Lists!Made = {}
  BY ListMade
<1>. QED BY <1>1, <1>2, ListItems, Zenon DEF Lists!Next, KidsNow

\* NewIn: the list of p has one item more, and that shows itself or what m shows.
LEMMA ListsNewIn ==
  ASSUME NEW p \in live, NEW n, n \notin live, live' = live \cup {n}, NEW m \in live \cup {n},
         KidsNow' = [x \in live' |-> IF x = n THEN << >> ELSE IF x = p THEN Append(KidsNow[p], n) ELSE KidsNow[x]],
         ShowsNow' = [x \in live' |-> IF x # n THEN ShowsNow[x] ELSE IF m = n THEN n ELSE ShowsNow[m]]
  PROVE  Lists!Next
<1>0. Lists!Made = {n} /\ live \subseteq live' /\ n \in Lists!Made /\ Lists!Made # {}
  BY ListMade
<1>1. Lists!NewIn(p, n, m)
  BY <1>0, ListItems, Zenon DEF Lists!NewIn, KidsNow, ShowsNow
<1>2. p \in Lists!Items /\ m \in Lists!Items \cup {n}
  BY ListItems
<1>. QED BY <1>0, <1>1, <1>2, Zenon DEF Lists!Next

\* NewReference: one item more, without a list, that shows what m shows.
LEMMA ListsNewReference ==
  ASSUME NEW n, n \notin live, live' = live \cup {n}, NEW m \in live,
         KidsNow' = [x \in live' |-> IF x \in live THEN KidsNow[x] ELSE [y \in {n} |-> << >>][x]],
         ShowsNow' = [x \in live' |-> IF x \in live THEN ShowsNow[x] ELSE [y \in {n} |-> ShowsNow[m]][x]]
  PROVE  Lists!Next
<1>0. Lists!Made = {n} /\ live \subseteq live' /\ n \in Lists!Made /\ Lists!Made # {}
  BY ListMade
<1>1. DOMAIN [x \in {n} |-> << >>] = {n}
  OBVIOUS
<1>2. Lists!NewReference(n, m)
  BY <1>0, <1>1, ListItems, Zenon DEF Lists!NewReference, Lists!New, KidsNow, ShowsNow
<1>3. m \in Lists!Items
  BY ListItems
<1>. QED BY <1>0, <1>2, <1>3, Zenon DEF Lists!Next

\* NewArray: the list s of new items, and the item that has it.
LEMMA ListsNewArray ==
  ASSUME NEW n, n \notin live, NEW s, ToSet(s) \cap (live \cup {n}) = {}, live' = live \cup ToSet(s) \cup {n},
         s \in SetToSeqs(ToSet(s)),
         KidsNow' = [x \in live' |-> IF x \in live THEN KidsNow[x]
                                     ELSE [y \in ToSet(s) \cup {n} |-> IF y = n THEN s ELSE << >>][x]],
         ShowsNow' = [x \in live' |-> IF x \in live THEN ShowsNow[x] ELSE [y \in ToSet(s) \cup {n} |-> y][x]]
  PROVE  Lists!Next
<1>0. Lists!Made = ToSet(s) \cup {n} /\ live \subseteq live' /\ n \in Lists!Made /\ Lists!Made # {}
  BY ListMade
<1>1. DOMAIN [x \in ToSet(s) \cup {n} |-> IF x = n THEN s ELSE << >>] = ToSet(s) \cup {n}
  OBVIOUS
<1>2. Lists!NewArray(n, s)
  BY <1>0, <1>1, ListItems, Zenon DEF Lists!NewArray, Lists!New, Lists!Itself, Lists!ToSet, ToSet, KidsNow, ShowsNow
<1>3. ToSet(s) = Lists!Made \ {n}
  BY <1>0
<1>4. s \in Lists!SetToSeqs(Lists!Made \ {n})
  BY <1>3, Zenon DEF SetToSeqs, Lists!SetToSeqs, Cardinality, Lists!Cardinality
<1>. QED BY <1>0, <1>2, <1>4, Zenon DEF Lists!Next

\* The items of S are copies of those of D, f says of which and o which, and ks are their lists.
Copying(n, D, S, f, o, ks) ==
  /\ n \in live /\ D \in {{n}, Shown(n)} /\ Shown(n) = Lists!Shown(n)
  /\ S # {} /\ S \cap live = {} /\ live' = live \cup S
  /\ f \in Bijection(D, S) /\ \A m \in S : o[m] = CHOOSE x \in DOMAIN f : f[x] = m
  /\ ks = [m \in S |-> IF DOMAIN f = {n} THEN << >>
                       ELSE [i \in DOMAIN KidsNow[ShowsNow[o[m]]] |-> f[KidsNow[ShowsNow[o[m]]][i]]]]
  /\ KidsNow' = [x \in live' |-> IF x \in live THEN KidsNow[x] ELSE ks[x]]
  /\ ShowsNow' = [x \in live' |-> IF x \in live THEN ShowsNow[x] ELSE [y \in S |-> y][x]]

\* Copy, which copies lists item by item
LEMMA ListsCopy ==
  ASSUME NEW n, NEW D, NEW S, NEW f, NEW o, NEW ks, Copying(n, D, S, f, o, ks)
  PROVE  Lists!Next
<1>. USE DEF Copying
<1>0. Lists!Made = S /\ live \subseteq live'
  BY ListMade
<1>1. DOMAIN ks = S
  OBVIOUS
<1>. DEFINE o1(m) == CHOOSE x \in DOMAIN f : f[x] = m
            k1 == [m \in S |-> IF DOMAIN f = {n} THEN << >>
                                   ELSE [i \in DOMAIN KidsNow[ShowsNow[o1(m)]] |-> f[KidsNow[ShowsNow[o1(m)]][i]]]]
<1>2. ks = k1
  <2>1. \A m \in S : o[m] = o1(m)
    OBVIOUS
  <2>. HIDE DEF o1
  <2>. QED BY <2>1
<1>3. Lists!Copy(n, f)
  BY <1>0, <1>1, <1>2, ListItems, Zenon DEF Lists!Copy, Lists!New, Lists!Itself, KidsNow, ShowsNow
<1>4. f \in Lists!Bijection(D, S)
  BY Zenon DEF Lists!Bijection, Bijection, Lists!Injection, Injection, Lists!Surjection, Surjection, Lists!IsInjective, IsInjective
<1>. QED BY <1>0, <1>3, <1>4, ListItems, Zenon DEF Lists!Next

--------------------------------------------------------------------------------
(* Every call does to the lists what ItemLists lets it *)

\* What the lists are, and what they will be.
LEMMA ListsNow ==
  ASSUME JsonInv, JsonInv'
  PROVE  /\ Forest(live, next, prev, child, owner, target)
         /\ live \subseteq Nodes /\ Null \notin Nodes
         /\ next \in [Nodes -> live \cup {Null}] /\ prev \in [Nodes -> live \cup {Null}]
         /\ child \in [Nodes -> live \cup {Null}] /\ owner \in [Nodes -> live \cup {Null}]
         /\ target \in [Nodes -> live \cup {Null}]
         /\ next' \in [Nodes -> live' \cup {Null}]
         /\ KidsNow = KidsOf(live, next, child, target) /\ ShowsNow = ShowsOf(live, target)
         /\ KidsNow' = KidsOf(live', next', child', target') /\ ShowsNow' = ShowsOf(live', target')
<1>1. KidsNow = KidsOf(live, next, child, target) /\ ShowsNow = ShowsOf(live, target)
  BY InvNow, KidsNowAre
<1>2. KidsNow' = KidsOf(live', next', child', target') /\ ShowsNow' = ShowsOf(live', target')
  BY KidsNextAre
<1>3. Forest(live, next, prev, child, owner, target)
  BY InvNow
<1>4. Links'
  BY DEF JsonInv
<1>5. next' \in [Nodes -> live' \cup {Null}]
  BY <1>4 DEF Links, Forest, Typed
<1>. QED BY <1>1, <1>2, <1>3, <1>5, InvNow, LinksTyped

\* What may be added is a root whose tree the new place is not in.
LEMMA AddedIsRoot ==
  ASSUME JsonInv, NEW p, NEW n, CanAdd(p, n)
  PROVE  Lists!IsRoot(n) /\ p \notin Lists!Tree(n)
<1>1. n \in live /\ owner[n] = Null /\ p \notin Shown(n)
  BY CanAddIs
<1>2. Lists!IsRoot(n)
  BY <1>1, RootIs
<1>3. Lists!Tree(n) = Freed(n) /\ Freed(n) \subseteq Shown(n)
  BY <1>1, TreeIs, FreedIs, InvNow
<1>. QED BY <1>1, <1>2, <1>3

\* Appending and inserting
LEMMA InsertedStep ==
  ASSUME JsonInv, JsonInv', NEW p, NEW n, CanAdd(p, n), live' = live, target' = target,
         NEW i \in 1 .. Len(KidsNow[p]) + 1,
         \A y \in live : child'[y] = IF y = p /\ i = 1 THEN n ELSE child[y],
         next'[n] = IF i = Len(KidsNow[p]) + 1 THEN Null ELSE KidsNow[p][i],
         \A y \in live : y # n => next'[y] = IF i # 1 /\ y = KidsNow[p][i - 1] THEN n ELSE next[y]
  PROVE  Lists!Next
<1>1. p \in live /\ target[p] = Null /\ n \in live /\ owner[n] = Null
  BY CanAddIs
<1>2. Lists!IsRoot(n) /\ p \notin Lists!Tree(n)
  BY AddedIsRoot
<1>. DEFINE K == KidsNow
            nx1 == next'
            ch1 == child'
<1>3. /\ Forest(live, next, prev, child, owner, target) /\ nx1 \in [Nodes -> live \cup {Null}]
      /\ K = KidsOf(live, next, child, target) /\ ShowsNow = ShowsOf(live, target)
      /\ KidsNow' = KidsOf(live, nx1, ch1, target) /\ ShowsNow' = ShowsOf(live, target)
  BY ListsNow
<1>4. /\ i \in 1 .. Len(K[p]) + 1
      /\ \A y \in live : ch1[y] = IF y = p /\ i = 1 THEN n ELSE child[y]
      /\ nx1[n] = IF i = Len(K[p]) + 1 THEN Null ELSE K[p][i]
      /\ \A y \in live : y # n => nx1[y] = IF i # 1 /\ y = K[p][i - 1] THEN n ELSE next[y]
  OBVIOUS
<1>. HIDE DEF K, nx1, ch1
<1>5. KidsOf(live, nx1, ch1, target) = [K EXCEPT ![p] = InsertAt(@, i, n)]
  BY <1>1, <1>3, <1>4, KidsInsert
<1>6. KidsNow' = [K EXCEPT ![p] = InsertAt(@, i, n)] /\ ShowsNow' = ShowsNow
  BY <1>3, <1>5
<1>. QED BY <1>1, <1>2, <1>4, <1>6, ListsInsert DEF K

\* add_item_to_array
LEMMA AppendedStep ==
  ASSUME JsonInv, JsonInv', NEW p, NEW n, CanAdd(p, n), AppendItem(p, n, child), live' = live, target' = target
  PROVE  Lists!Next
<1>1. /\ p \in live /\ target[p] = Null /\ n \in live /\ owner[n] = Null /\ n # p
  BY CanAddIs
<1>2. Lists!IsRoot(n) /\ p \notin Lists!Tree(n)
  BY AddedIsRoot
<1>. DEFINE K == KidsNow
            nx1 == next'
            ch1 == child'
<1>3. IF child[p] = Null THEN ch1 = [child EXCEPT ![p] = n] /\ nx1 = next
      ELSE ch1 = child /\ nx1 = [next EXCEPT ![prev[child[p]]] = n]
  BY DEF AppendItem
<1>4. /\ Forest(live, next, prev, child, owner, target)
      /\ K = KidsOf(live, next, child, target) /\ ShowsNow = ShowsOf(live, target)
      /\ KidsNow' = KidsOf(live, nx1, ch1, target) /\ ShowsNow' = ShowsOf(live, target)
  BY ListsNow
<1>5. OwnList(K[p], p, live, owner)
  BY <1>1, <1>4, KidsAre
<1>6. Len(K[p]) + 1 \in 1 .. Len(K[p]) + 1 /\ K[p] \in Seq(live)
  BY <1>5 DEF OwnList
<1>. HIDE DEF K, nx1, ch1
<1>7. KidsOf(live, nx1, ch1, target) = [K EXCEPT ![p] = Append(@, n)]
  BY <1>1, <1>3, <1>4, KidsAppend
<1>8. InsertAt(K[p], Len(K[p]) + 1, n) = Append(K[p], n)
  BY <1>1, <1>6, InsertAtEnd
<1>9. KidsNow' = [K EXCEPT ![p] = InsertAt(@, Len(K[p]) + 1, n)] /\ ShowsNow' = ShowsNow
  BY <1>4, <1>7, <1>8
<1>. QED BY <1>1, <1>2, <1>6, <1>9, ListsInsert DEF K

\* cJSON_InsertItemInArray puts n before the item it names.
LEMMA InsertItemInArrayStep ==
  ASSUME JsonInv, JsonInv', NEW p, NEW after, NEW n, InsertItemInArray(p, after, n)
  PROVE  Lists!Next
<1>1. /\ CanAdd(p, n) /\ after \in ArrayItems(p)
      /\ next' = IF after = child[p] THEN [next EXCEPT ![n] = after]
                 ELSE [next EXCEPT ![n] = after, ![prev[after]] = n]
      /\ child' = IF after = child[p] THEN [child EXCEPT ![p] = n] ELSE child
      /\ live' = live /\ target' = target
  BY Zenon DEF InsertItemInArray
<1>2. p \in live /\ target[p] = Null /\ n \in live /\ owner[n] = Null
  BY <1>1, CanAddIs
<1>3. after \in live /\ owner[after] = p
  BY <1>1, ItemAt DEF CanAdd
<1>4. PICK i \in 1 .. Len(KidsNow[p]) :
        /\ after = KidsNow[p][i] /\ (i = 1 <=> after = child[p])
        /\ i # 1 => i - 1 \in 1 .. Len(KidsNow[p]) /\ prev[after] = KidsNow[p][i - 1]
  BY <1>2, <1>3, ListsNow, PlaceIs
<1>5. OwnList(KidsNow[p], p, live, owner)
  BY <1>2, ListsNow, KidsAre
<1>6. Len(KidsNow[p]) \in Nat /\ i \in 1 .. Len(KidsNow[p]) + 1 /\ i # Len(KidsNow[p]) + 1
  BY <1>5 DEF OwnList
<1>7. i # 1 => KidsNow[p][i - 1] # n
  BY <1>2, <1>4, <1>5, ListsNow, OtherItem
<1>8. /\ \A y \in live : child'[y] = IF y = p /\ i = 1 THEN n ELSE child[y]
      /\ next'[n] = KidsNow[p][i]
      /\ \A y \in live : y # n => next'[y] = IF i # 1 /\ y = KidsNow[p][i - 1] THEN n ELSE next[y]
  <2>1. CASE i = 1
    BY <1>1, <1>2, <1>4, <2>1, ListsNow
  <2>2. CASE i # 1
    BY <1>1, <1>2, <1>4, <1>7, <2>2, ListsNow
  <2>. QED BY <2>1, <2>2
<1>9. next'[n] = IF i = Len(KidsNow[p]) + 1 THEN Null ELSE KidsNow[p][i]
  BY <1>6, <1>8
<1>10. i \in 1 .. Len(KidsNow[p]) + 1
  BY <1>6
<1>11. CanAdd(p, n) /\ live' = live /\ target' = target
  BY <1>1
<1>12. /\ \A y \in live : child'[y] = IF y = p /\ i = 1 THEN n ELSE child[y]
       /\ \A y \in live : y # n => next'[y] = IF i # 1 /\ y = KidsNow[p][i - 1] THEN n ELSE next[y]
  BY <1>8
<1>. QED BY <1>9, <1>10, <1>11, <1>12, InsertedStep

\* What cJSON_DetachItemViaPointer makes of the lists
LEMMA DetachedLists ==
  ASSUME JsonInv, JsonInv', NEW p, Changeable(p), NEW n \in ArrayItems(p)
  PROVE  /\ p \in live /\ n \in live /\ owner[n] = p
         /\ \E i \in 1 .. Len(KidsNow[p]) :
              /\ i \in DOMAIN KidsNow[p] /\ i \in 1 .. Len(KidsNow[p]) + 1 /\ KidsNow[p][i] = n
              /\ KidsOf(live, NextDetached(p, n), ChildDetached(p, n), target)
                   = [KidsNow EXCEPT ![p] = RemoveAt(@, i)]
<1>1. p \in live /\ target[p] = Null
  BY ChangeableIs
<1>2. n \in live /\ owner[n] = p
  BY ItemAt
<1>. DEFINE K == KidsNow
            nx1 == NextDetached(p, n)
            ch1 == ChildDetached(p, n)
<1>3. PICK i \in 1 .. Len(K[p]) :
        /\ n = K[p][i] /\ (i = 1 <=> n = child[p])
        /\ i # 1 => i - 1 \in 1 .. Len(K[p]) /\ prev[n] = K[p][i - 1]
  BY <1>1, <1>2, ListsNow, PlaceIs
<1>4. nx1 \in [Nodes -> live \cup {Null}]
  BY <1>2, ListsNow DEF NextDetached
<1>5. \A y \in live : ch1[y] = IF y = p /\ i = 1 THEN next[n] ELSE child[y]
  BY <1>1, <1>3, ListsNow DEF ChildDetached
<1>6. \A y \in live : y # n => nx1[y] = IF i # 1 /\ y = K[p][i - 1] THEN next[n] ELSE next[y]
  BY <1>1, <1>2, <1>3, ListsNow DEF NextDetached
<1>7. OwnList(K[p], p, live, owner) /\ K = KidsOf(live, next, child, target)
  BY <1>1, ListsNow, KidsAre
<1>8. i \in DOMAIN K[p] /\ i \in 1 .. Len(K[p]) + 1
  BY <1>7 DEF OwnList
<1>9. Forest(live, next, prev, child, owner, target)
  BY ListsNow
<1>. HIDE DEF K, nx1, ch1
<1>10. KidsOf(live, nx1, ch1, target) = [K EXCEPT ![p] = RemoveAt(@, i)]
  BY <1>1, <1>3, <1>4, <1>5, <1>6, <1>7, <1>9, KidsDetach
<1>. QED BY <1>1, <1>2, <1>3, <1>8, <1>10 DEF K, nx1, ch1

\* cJSON_DetachItemViaPointer takes n out of the list of p.
LEMMA DetachStep ==
  ASSUME JsonInv, JsonInv', NEW p, NEW n, Detach(p, n)
  PROVE  Lists!Next
<1>1. /\ Changeable(p) /\ n \in ArrayItems(p) /\ next' = NextDetached(p, n) /\ child' = ChildDetached(p, n)
      /\ live' = live /\ target' = target
  BY DEF Detach
<1>2. /\ p \in live
      /\ \E i \in 1 .. Len(KidsNow[p]) :
           /\ i \in DOMAIN KidsNow[p] /\ i \in 1 .. Len(KidsNow[p]) + 1 /\ KidsNow[p][i] = n
           /\ KidsOf(live, NextDetached(p, n), ChildDetached(p, n), target)
                = [KidsNow EXCEPT ![p] = RemoveAt(@, i)]
  BY <1>1, DetachedLists
<1>3. PICK i : /\ i \in DOMAIN KidsNow[p] /\ i \in 1 .. Len(KidsNow[p]) + 1
               /\ KidsOf(live, next', child', target) = [KidsNow EXCEPT ![p] = RemoveAt(@, i)]
  BY <1>1, <1>2
<1>4. KidsNow' = KidsOf(live, next', child', target) /\ ShowsNow' = ShowsNow
  BY <1>1, ListsNow
<1>. QED BY <1>1, <1>2, <1>3, <1>4, ListsDetach

\* What is freed with n goes, and no reference shows it.
LEMMA PrunedShows ==
  ASSUME NEW lv, NEW tg, NEW F \in SUBSET lv, lv \subseteq Nodes, Null \notin Nodes, tg \in [Nodes -> lv \cup {Null}]
  PROVE  ShowsOf(lv \ F, Free(F, tg)) = Restrict(ShowsOf(lv, tg), lv \ F)
BY DEF ShowsOf, Free, Restrict

\* cJSON_Delete leaves every list of the items that stay.
LEMMA DeleteStep ==
  ASSUME JsonInv, JsonInv', NEW n, Delete(n)
  PROVE  Lists!Next
<1>. DEFINE F == Freed(n)
<1>1. /\ n \in held /\ Deletable(F) /\ live' = live \ F /\ target' = Free(F, target)
      /\ next' = Free(F, next) /\ child' = Free(F, child)
  BY DEF Delete, FreeItems
<1>2. n \in live /\ owner[n] = Null
  BY <1>1, InvNow DEF Roots
<1>3. F \in SUBSET live /\ Subtree(F, n, owner)
  BY <1>2, InvNow, FreedIs
<1>4. Lists!IsRoot(n) /\ F = Lists!Tree(n)
  BY <1>2, RootIs, TreeIs
<1>. HIDE DEF F
<1>5. n \in F /\ (\A x \in F : x # n => owner[x] \in F) /\ \A r \in live \ F : target[r] \notin F
  BY <1>1, <1>3 DEF Subtree, Deletable
<1>6. KidsOf(live \ F, Free(F, next), Free(F, child), Free(F, target)) = Restrict(KidsNow, live \ F)
  BY <1>2, <1>3, <1>5, ListsNow, KidsPrune
<1>7. ShowsOf(live \ F, Free(F, target)) = Restrict(ShowsNow, live \ F)
  BY <1>3, ListsNow, PrunedShows
<1>8. /\ KidsNow' = Restrict(KidsNow, live \ F) /\ ShowsNow' = Restrict(ShowsNow, live \ F)
      /\ live' # live
  BY <1>1, <1>2, <1>5, <1>6, <1>7, ListsNow
<1>. QED BY <1>1, <1>2, <1>4, <1>8, ListsDelete

\* cJSON_DeleteItemFromArray takes n out of the list of p and frees its tree.
LEMMA DeleteItemStep ==
  ASSUME JsonInv, JsonInv', NEW p, NEW n, DeleteItem(p, n)
  PROVE  Lists!Next
<1>. DEFINE F == Freed(n)
            nx1 == NextDetached(p, n)
            pv1 == PrevDetached(p, n)
            ch1 == ChildDetached(p, n)
            ow1 == [owner EXCEPT ![n] = Null]
<1>1. /\ Changeable(p) /\ n \in ArrayItems(p) /\ Deletable(F) /\ live' = live \ F /\ target' = Free(F, target)
      /\ next' = Free(F, nx1) /\ child' = Free(F, ch1)
  BY DEF DeleteItem, FreeItems
<1>2. /\ p \in live /\ n \in live /\ owner[n] = p
      /\ \E i \in 1 .. Len(KidsNow[p]) :
           /\ i \in DOMAIN KidsNow[p] /\ i \in 1 .. Len(KidsNow[p]) + 1 /\ KidsNow[p][i] = n
           /\ KidsOf(live, nx1, ch1, target) = [KidsNow EXCEPT ![p] = RemoveAt(@, i)]
  BY <1>1, DetachedLists
<1>3. F \in SUBSET live /\ Subtree(F, n, owner)
  BY <1>2, InvNow, FreedIs
<1>4. F = Lists!Tree(n)
  BY <1>2, TreeIs
<1>5. Forest(live, nx1, pv1, ch1, ow1, target)
  BY <1>1, DetachedIs
<1>6. \A x \in Nodes : ow1[x] = IF x = n THEN Null ELSE owner[x]
  BY ListsNow
<1>. HIDE DEF F, nx1, pv1, ch1, ow1
<1>7. /\ n \in F /\ ow1[n] = Null /\ (\A x \in F : x # n => ow1[x] \in F)
      /\ \A r \in live \ F : target[r] \notin F
  BY <1>1, <1>2, <1>3, <1>6, ListsNow DEF Subtree, Deletable
<1>8. PICK i : /\ i \in DOMAIN KidsNow[p] /\ KidsNow[p][i] = n
               /\ KidsOf(live, nx1, ch1, target) = [KidsNow EXCEPT ![p] = RemoveAt(@, i)]
  BY <1>2
<1>. DEFINE K1 == [KidsNow EXCEPT ![p] = RemoveAt(@, i)]
<1>9. K1 = KidsOf(live, nx1, ch1, target)
  BY <1>8
<1>. HIDE DEF K1
<1>10. KidsOf(live \ F, Free(F, nx1), Free(F, ch1), Free(F, target)) = Restrict(K1, live \ F)
  BY <1>3, <1>5, <1>7, <1>9, KidsPrune
<1>11. ShowsOf(live \ F, Free(F, target)) = Restrict(ShowsNow, live \ F)
  BY <1>3, ListsNow, PrunedShows
<1>12. /\ KidsNow' = Restrict(K1, live \ F) /\ ShowsNow' = Restrict(ShowsNow, live \ F)
       /\ live' # live
  BY <1>1, <1>2, <1>7, <1>10, <1>11, ListsNow
<1>13. F = Lists!Tree(KidsNow[p][i])
  BY <1>4, <1>8
<1>. QED BY <1>1, <1>2, <1>8, <1>12, <1>13, ListsDeleteAt DEF K1

\* cJSON_ReplaceItemViaPointer
LEMMA ReplacedStep ==
  ASSUME JsonInv, JsonInv', NEW p, NEW r, CanAdd(p, r), NEW n \in ArrayItems(p), Deletable(Freed(n)),
         Replace(p, n, r), live' = live \ Freed(n), target' = Free(Freed(n), target)
  PROVE  Lists!Next
<1>. DEFINE F == Freed(n)
            K == KidsNow
<1>1. /\ next' = Free(F, IF child[p] = n THEN [next EXCEPT ![r] = next[n]]
                         ELSE [[next EXCEPT ![r] = next[n]] EXCEPT ![prev[n]] = r])
      /\ child' = Free(F, IF child[p] = n THEN [child EXCEPT ![p] = r] ELSE child)
  BY DEF Replace
<1>2. p \in live /\ target[p] = Null /\ r \in live /\ owner[r] = Null
  BY CanAddIs
<1>3. n \in live /\ owner[n] = p
  BY ItemAt DEF CanAdd
<1>4. F \in SUBSET live /\ Subtree(F, n, owner) /\ r \notin F
  BY <1>3, InvNow, FreedIs, ReplacedIs
<1>5. Lists!IsRoot(r) /\ p \notin Lists!Tree(r) /\ F = Lists!Tree(n)
  BY <1>3, AddedIsRoot, TreeIs
<1>6. PICK i \in 1 .. Len(K[p]) :
        /\ n = K[p][i] /\ (i = 1 <=> n = child[p])
        /\ i # 1 => i - 1 \in 1 .. Len(K[p]) /\ prev[n] = K[p][i - 1]
  BY <1>2, <1>3, ListsNow, PlaceIs
<1>7. OwnList(K[p], p, live, owner)
  BY <1>2, ListsNow, KidsAre
<1>8. i \in DOMAIN K[p] /\ (i # 1 => K[p][i - 1] # r)
  <2>1. i \in DOMAIN K[p]
    BY <1>7 DEF OwnList
  <2>2. i # 1 => K[p][i - 1] # r
    BY <1>2, <1>6, <1>7, ListsNow, OtherItem
  <2>. QED BY <2>1, <2>2
<1>9. live' = live \ F /\ target' = Free(F, target)
  OBVIOUS
<1>. HIDE DEF F
<1>10. n \in F /\ p \notin F /\ \A x \in F : x # n => owner[x] \in F
  BY <1>3, <1>4 DEF Subtree
<1>11. InPlace(r, p, i, K[p], live \ F, next, child, target, next', child', target')
  <2>1. \A y \in live \ F : target'[y] = target[y]
    BY <1>9, ListsNow DEF Free
  <2>2. \A y \in live \ F : child'[y] = IF y = p /\ i = 1 THEN r ELSE child[y]
    BY <1>1, <1>2, <1>6, ListsNow DEF Free
  <2>3. next'[r] = next[n] /\ \A y \in live \ F : y # r => next'[y] = IF i # 1 /\ y = K[p][i - 1] THEN r ELSE next[y]
    <3>1. CASE i = 1
      <4>1. next' = Free(F, [next EXCEPT ![r] = next[n]])
        BY <1>1, <1>6, <3>1
      <4>. QED BY <1>2, <1>4, <3>1, <4>1, ListsNow DEF Free
    <3>2. CASE i # 1
      <4>1. next' = Free(F, [[next EXCEPT ![r] = next[n]] EXCEPT ![prev[n]] = r]) /\ prev[n] = K[p][i - 1] /\ prev[n] # r
        BY <1>1, <1>6, <1>8, <3>2
      <4>. QED BY <1>2, <1>4, <3>2, <4>1, ListsNow DEF Free
    <3>. QED BY <3>1, <3>2
  <2>. QED BY <1>6, <2>1, <2>2, <2>3 DEF InPlace
<1>12. next' \in [Nodes -> live \cup {Null}]
  BY <1>9, ListsNow
<1>13. K = KidsOf(live, next, child, target) /\ Forest(live, next, prev, child, owner, target)
  BY ListsNow
<1>. DEFINE l == [K[p] EXCEPT ![i] = r]
<1>. HIDE DEF K
<1>14. KidsOf(live \ F, next', child', target') = Restrict([K EXCEPT ![p] = l], live \ F)
  <2>1. p \in live \ F /\ r \in live \ F /\ owner[r] = Null /\ target[p] = Null /\ n = K[p][i]
    BY <1>2, <1>4, <1>6, <1>10
  <2>2. F \in SUBSET live /\ \A x \in F : x # n => owner[x] \in F
    BY <1>4, <1>10
  <2>3. l = [K[p] EXCEPT ![i] = r]
    OBVIOUS
  <2>. HIDE DEF l
  <2>4. Replacing(live, F, p, i, n, r, K, l, next, child, owner, target, next', child', target')
    BY <1>11, <1>12, <1>13, <2>1, <2>2, <2>3 DEF Replacing
  <2>. QED BY <1>13, <2>4, KidsReplace
<1>. HIDE DEF l
<1>15. ShowsOf(live \ F, Free(F, target)) = Restrict(ShowsNow, live \ F)
  BY <1>4, ListsNow, PrunedShows
<1>16. /\ KidsNow' = Restrict([K EXCEPT ![p] = l], live \ F)
       /\ ShowsNow' = Restrict(ShowsNow, live \ F) /\ live' # live
  BY <1>3, <1>9, <1>10, <1>14, <1>15, ListsNow
<1>17. F = Lists!Tree(K[p][i])
  BY <1>5, <1>6
<1>. QED BY <1>2, <1>5, <1>8, <1>9, <1>16, <1>17, ListsPutAt DEF K, l

--------------------------------------------------------------------------------
(* New items *)

\* An item n is new, and none of the others is in its list.
RootMade(lv, lv1, nx, ch, tg, ch1, tg1, n, E) ==
  /\ n \in Nodes \ lv /\ lv1 = lv \cup {n}
  /\ \A y \in lv : ch1[y] = ch[y] /\ tg1[y] = tg[y]
  /\ tg1[n] = Null => ch1[n] = Null
  /\ E = [m \in lv1 |-> IF m \in lv THEN KidsOf(lv, nx, ch, tg)[m] ELSE << >>]

\* The list of a new item is empty, and all the others stay.
LEMMA KidsRoot ==
  ASSUME NEW lv, NEW nx, NEW pv, NEW ch, NEW ow, NEW tg, Forest(lv, nx, pv, ch, ow, tg),
         NEW lv1, NEW ch1, NEW tg1, NEW n, NEW E, RootMade(lv, lv1, nx, ch, tg, ch1, tg1, n, E)
  PROVE  KidsOf(lv1, nx, ch1, tg1) = E
<1>. DEFINE K == KidsOf(lv, nx, ch, tg)
<1>0. nx \in [Nodes -> Nodes \cup {Null}]
  BY DEF Forest, Typed
<1>1. ASSUME NEW q \in lv PROVE /\ tg[q] = Null => ListOf(K[q], ch[q], nx)
                                /\ tg[q] # Null => K[q] = << >>
  BY KidsAre
<1>. HIDE DEF K
<1>2. E = [q \in lv1 |-> E[q]] /\ E[n] = << >> /\ \A q \in lv : E[q] = K[q]
  BY DEF RootMade, K
<1>3. ListOf(<< >>, Null, nx)
  BY DEF ListOf
<1>4. \A q \in lv1 : /\ tg1[q] # Null => E[q] = << >>
                     /\ tg1[q] = Null => ListOf(E[q], ch1[q], nx)
  BY <1>1, <1>2, <1>3 DEF RootMade
<1>. QED BY <1>0, <1>2, <1>4, KidsBecome

\* A reference to the list of m, or to what m shows
LEMMA ReferenceStep ==
  ASSUME JsonInv, JsonInv', NEW n \in Nodes \ live, NEW m \in live, live' = live \cup {n},
         child' = [child EXCEPT ![n] = child[m]], target' = [target EXCEPT ![n] = Origin(m)], next' = next
  PROVE  Lists!Next
<1>1. Origin(m) # Null /\ Origin(m) = IF target[m] = Null THEN m ELSE target[m]
  BY OriginIs, InvNow DEF Items, Origin
<1>2. \A y \in Nodes : /\ child'[y] = IF y = n THEN child[m] ELSE child[y]
                       /\ target'[y] = IF y = n THEN Origin(m) ELSE target[y]
  BY ListsNow
<1>3. /\ \A y \in live : child'[y] = child[y] /\ target'[y] = target[y]
      /\ target'[n] = Null => child'[n] = Null
  BY <1>1, <1>2, ListsNow
<1>4. KidsOf(live', next, child', target') = [x \in live' |-> IF x \in live THEN KidsNow[x] ELSE << >>]
  <2>. DEFINE E == [x \in live' |-> IF x \in live THEN KidsNow[x] ELSE << >>]
  <2>1. RootMade(live, live', next, child, target, child', target', n, E)
    BY <1>3, ListsNow DEF RootMade
  <2>. HIDE DEF E
  <2>2. KidsOf(live', next, child', target') = E
    BY <2>1, ListsNow, KidsRoot
  <2>. QED BY <2>2 DEF E
<1>5. KidsNow' = [x \in live' |-> IF x \in live THEN KidsNow[x] ELSE [y \in {n} |-> << >>][x]]
  <2>1. KidsNow' = [x \in live' |-> IF x \in live THEN KidsNow[x] ELSE << >>]
    BY <1>4, ListsNow
  <2>. QED BY <2>1
<1>6. ShowsNow' = [x \in live' |-> IF x \in live THEN ShowsNow[x] ELSE [y \in {n} |-> ShowsNow[m]][x]]
  <2>1. ShowsNow[m] = Origin(m) /\ ShowsNow' = ShowsOf(live', target')
    BY <1>1, ListsNow DEF ShowsNow
  <2>2. \A x \in live' : (IF target'[x] = Null THEN x ELSE target'[x])
                            = IF x \in live THEN ShowsNow[x] ELSE [y \in {n} |-> ShowsNow[m]][x]
    <3>. SUFFICES ASSUME NEW x \in live'
                  PROVE  (IF target'[x] = Null THEN x ELSE target'[x])
                            = IF x \in live THEN ShowsNow[x] ELSE [y \in {n} |-> ShowsNow[m]][x]
      OBVIOUS
    <3>1. CASE x \in live
      BY <1>3, <3>1 DEF ShowsNow
    <3>2. CASE x = n
      BY <1>1, <1>2, <2>1, <3>2, ListsNow
    <3>. QED BY <3>1, <3>2
  <2>. QED BY <2>1, <2>2 DEF ShowsOf
<1>. QED BY <1>5, <1>6, ListsNewReference

\* A reference that the caller holds, or that nobody does
LEMMA CreateReferenceStep ==
  ASSUME JsonInv, JsonInv', NEW n, NEW m, CreateReference(n, m) \/ LoseReference(n, m)
  PROVE  Lists!Next
<1>1. /\ n \in Nodes \ live /\ m \in live /\ live' = live \cup {n} /\ next' = next
      /\ child' = [child EXCEPT ![n] = child[m]] /\ target' = [target EXCEPT ![n] = Origin(m)]
  BY DEF CreateReference, LoseReference, Allocated
<1>. QED BY <1>1, ReferenceStep

\* A new item n, appended to p
LEMMA AddNewStep ==
  ASSUME JsonInv, JsonInv', NEW p, NEW n, NEW d, NEW name, NEW c, NEW o, AddNew(p, n, d, name, c, o),
         NEW m \in live \cup {n}, (m = n /\ c = Null /\ o = Null) \/ (m \in live /\ c = child[m] /\ o = Origin(m))
  PROVE  Lists!Next
<1>1. /\ n \in Nodes \ live /\ Changeable(p) /\ live' = live \cup {n}
      /\ AppendItem(p, n, [child EXCEPT ![n] = c]) /\ target' = [target EXCEPT ![n] = o]
  BY DEF AddNew, Allocated
<1>2. p \in live /\ target[p] = Null /\ n # p
  BY <1>1, ChangeableIs
<1>. DEFINE lv1 == live \cup {n}
            ch0 == [child EXCEPT ![n] = c]
            tg1 == [target EXCEPT ![n] = o]
            K1 == [x \in lv1 |-> IF x \in live THEN KidsNow[x] ELSE << >>]
<1>3. /\ \A y \in Nodes : ch0[y] = IF y = n THEN c ELSE child[y]
      /\ \A y \in Nodes : tg1[y] = IF y = n THEN o ELSE target[y]
  BY ListsNow
<1>4. (o = Null /\ c = Null) \/ (o \in live /\ target[o] = Null /\ c = child[o] /\ o # Null)
  BY OriginIs
<1>5. Forest(lv1, next, prev, ch0, owner, tg1)
  BY <1>1, <1>4, ListsNow, RootKeeps
<1>6. KidsOf(lv1, next, ch0, tg1) = K1
  <2>1. \A y \in live : ch0[y] = child[y] /\ tg1[y] = target[y]
    BY <1>1, <1>3, ListsNow
  <2>2. tg1[n] = Null => ch0[n] = Null
    BY <1>1, <1>3, <1>4
  <2>3. RootMade(live, lv1, next, child, target, ch0, tg1, n, K1)
    BY <1>1, <2>1, <2>2, ListsNow DEF RootMade
  <2>. HIDE DEF ch0, tg1, lv1, K1
  <2>. QED BY <2>3, ListsNow, KidsRoot
<1>7. tg1[p] = Null /\ p \in lv1 /\ n \in lv1 /\ owner[n] = Null /\ next[n] = Null
  BY <1>1, <1>2, <1>3, LinksTyped, InvNow
<1>8. IF ch0[p] = Null THEN child' = [ch0 EXCEPT ![p] = n] /\ next' = next
      ELSE child' = ch0 /\ next' = [next EXCEPT ![prev[ch0[p]]] = n]
  BY <1>1 DEF AppendItem
<1>9. K1[p] = KidsNow[p] /\ K1 = [x \in lv1 |-> K1[x]]
  BY <1>2
<1>. HIDE DEF lv1, ch0, tg1, K1
<1>10. KidsOf(lv1, next', child', tg1) = [K1 EXCEPT ![p] = Append(@, n)]
  BY <1>5, <1>6, <1>7, <1>8, KidsAppend
<1>11. KidsNow' = [x \in live' |-> IF x = n THEN << >> ELSE IF x = p THEN Append(KidsNow[p], n) ELSE KidsNow[x]]
  <2>1. KidsNow' = [K1 EXCEPT ![p] = Append(K1[p], n)]
    BY <1>1, <1>10, ListsNow DEF lv1, tg1
  <2>2. KidsNow' = [x \in lv1 |-> IF x = p THEN Append(KidsNow[p], n) ELSE K1[x]]
    BY <1>9, <2>1
  <2>. QED BY <1>1, <1>2, <2>2 DEF K1, lv1
<1>12. ShowsNow' = [x \in live' |-> IF x # n THEN ShowsNow[x] ELSE IF m = n THEN n ELSE ShowsNow[m]]
  <2>1. ASSUME NEW x \in live'
        PROVE  (IF target'[x] = Null THEN x ELSE target'[x])
                  = IF x # n THEN ShowsNow[x] ELSE IF m = n THEN n ELSE ShowsNow[m]
    <3>1. CASE x # n
      BY <1>1, <1>3, <3>1, ListsNow DEF ShowsNow, tg1
    <3>2. CASE x = n /\ m = n
      BY <1>1, <1>3, <3>2, ListsNow DEF tg1
    <3>3. CASE x = n /\ m # n
      <4>1. Origin(m) # Null /\ Origin(m) = IF target[m] = Null THEN m ELSE target[m]
        BY <3>3, OriginIs, InvNow DEF Items, Origin
      <4>. QED BY <1>1, <1>3, <3>3, <4>1, ListsNow DEF ShowsNow, tg1
    <3>. QED BY <3>1, <3>2, <3>3
  <2>2. ShowsNow' = [x \in live' |-> IF target'[x] = Null THEN x ELSE target'[x]]
    BY DEF ShowsNow
  <2>. QED BY <2>1, <2>2
<1>. QED BY <1>1, <1>2, <1>11, <1>12, ListsNewIn

\* cJSON_AddNullToObject and its like
LEMMA AddNewToObjectStep ==
  ASSUME JsonInv, JsonInv', NEW p, NEW n, NEW name, NEW kind, AddNewToObject(p, n, name, kind)
  PROVE  Lists!Next
BY AddNewStep DEF AddNewToObject

\* cJSON_AddItemReferenceToArray and ToObject
LEMMA AddItemReferenceStep ==
  ASSUME JsonInv, JsonInv', NEW p, NEW n, NEW name, NEW m, AddItemReference(p, n, name, m)
  PROVE  Lists!Next
<1>1. m \in live /\ AddNew(p, n, Reference(m), name, child[m], Origin(m))
  BY DEF AddItemReference
<1>. QED BY <1>1, AddNewStep

--------------------------------------------------------------------------------
(* New arrays and copies *)

\* What the lists of the items that stay are when nothing about them changes.
OldStay(nx1, ch1) == \A y \in live : ch1[y] = child[y] /\ nx1[y] = next[y]

\* Their lists are lists by the new links too.
LEMMA OldLists ==
  ASSUME JsonInv, NEW nx1, NEW ch1, OldStay(nx1, ch1), NEW q \in live
  PROVE  /\ target[q] # Null => KidsNow[q] = << >>
         /\ target[q] = Null => ListOf(KidsNow[q], ch1[q], nx1)
<1>1. Forest(live, next, prev, child, owner, target) /\ KidsNow = KidsOf(live, next, child, target)
  BY InvNow, KidsNowAre
<1>2. /\ target[q] # Null => KidsNow[q] = << >>
      /\ target[q] = Null => ListOf(KidsNow[q], child[q], next)
      /\ OwnList(KidsNow[q], q, live, owner)
  BY <1>1, KidsAre
<1>3. \A i \in 1 .. Len(KidsNow[q]) : nx1[KidsNow[q][i]] = next[KidsNow[q][i]]
  BY <1>2 DEF OwnList, OldStay
<1>4. target[q] = Null => ListOf(KidsNow[q], child[q], nx1)
  BY <1>2, <1>3, ListSame
<1>. QED BY <1>2, <1>4 DEF OldStay

\* The items of S are new, and their lists are ks.
LEMMA NewLists ==
  ASSUME JsonInv, JsonInv', NEW S \in SUBSET Nodes, S \cap live = {}, live' = live \cup S, target' = target,
         OldStay(next', child'), NEW ks, \A y \in S : ListOf(ks[y], child'[y], next')
  PROVE  /\ KidsNow' = [x \in live' |-> IF x \in live THEN KidsNow[x] ELSE ks[x]]
         /\ ShowsNow' = [x \in live' |-> IF x \in live THEN ShowsNow[x] ELSE [y \in S |-> y][x]]
<1>. DEFINE E == [x \in live' |-> IF x \in live THEN KidsNow[x] ELSE ks[x]]
<1>1. \A y \in Nodes \ live : target[y] = Null
  BY LinksTyped, InvNow
<1>2. E = [x \in live' |-> E[x]] /\ (\A x \in live : E[x] = KidsNow[x]) /\ \A x \in S : E[x] = ks[x]
  OBVIOUS
<1>. HIDE DEF E
<1>3. \A q \in live' : /\ target'[q] # Null => E[q] = << >>
                       /\ target'[q] = Null => ListOf(E[q], child'[q], next')
  <2>. SUFFICES ASSUME NEW q \in live'
                PROVE  /\ target'[q] # Null => E[q] = << >>
                       /\ target'[q] = Null => ListOf(E[q], child'[q], next')
    OBVIOUS
  <2>1. CASE q \in live
    BY <1>2, <2>1, OldLists
  <2>2. CASE q \in S
    BY <1>1, <1>2, <2>2
  <2>. QED BY <2>1, <2>2
<1>4. next' \in [Nodes -> Nodes \cup {Null}]
  BY ListsNow DEF JsonInv
<1>5. KidsNow' = E
  <2>. DEFINE lv1 == live'
              nx1 == next'
              ch1 == child'
              tg1 == target'
  <2>. HIDE DEF lv1, nx1, ch1, tg1
  <2>1. /\ nx1 \in [Nodes -> Nodes \cup {Null}] /\ E = [x \in lv1 |-> E[x]]
        /\ \A q \in lv1 : /\ tg1[q] # Null => E[q] = << >>
                          /\ tg1[q] = Null => ListOf(E[q], ch1[q], nx1)
    BY <1>2, <1>3, <1>4 DEF lv1, nx1, ch1, tg1
  <2>2. KidsOf(lv1, nx1, ch1, tg1) = E
    BY <2>1, KidsBecome
  <2>. QED BY <2>2, ListsNow DEF lv1, nx1, ch1, tg1
<1>6. ShowsNow' = [x \in live' |-> IF x \in live THEN ShowsNow[x] ELSE [y \in S |-> y][x]]
  <2>1. ShowsNow' = [x \in live' |-> IF target[x] = Null THEN x ELSE target[x]]
    BY DEF ShowsNow
  <2>2. \A x \in live' : (IF target[x] = Null THEN x ELSE target[x])
                            = IF x \in live THEN ShowsNow[x] ELSE [y \in S |-> y][x]
    BY <1>1 DEF ShowsNow
  <2>. QED BY <2>1, <2>2
<1>. QED BY <1>5, <1>6 DEF E

\* An item n is new, and the items of its list s are.
LEMMA ArrayStep ==
  ASSUME JsonInv, JsonInv', NEW n \in Nodes \ live, NEW s, NEW S, S = ToSet(s), S \cap (live \cup {n}) = {},
         S \subseteq Nodes, s \in SetToSeqs(S), live' = live \cup S \cup {n}, target' = target,
         OldStay(next', child'), ListOf(s, child'[n], next'), \A y \in S : child'[y] = Null
  PROVE  Lists!Next
<1>. DEFINE R == S \cup {n}
            ks == [y \in R |-> IF y = n THEN s ELSE << >>]
<1>1. ListOf(<< >>, Null, next')
  BY DEF ListOf
<1>2. \A y \in R : ListOf(ks[y], child'[y], next')
  BY <1>1
<1>3. R \in SUBSET Nodes /\ R \cap live = {} /\ live' = live \cup R
  OBVIOUS
<1>. HIDE DEF R, ks
<1>4. /\ KidsNow' = [x \in live' |-> IF x \in live THEN KidsNow[x] ELSE ks[x]]
      /\ ShowsNow' = [x \in live' |-> IF x \in live THEN ShowsNow[x] ELSE [y \in R |-> y][x]]
  BY <1>2, <1>3, NewLists
<1>5. /\ KidsNow' = [x \in live' |-> IF x \in live THEN KidsNow[x]
                                     ELSE [y \in ToSet(s) \cup {n} |-> IF y = n THEN s ELSE << >>][x]]
      /\ ShowsNow' = [x \in live' |-> IF x \in live THEN ShowsNow[x] ELSE [y \in ToSet(s) \cup {n} |-> y][x]]
  BY <1>4 DEF R, ks
<1>. QED BY <1>5, ListsNewArray

\* cJSON_CreateNull and its like: an item with an empty list
LEMMA CreateStep ==
  ASSUME JsonInv, JsonInv', NEW n, NEW kind, Create(n, kind)
  PROVE  Lists!Next
<1>1. n \in Nodes \ live /\ live' = live \cup {n} /\ next' = next /\ child' = child /\ target' = target
  BY DEF Create, Allocated
<1>2. ToSet(<< >>) = {} /\ << >> \in SetToSeqs({})
  <2>1. ToSet(<< >>) = {}
    BY DEF ToSet
  <2>2. Cardinality({}) = 0
    BY FS_EmptySet
  <2>3. << >> \in [1 .. 0 -> {}]
    OBVIOUS
  <2>. QED BY <2>1, <2>2, <2>3 DEF SetToSeqs
<1>3. child'[n] = Null
  BY <1>1, LinksTyped, InvNow
<1>4. ListOf(<< >>, child'[n], next') /\ OldStay(next', child')
  BY <1>1, <1>3 DEF ListOf, OldStay
<1>. QED BY <1>1, <1>2, <1>4, ArrayStep

\* cJSON_CreateIntArray and its like: the array has the new items in the order of the numbers.
LEMMA CreateArrayOfStep ==
  ASSUME JsonInv, JsonInv', NEW n, NEW kind, NEW T \in SUBSET (Nodes \ live), NEW ns \in SetToSeqs(T),
         CreateArrayOf(n, ns, kind)
  PROVE  Lists!Next
<1>. DEFINE S == ToSet(ns)
            place(m) == CHOOSE i \in DOMAIN ns : ns[i] = m
            last == Len(ns)
<1>1. /\ n \in Nodes /\ n \notin live /\ S \cap (live \cup {n}) = {}
      /\ live' = live \cup S \cup {n}
      /\ child' = [child EXCEPT ![n] = IF last = 0 THEN Null ELSE ns[1]]
      /\ next' = [m \in Nodes |-> IF m \in S /\ place(m) < last THEN ns[place(m) + 1] ELSE next[m]]
      /\ target' = target
  BY Zenon DEF CreateArrayOf, Allocated
<1>2. /\ last \in Nat /\ ns \in Seq(T) /\ DOMAIN ns = 1 .. last /\ \A i \in 1 .. last : ns[i] \in T
      /\ \A i, j \in 1 .. last : ns[i] = ns[j] => i = j
  <2>1. IsFiniteSet(T)
    BY FS_Subset, TreeAssumption
  <2>2. Cardinality(T) \in Nat
    BY <2>1, FS_CardinalityType
  <2>. DEFINE k == Cardinality(T)
  <2>3. ns \in [1 .. k -> T] /\ \A i, j \in 1 .. k : i # j => ns[i] # ns[j]
    BY DEF SetToSeqs
  <2>. HIDE DEF k
  <2>5. k \in Nat
    BY <2>2 DEF k
  <2>6. ns \in Seq(T) /\ Len(ns) = k
    BY <2>3, <2>5
  <2>. QED BY <2>3, <2>5, <2>6
<1>3. S = {ns[i] : i \in 1 .. last}
  BY <1>2 DEF ToSet
<1>4. \A i \in 1 .. last : place(ns[i]) = i
  BY <1>2
<1>. HIDE DEF S, place, last
<1>5. /\ child \in [Nodes -> live \cup {Null}] /\ next \in [Nodes -> live \cup {Null}]
      /\ \A y \in Nodes \ live : next[y] = Null /\ child[y] = Null
  BY LinksTyped, InvNow
<1>6. S \in SUBSET Nodes
  BY <1>2, <1>3
<1>7. \A i \in 1 .. last : next'[ns[i]] = IF i = last THEN Null ELSE ns[i + 1]
  <2>. SUFFICES ASSUME NEW i \in 1 .. last PROVE next'[ns[i]] = IF i = last THEN Null ELSE ns[i + 1]
    OBVIOUS
  <2>1. ns[i] \in S /\ place(ns[i]) = i /\ next[ns[i]] = Null /\ ns[i] \in Nodes
    BY <1>2, <1>3, <1>4, <1>5
  <2>2. i < last <=> i # last
    BY <1>2
  <2>. QED BY <1>1, <2>1, <2>2
<1>8. child'[n] = IF last = 0 THEN Null ELSE ns[1]
  BY <1>1, <1>5
<1>9. ListOf(ns, child'[n], next')
  <2>1. ns \in Seq(Nodes)
    BY <1>2
  <2>. QED BY <1>7, <1>8, <2>1 DEF ListOf, last
<1>10. \A y \in S : child'[y] = Null
  BY <1>1, <1>5, <1>6
<1>11. OldStay(next', child')
  <2>1. \A y \in live : y \in Nodes /\ y \notin S /\ y # n
    BY <1>1, InvNow
  <2>. QED BY <1>1, <1>5, <2>1 DEF OldStay
<1>12. S = ToSet(ns) /\ ns \in SetToSeqs(S)
  <2>. DEFINE I == 1 .. last
  <2>1. ns \in [I -> S] /\ (\A i, j \in I : ns[i] = ns[j] => i = j) /\ \A m \in S : \E i \in I : ns[i] = m
    <3>1. DOMAIN ns = I /\ ns = [i \in I |-> ns[i]]
      BY <1>2
    <3>2. \A i \in I : ns[i] \in S
      BY <1>3
    <3>. HIDE DEF I
    <3>3. ns \in [I -> S]
      BY <3>1, <3>2
    <3>. QED BY <1>2, <1>3, <3>3 DEF I
  <2>2. ns \in Bijection(1 .. last, S)
    <3>. HIDE DEF I
    <3>1. ns \in Bijection(I, S)
      BY <2>1 DEF Bijection, Injection, Surjection, IsInjective
    <3>. QED BY <3>1 DEF I
  <2>3. ExistsBijection(1 .. last, S)
    BY <2>2 DEF ExistsBijection
  <2>4. Cardinality(S) = last
    BY <1>2, <2>3, FS_CountingElements
  <2>. QED BY <2>1, <2>4 DEF SetToSeqs, S
<1>. QED BY <1>1, <1>6, <1>9, <1>10, <1>11, <1>12, ArrayStep
\* No item is the first of what it shows.
LEMMA NotFirstOfOwn ==
  ASSUME JsonInv, NEW n \in live
  PROVE  child[n] # n
<1>. SUFFICES ASSUME child[n] = n PROVE FALSE
  OBVIOUS
<1>. DEFINE C == {n}
<1>1. /\ Forest(live, next, prev, child, owner, target) /\ live \subseteq Nodes /\ Null \notin Nodes
      /\ child \in [Nodes -> live \cup {Null}] /\ target \in [Nodes -> live \cup {Null}]
  BY LinksTyped, InvNow
<1>2. owner[n] # Null /\ Shows(n, n, owner, target)
  <2>1. LinkedAt(n, next, prev, child, owner, target) /\ n # Null
    BY <1>1 DEF Forest, Linked
  <2>2. CASE target[n] = Null
    BY <2>1, <2>2 DEF LinkedAt, Shows
  <2>3. CASE target[n] # Null
    <3>1. target[n] \in live /\ target[target[n]] = Null /\ child[target[n]] = n
      BY <1>1, <2>3 DEF Forest, References
    <3>2. owner[n] = target[n]
      BY <1>1, <2>1, <3>1 DEF Forest, Linked, LinkedAt
    <3>. QED BY <2>3, <3>2 DEF Shows
  <2>. QED BY <2>2, <2>3
<1>3. C \in SUBSET live /\ \A x \in C : owner[x] # Null /\ \E q \in C : Shows(q, x, owner, target)
  BY <1>2
<1>. QED BY <1>1, <1>3 DEF Forest, NoCycle

\* The list of the copies of a list's items
LEMMA CopiedList ==
  ASSUME NEW s, NEW c, NEW nx, ListOf(s, c, nx), NEW D, Null \notin D, NEW f, \A x \in D : f[x] \in Nodes,
         \A i \in 1 .. Len(s) : s[i] \in D, NEW c1, c1 = IF c \notin D THEN Null ELSE f[c],
         NEW nx1, \A i \in 1 .. Len(s) : nx1[f[s[i]]] = IF nx[s[i]] \notin D THEN Null ELSE f[nx[s[i]]]
  PROVE  ListOf([i \in DOMAIN s |-> f[s[i]]], c1, nx1)
<1>. DEFINE z == [i \in DOMAIN s |-> f[s[i]]]
<1>1. s \in Seq(Nodes) /\ Len(s) \in Nat /\ DOMAIN s = 1 .. Len(s)
  BY DEF ListOf
<1>2. z \in Seq(Nodes) /\ Len(z) = Len(s) /\ \A i \in 1 .. Len(s) : z[i] = f[s[i]]
  BY <1>1
<1>. HIDE DEF z
<1>3. c1 = IF Len(z) = 0 THEN Null ELSE z[1]
  <2>1. \A k \in Nat : k # 0 => 1 \in 1 .. k
    OBVIOUS
  <2>2. c = IF Len(s) = 0 THEN Null ELSE s[1]
    BY DEF ListOf
  <2>3. Len(s) # 0 => 1 \in 1 .. Len(s)
    BY <1>1, <2>1
  <2>. QED BY <1>2, <2>2, <2>3
<1>4. ASSUME NEW i \in 1 .. Len(s) PROVE nx1[z[i]] = IF i = Len(s) THEN Null ELSE z[i + 1]
  <2>1. nx[s[i]] = IF i = Len(s) THEN Null ELSE s[i + 1]
    BY DEF ListOf
  <2>2. \A k \in Nat : \A j \in 1 .. k : j # k => j + 1 \in 1 .. k
    OBVIOUS
  <2>3. i # Len(s) => i + 1 \in 1 .. Len(s)
    BY <1>1, <2>2
  <2>. QED BY <1>2, <2>1, <2>3
<1>5. ListOf(z, c1, nx1)
  BY <1>2, <1>3, <1>4 DEF ListOf
<1>. QED BY <1>5 DEF z

\* What one sees from m is the list that m shows, each of its items below n if m is.
LEMMA ShownList ==
  ASSUME JsonInv, NEW n \in live, NEW m \in Shown(n)
  PROVE  /\ ShowsNow[m] \in live /\ ListOf(KidsNow[ShowsNow[m]], child[m], next)
         /\ \A i \in 1 .. Len(KidsNow[ShowsNow[m]]) :
              KidsNow[ShowsNow[m]][i] \in Shown(n) /\ KidsNow[ShowsNow[m]][i] # n
<1>1. /\ Forest(live, next, prev, child, owner, target) /\ live \subseteq Nodes /\ Null \notin Nodes
      /\ child \in [Nodes -> live \cup {Null}] /\ target \in [Nodes -> live \cup {Null}]
      /\ KidsNow = KidsOf(live, next, child, target)
  BY LinksTyped, InvNow, KidsNowAre
<1>2. /\ n \in Shown(n) /\ Shown(n) \in SUBSET live
      /\ owner[n] # Null => \A q \in Shown(n) : ~Shows(q, n, owner, target)
      /\ \A q \in Shown(n), x \in live : owner[x] # Null /\ Shows(q, x, owner, target) => x \in Shown(n)
  BY InvNow, ShownIs
<1>. DEFINE q == ShowsNow[m]
            s == KidsNow[q]
<1>3. q = IF target[m] = Null THEN m ELSE target[m]
  BY <1>2 DEF ShowsNow
<1>4. q \in live /\ target[q] = Null /\ child[q] = child[m]
  BY <1>1, <1>2, <1>3 DEF Forest, References
<1>. HIDE DEF q
<1>5. ListOf(s, child[m], next) /\ OwnList(s, q, live, owner)
  BY <1>1, <1>4, KidsAre
<1>6. ASSUME NEW i \in 1 .. Len(s) PROVE s[i] \in Shown(n) /\ s[i] # n
  <2>1. s[i] \in live /\ owner[s[i]] = q
    BY <1>5 DEF OwnList
  <2>2. owner[s[i]] # Null /\ Shows(m, s[i], owner, target)
    BY <1>1, <1>3, <1>4, <2>1 DEF Shows
  <2>. QED BY <1>2, <2>1, <2>2
<1>. QED BY <1>4, <1>5, <1>6 DEF q

\* cJSON_Duplicate: the list of a copy is the copies of the list its original shows.
LEMMA DuplicateStep ==
  ASSUME JsonInv, JsonInv', NEW n \in live, NEW D \in {{n}, Shown(n)}, NEW T \in SUBSET (Nodes \ live),
         NEW f \in Bijection(D, T), Duplicate(n, f)
  PROVE  Lists!Next
<1>. DEFINE S == {f[m] : m \in D}
            original(x) == CHOOSE m \in D : f[m] = x
            copy(p) == IF p \in D THEN f[p] ELSE Null
            inner(x, p) == IF x = f[n] THEN Null ELSE copy(p[original(x)])
<1>1. /\ DOMAIN f = D /\ (\A m \in D : f[m] \in T) /\ (\A m, x \in D : f[m] = f[x] => m = x)
      /\ \A x \in T : \E m \in D : f[m] = x
  BY DEF Bijection, Injection, Surjection, IsInjective
<1>2. /\ live' = live \cup S /\ target' = target
      /\ child' = [x \in Nodes |-> IF x \in S THEN copy(child[original(x)]) ELSE child[x]]
      /\ next' = [x \in Nodes |-> IF x \in S THEN inner(x, next) ELSE next[x]]
  <2>. HIDE DEF original, copy, inner
  <2>. QED BY <1>1 DEF Duplicate, original, copy, inner
<1>3. S = T
  BY <1>1
<1>4. \A m \in D : original(f[m]) = m
  BY <1>1
<1>5. n \in D /\ D \in SUBSET live /\ live \subseteq Nodes /\ Null \notin Nodes
  <2>1. n \in Shown(n) /\ Shown(n) \in SUBSET live
    BY ShownIs, InvNow
  <2>2. D = {n} \/ D = Shown(n)
    OBVIOUS
  <2>3. live \subseteq Nodes /\ Null \notin Nodes
    BY LinksTyped, InvNow
  <2>. QED BY <2>1, <2>2, <2>3
<1>. HIDE DEF S, original
<1>6. ASSUME NEW m \in D
      PROVE  /\ next'[f[m]] = IF m = n \/ next[m] \notin D THEN Null ELSE f[next[m]]
             /\ child'[f[m]] = IF child[m] \notin D THEN Null ELSE f[child[m]]
  <2>1. f[m] \in Nodes /\ f[m] \in S /\ original(f[m]) = m /\ (f[m] = f[n] <=> m = n)
    BY <1>1, <1>3, <1>4, <1>5
  <2>. QED BY <1>2, <2>1
<1>7. OldStay(next', child')
  <2>1. \A y \in live : y \in Nodes /\ y \notin S
    BY <1>3, <1>5
  <2>. QED BY <1>2, <2>1 DEF OldStay
<1>. DEFINE o == [y \in T |-> original(y)]
            ks == [y \in T |-> IF DOMAIN f = {n} THEN << >>
                               ELSE [i \in DOMAIN KidsNow[ShowsNow[o[y]]] |-> f[KidsNow[ShowsNow[o[y]]][i]]]]
<1>8. \A y \in T : o[y] = CHOOSE x \in DOMAIN f : f[x] = y
  BY <1>1 DEF original
<1>9. \A m \in D : o[f[m]] = m
  BY <1>1, <1>4
<1>. HIDE DEF o
<1>10. ASSUME NEW m \in D PROVE ListOf(ks[f[m]], child'[f[m]], next')
  <2>1. CASE D = {n}
    <3>1. ks[f[m]] = << >> /\ child'[f[m]] = Null
      BY <1>1, <1>6, <2>1, NotFirstOfOwn
    <3>2. ListOf(<< >>, Null, next')
      BY DEF ListOf
    <3>. QED BY <3>1, <3>2
  <2>2. CASE D # {n}
    <3>. DEFINE s == KidsNow[ShowsNow[m]]
    <3>1. ks[f[m]] = [i \in DOMAIN s |-> f[s[i]]]
      BY <1>1, <1>9, <2>2
    <3>2. ListOf(s, child[m], next) /\ \A i \in 1 .. Len(s) : s[i] \in D /\ s[i] # n
      BY <2>2, ShownList
    <3>. HIDE DEF s, ks
    <3>3. \A i \in 1 .. Len(s) : next'[f[s[i]]] = IF next[s[i]] \notin D THEN Null ELSE f[next[s[i]]]
      BY <1>6, <3>2
    <3>4. Null \notin D /\ \A x \in D : f[x] \in Nodes
      BY <1>1, <1>5
    <3>. DEFINE nx1 == next'
                c1 == child'[f[m]]
    <3>5. c1 = IF child[m] \notin D THEN Null ELSE f[child[m]]
      BY <1>6
    <3>6. \A i \in 1 .. Len(s) : nx1[f[s[i]]] = IF next[s[i]] \notin D THEN Null ELSE f[next[s[i]]]
      BY <3>3
    <3>. HIDE DEF nx1, c1
    <3>7. ListOf([i \in DOMAIN s |-> f[s[i]]], c1, nx1)
      BY <3>2, <3>4, <3>5, <3>6, CopiedList
    <3>. QED BY <3>1, <3>7 DEF nx1, c1
  <2>. QED BY <2>1, <2>2
<1>11. T \in SUBSET Nodes /\ T \cap live = {} /\ live' = live \cup T /\ T # {}
  BY <1>1, <1>2, <1>3, <1>5
<1>12. ks = [y \in T |-> IF DOMAIN f = {n} THEN << >>
                         ELSE [i \in DOMAIN KidsNow[ShowsNow[o[y]]] |-> f[KidsNow[ShowsNow[o[y]]][i]]]]
  OBVIOUS
<1>. HIDE DEF ks
<1>13. \A y \in T : ListOf(ks[y], child'[y], next')
  BY <1>1, <1>10
<1>14. /\ KidsNow' = [x \in live' |-> IF x \in live THEN KidsNow[x] ELSE ks[x]]
       /\ ShowsNow' = [x \in live' |-> IF x \in live THEN ShowsNow[x] ELSE [y \in T |-> y][x]]
  BY <1>2, <1>7, <1>11, <1>13, NewLists
<1>15. Shown(n) = Lists!Shown(n)
  BY ShownListsIs
<1>16. Copying(n, D, T, f, o, ks)
  BY <1>8, <1>11, <1>12, <1>14, <1>15, Zenon DEF Copying
<1>. QED BY <1>16, ListsCopy
--------------------------------------------------------------------------------
(* The theorem *)

\* cJSON_AddItemToArray appends.
LEMMA AddItemToArrayStep ==
  ASSUME JsonInv, JsonInv', NEW p, NEW n, AddItemToArray(p, n)
  PROVE  Lists!Next
BY AppendedStep DEF AddItemToArray

\* So does cJSON_AddItemToObject.
LEMMA AddItemToObjectStep ==
  ASSUME JsonInv, JsonInv', NEW p, NEW name, NEW n, NEW const, AddItemToObject(p, name, n, const)
  PROVE  Lists!Next
BY AppendedStep DEF AddItemToObject

\* cJSON_ReplaceItemViaPointer puts r where n was.
LEMMA ReplaceItemStep ==
  ASSUME JsonInv, JsonInv', NEW p, NEW n, NEW r, ReplaceItem(p, n, r)
  PROVE  Lists!Next
BY ReplacedStep DEF ReplaceItem, FreeItems

\* A call that changes values and names leaves the lists as they are.
LEMMA ListsStay ==
  ASSUME JsonInv, JsonInv', live' = live, next' = next, child' = child, target' = target
  PROVE  UNCHANGED Lists!lists
<1>1. KidsNow' = KidsNow /\ ShowsNow' = ShowsNow
  BY ListsNow
<1>. QED BY <1>1, Zenon DEF Lists!lists, KidsNow, ShowsNow

\* cJSON_ReplaceItemInObject does so too, or changes no more than the name of r.
LEMMA ReplaceItemInObjectStep ==
  ASSUME JsonInv, JsonInv', NEW p, NEW name, NEW r, NEW b, ReplaceItemInObject(p, name, r, b)
  PROVE  Lists!Next \/ UNCHANGED Lists!lists
<1>1. CanAdd(p, r) /\ p \in live
  BY CanAddIs DEF ReplaceItemInObject
<1>2. \/ live' = live /\ next' = next /\ child' = child /\ target' = target
      \/ \E n \in ObjectItem(p, name, b) :
           Deletable(Freed(n)) /\ Replace(p, n, r) /\ live' = live \ Freed(n) /\ target' = Free(Freed(n), target)
  BY DEF ReplaceItemInObject, links
<1>3. CASE live' = live /\ next' = next /\ child' = child /\ target' = target
  BY <1>3, ListsStay
<1>4. ASSUME NEW n \in ObjectItem(p, name, b), Deletable(Freed(n)), Replace(p, n, r), live' = live \ Freed(n),
             target' = Free(Freed(n), target)
      PROVE  Lists!Next
  <2>1. n \in ArrayItems(p)
    BY <1>1, InvNow, ObjectItemIsItem
  <2>. QED BY <1>1, <1>4, <2>1, ReplacedStep
<1>. QED BY <1>2, <1>3, <1>4

\* Every call is a step of ItemLists or none.
LEMMA ListsStep == JsonInv /\ JsonInv' /\ [Next /\ Bounded']_vars => [Lists!Next]_(Lists!lists)
<1>. SUFFICES ASSUME JsonInv, JsonInv', [Next]_vars PROVE Lists!Next \/ UNCHANGED Lists!lists
  OBVIOUS
<1>1. ASSUME NEW n \in Nodes \ live, NEW kind \in Kinds, Create(n, kind) PROVE Lists!Next
  BY <1>1, CreateStep
<1>2. ASSUME NEW n \in Nodes \ live, NEW kind \in Scalars, NEW S \in SUBSET (Nodes \ live),
             NEW ns \in SetToSeqs(S), CreateArrayOf(n, ns, kind)
      PROVE  Lists!Next
  BY <1>2, CreateArrayOfStep
<1>3. ASSUME NEW n \in Nodes \ live, NEW m \in live, CreateReference(n, m) \/ LoseReference(n, m)
      PROVE  Lists!Next
  BY <1>3, CreateReferenceStep
<1>4. ASSUME NEW n \in Nodes \ live, NEW p \in live, NEW name \in Names, NEW kind \in Kinds,
             AddNewToObject(p, n, name, kind)
      PROVE  Lists!Next
  BY <1>4, AddNewToObjectStep
<1>5. ASSUME NEW n \in Nodes \ live, NEW p \in live, NEW name \in Names \cup {NoName}, NEW m \in live,
             AddItemReference(p, n, name, m)
      PROVE  Lists!Next
  BY <1>5, AddItemReferenceStep
<1>6. ASSUME NEW n \in live, NEW D \in {{n}, Shown(n)}, NEW S \in SUBSET (Nodes \ live),
             NEW f \in Bijection(D, S), Duplicate(n, f)
      PROVE  Lists!Next
  BY <1>6, DuplicateStep
<1>7. ASSUME NEW p \in live, NEW r \in held, AddItemToArray(p, r) PROVE Lists!Next
  BY <1>7, AddItemToArrayStep
<1>8. ASSUME NEW p \in live, NEW r \in held, NEW n \in ArrayItems(p),
             InsertItemInArray(p, n, r) \/ ReplaceItem(p, n, r)
      PROVE  Lists!Next
  BY <1>8, InsertItemInArrayStep, ReplaceItemStep
<1>9. ASSUME NEW p \in live, NEW r \in held, NEW name \in Names, NEW b \in BOOLEAN,
             AddItemToObject(p, name, r, b) \/ ReplaceItemInObject(p, name, r, b)
      PROVE  Lists!Next \/ UNCHANGED Lists!lists
  BY <1>9, AddItemToObjectStep, ReplaceItemInObjectStep
<1>10. ASSUME NEW p \in live, NEW n \in ArrayItems(p), Detach(p, n) \/ DeleteItem(p, n) PROVE Lists!Next
  BY <1>10, DetachStep, DeleteItemStep
<1>11. ASSUME NEW p \in live, NEW name \in Names, NEW b \in BOOLEAN,
              DetachItemFromObject(p, name, b) \/ DeleteItemFromObject(p, name, b)
       PROVE  Lists!Next
  BY <1>11, DetachStep, DeleteItemStep DEF DetachItemFromObject, DeleteItemFromObject
<1>12. ASSUME NEW n \in held, Delete(n) PROVE Lists!Next
  BY <1>12, DeleteStep
<1>13. ASSUME NEW n \in live, NEW text \in Texts, SetValuestring(n, text) PROVE UNCHANGED Lists!lists
  BY <1>13, ListsStay DEF SetValuestring, links
<1>14. CASE UNCHANGED vars
  BY <1>14, ListsStay DEF vars
<1>15. CASE Next
  BY <1>1, <1>2, <1>3, <1>4, <1>5, <1>6, <1>7, <1>8, <1>9, <1>10, <1>11, <1>12, <1>13, <1>15, Zenon DEF Next
<1>. QED BY <1>14, <1>15

\* Whatever calls a program makes, however many items there are: the pointers next and child
\* make the lists that the names of the calls promise, and what cJSON_Delete frees and
\* cJSON_Duplicate copies is what these lists say.
THEOREM TreeImplementsItemLists == Spec => ImplementsItemLists
<1>1. Init => Lists!Init
  <2>. SUFFICES ASSUME Init PROVE Lists!Init
    OBVIOUS
  <2>1. KidsNow = << >> /\ ShowsNow = << >>
    BY DEF Init, KidsNow, ShowsNow
  <2>. QED BY <2>1, Zenon DEF Lists!Init, KidsNow, ShowsNow
<1>2. JsonInv /\ JsonInv' /\ [Next /\ Bounded']_vars => [Lists!Next]_(Lists!lists)
  BY ListsStep
<1>. QED BY <1>1, <1>2, JsonInvariant, PTL DEF Spec, ImplementsItemLists, Lists!Spec

--------------------------------------------------------------------------------
(* cJSON_Compare and the values *)

\* One rank of Value and of Compare.
ValueLevel(rank, inner, cs) == [n \in Nodes |-> IF rank = 0 THEN << >> ELSE Valued(inner, n, cs)]
MatchLevel(rank, same, cs) == [x \in Nodes |-> [y \in Nodes |-> rank > 0 /\ Matches(same, x, y, cs)]]

\* f has the ranks up to k.
ValuesTo(k, cs, f) ==
  f = [rank \in 0 .. k |-> [n \in Nodes |-> IF rank = 0 THEN << >> ELSE Valued(f[rank - 1], n, cs)]]

MatchesTo(k, cs, f) ==
  f = [rank \in 0 .. k |-> [x \in Nodes |-> [y \in Nodes |-> rank > 0 /\ Matches(f[rank - 1], x, y, cs)]]]

\* The last rank asks for nothing below it.
LEMMA LevelZero ==
  ASSUME NEW cs, NEW g, NEW h
  PROVE  ValueLevel(0, g, cs) = ValueLevel(0, h, cs) /\ MatchLevel(0, g, cs) = MatchLevel(0, h, cs)
<1>1. ValueLevel(0, g, cs) = ValueLevel(0, h, cs)
  BY DEF ValueLevel
<1>2. \A e : MatchLevel(0, e, cs) = [x \in Nodes |-> [y \in Nodes |-> FALSE]]
  <2>. SUFFICES ASSUME NEW e PROVE MatchLevel(0, e, cs) = [x \in Nodes |-> [y \in Nodes |-> FALSE]]
    OBVIOUS
  <2>1. ~(0 > 0)
    OBVIOUS
  <2>2. \A x, y : (0 > 0 /\ Matches(e, x, y, cs)) = FALSE
    BY <2>1, Zenon
  <2>. DEFINE q(x, y) == 0 > 0 /\ Matches(e, x, y, cs)
  <2>3. MatchLevel(0, e, cs) = [x \in Nodes |-> [y \in Nodes |-> q(x, y)]]
    BY DEF MatchLevel
  <2>4. \A x, y : q(x, y) = FALSE
    BY <2>2
  <2>. HIDE DEF q
  <2>. QED BY <2>3, <2>4
<1>. QED BY <1>1, <1>2

\* A function whose ranks are ValueLevels, each of the one before, can be given one rank more.
LEMMA ValuesOn ==
  ASSUME NEW k \in Nat, NEW cs, NEW f, \A rank \in 0 .. k : f[rank] = ValueLevel(rank, f[rank - 1], cs)
  PROVE  \E g : g = [rank \in 0 .. k + 1 |-> g[rank]] /\ \A rank \in 0 .. k + 1 : g[rank] = ValueLevel(rank, g[rank - 1], cs)
<1>. DEFINE h == ValueLevel(k + 1, f[k], cs)
            g == [rank \in 0 .. k + 1 |-> IF rank <= k THEN f[rank] ELSE h]
<1>1. ASSUME NEW rank \in 0 .. k + 1 PROVE g[rank] = ValueLevel(rank, g[rank - 1], cs)
  <2>1. CASE rank = 0
    BY <2>1, LevelZero
  <2>2. CASE rank # 0 /\ rank <= k
    <3>1. g[rank] = f[rank] /\ g[rank - 1] = f[rank - 1] /\ rank \in 0 .. k
      BY <2>2
    <3>. HIDE DEF g
    <3>. QED BY <3>1
  <2>3. CASE rank = k + 1
    <3>1. g[rank] = h /\ g[rank - 1] = f[k]
      BY <2>3
    <3>. HIDE DEF g
    <3>. QED BY <2>3, <3>1
  <2>. QED BY <2>1, <2>2, <2>3
<1>2. g = [rank \in 0 .. k + 1 |-> g[rank]]
  OBVIOUS
<1>. HIDE DEF g
<1>. QED BY <1>1, <1>2

\* So can one of MatchLevels.
LEMMA MatchesOn ==
  ASSUME NEW k \in Nat, NEW cs, NEW f, \A rank \in 0 .. k : f[rank] = MatchLevel(rank, f[rank - 1], cs)
  PROVE  \E g : g = [rank \in 0 .. k + 1 |-> g[rank]] /\ \A rank \in 0 .. k + 1 : g[rank] = MatchLevel(rank, g[rank - 1], cs)
<1>. DEFINE h == MatchLevel(k + 1, f[k], cs)
            g == [rank \in 0 .. k + 1 |-> IF rank <= k THEN f[rank] ELSE h]
<1>1. ASSUME NEW rank \in 0 .. k + 1 PROVE g[rank] = MatchLevel(rank, g[rank - 1], cs)
  <2>1. CASE rank = 0
    BY <2>1, LevelZero
  <2>2. CASE rank # 0 /\ rank <= k
    <3>1. g[rank] = f[rank] /\ g[rank - 1] = f[rank - 1] /\ rank \in 0 .. k
      BY <2>2
    <3>. HIDE DEF g
    <3>. QED BY <3>1
  <2>3. CASE rank = k + 1
    <3>1. g[rank] = h /\ g[rank - 1] = f[k]
      BY <2>3
    <3>. HIDE DEF g
    <3>. QED BY <2>3, <3>1
  <2>. QED BY <2>1, <2>2, <2>3
<1>2. g = [rank \in 0 .. k + 1 |-> g[rank]]
  OBVIOUS
<1>. HIDE DEF g
<1>. QED BY <1>1, <1>2

\* So there is one with any number of ranks.
LEMMA RanksExist ==
  ASSUME NEW cs, NEW k \in Nat
  PROVE  /\ \E f : f = [rank \in 0 .. k |-> f[rank]] /\ \A rank \in 0 .. k : f[rank] = ValueLevel(rank, f[rank - 1], cs)
         /\ \E f : f = [rank \in 0 .. k |-> f[rank]] /\ \A rank \in 0 .. k : f[rank] = MatchLevel(rank, f[rank - 1], cs)
<1>. DEFINE V(r) == \E f : f = [rank \in 0 .. r |-> f[rank]] /\ \A rank \in 0 .. r : f[rank] = ValueLevel(rank, f[rank - 1], cs)
            M(r) == \E f : f = [rank \in 0 .. r |-> f[rank]] /\ \A rank \in 0 .. r : f[rank] = MatchLevel(rank, f[rank - 1], cs)
            K == {r \in Nat : ~(V(r) /\ M(r))}
<1>1. V(0) /\ M(0)
  <2>. DEFINE v == [rank \in 0 .. 0 |-> ValueLevel(0, 0, cs)]
              m == [rank \in 0 .. 0 |-> MatchLevel(0, 0, cs)]
  <2>1. /\ \A rank \in 0 .. 0 : v[rank] = ValueLevel(rank, v[rank - 1], cs)
        /\ \A rank \in 0 .. 0 : m[rank] = MatchLevel(rank, m[rank - 1], cs)
    BY LevelZero
  <2>2. v = [rank \in 0 .. 0 |-> v[rank]] /\ m = [rank \in 0 .. 0 |-> m[rank]]
    OBVIOUS
  <2>. HIDE DEF v, m
  <2>. QED BY <2>1, <2>2
<1>2. ASSUME NEW r \in Nat, V(r) /\ M(r) PROVE V(r + 1) /\ M(r + 1)
  <2>1. V(r + 1)
    <3>1. PICK f : \A rank \in 0 .. r : f[rank] = ValueLevel(rank, f[rank - 1], cs)
      BY <1>2
    <3>2. PICK g : g = [rank \in 0 .. r + 1 |-> g[rank]]
                   /\ \A rank \in 0 .. r + 1 : g[rank] = ValueLevel(rank, g[rank - 1], cs)
      <4>. HIDE DEF M, V, K
      <4>1. r \in Nat
        OBVIOUS
      <4>2. \A j \in Nat : \A h : (\A rank \in 0 .. j : h[rank] = ValueLevel(rank, h[rank - 1], cs)) =>
              \E g : g = [rank \in 0 .. j + 1 |-> g[rank]] /\ \A rank \in 0 .. j + 1 : g[rank] = ValueLevel(rank, g[rank - 1], cs)
        BY ValuesOn
      <4>. QED BY <3>1, <4>1, <4>2
    <3>. QED BY <3>2, Zenon
  <2>2. M(r + 1)
    BY <1>2, MatchesOn
  <2>. QED BY <2>1, <2>2
<1>. HIDE DEF V, M
<1>3. K = {}
  <2>. SUFFICES ASSUME K # {} PROVE FALSE
    OBVIOUS
  <2>1. PICK r \in K : \A j \in K : r <= j
    <3>1. K \in SUBSET Nat
      OBVIOUS
    <3>. HIDE DEF K
    <3>. QED BY <3>1, LeastNumber
  <2>2. r \in Nat /\ r # 0 /\ ~(V(r) /\ M(r))
    BY <1>1
  <2>3. r - 1 \in Nat /\ r - 1 \notin K /\ (r - 1) + 1 = r
    BY <2>1, <2>2
  <2>4. V((r - 1) + 1) /\ M((r - 1) + 1)
    BY <1>2, <2>3
  <2>. QED BY <2>2, <2>3, <2>4
<1>4. V(k) /\ M(k)
  BY <1>3
<1>. QED BY <1>4 DEF V, M

\* Value and Compare are the first of such ranks.
LEMMA ValueIs ==
  ASSUME NEW cs
  PROVE  \E f : /\ \A rank \in 0 .. Cardinality(Nodes) : f[rank] = ValueLevel(rank, f[rank - 1], cs)
                /\ \A a : Value(a, cs) = f[Cardinality(Nodes)][a]
<1>. DEFINE k == Cardinality(Nodes)
            f == CHOOSE f : ValuesTo(Cardinality(Nodes), cs, f)
<1>1. k \in Nat
  BY FS_CardinalityType, TreeAssumption
<1>2. \E g : ValuesTo(k, cs, g)
  <2>. HIDE DEF k
  <2>1. PICK g : g = [rank \in 0 .. k |-> g[rank]] /\ \A rank \in 0 .. k : g[rank] = ValueLevel(rank, g[rank - 1], cs)
    BY <1>1, RanksExist
  <2>2. g = [rank \in 0 .. k |-> ValueLevel(rank, g[rank - 1], cs)]
    BY <2>1
  <2>. QED BY <2>2 DEF ValuesTo, ValueLevel
<1>3. ValuesTo(Cardinality(Nodes), cs, f)
  <2>. HIDE DEF ValuesTo
  <2>. QED BY <1>2, Zenon
<1>4. \A a : Value(a, cs) = f[Cardinality(Nodes)][a]
  BY Zenon DEF Value, ValuesTo
<1>. HIDE DEF f
<1>5. \A rank \in 0 .. Cardinality(Nodes) : f[rank] = ValueLevel(rank, f[rank - 1], cs)
  BY <1>3, Zenon DEF ValuesTo, ValueLevel
<1>. QED BY <1>4, <1>5

\* The ranks of Compare.
LEMMA CompareIs ==
  ASSUME NEW cs
  PROVE  \E f : /\ \A rank \in 0 .. Cardinality(Nodes) : f[rank] = MatchLevel(rank, f[rank - 1], cs)
                /\ \A a, b : Compare(a, b, cs) = f[Cardinality(Nodes)][a][b]
<1>. DEFINE k == Cardinality(Nodes)
            f == CHOOSE f : MatchesTo(Cardinality(Nodes), cs, f)
<1>1. k \in Nat
  BY FS_CardinalityType, TreeAssumption
<1>2. \E g : MatchesTo(k, cs, g)
  <2>. HIDE DEF k
  <2>1. PICK g : g = [rank \in 0 .. k |-> g[rank]] /\ \A rank \in 0 .. k : g[rank] = MatchLevel(rank, g[rank - 1], cs)
    BY <1>1, RanksExist
  <2>2. g = [rank \in 0 .. k |-> MatchLevel(rank, g[rank - 1], cs)]
    BY <2>1
  <2>. QED BY <2>2, Zenon DEF MatchesTo, MatchLevel
<1>3. MatchesTo(Cardinality(Nodes), cs, f)
  <2>. HIDE DEF MatchesTo
  <2>. QED BY <1>2, Zenon
<1>4. \A a, b : Compare(a, b, cs) = f[Cardinality(Nodes)][a][b]
  BY Zenon DEF Compare, MatchesTo
<1>. HIDE DEF f
<1>5. \A rank \in 0 .. Cardinality(Nodes) : f[rank] = MatchLevel(rank, f[rank - 1], cs)
  BY <1>3, Zenon DEF MatchesTo, MatchLevel
<1>. QED BY <1>4, <1>5

\* ArrayList meets the items of the list that n shows, each of them once.
LEMMA ItemListIs ==
  ASSUME JsonInv, NEW n \in live
  PROVE  /\ ListOf(ArrayList(n), child[n], next) /\ Len(ArrayList(n)) \in Nat
         /\ \A i, j \in 1 .. Len(ArrayList(n)) : ArrayList(n)[i] = ArrayList(n)[j] => i = j
         /\ \A i \in 1 .. Len(ArrayList(n)) : ArrayList(n)[i] \in ArrayItems(n)
         /\ \A x \in ArrayItems(n) : \E i \in 1 .. Len(ArrayList(n)) : x = ArrayList(n)[i]
<1>. DEFINE q == ShowsNow[n]
            s == KidsNow[q]
<1>1. /\ Forest(live, next, prev, child, owner, target) /\ live \subseteq Nodes /\ Null \notin Nodes
      /\ next \in [Nodes -> Nodes \cup {Null}] /\ KidsNow = KidsOf(live, next, child, target)
  BY LinksTyped, InvNow, KidsNowAre
<1>2. q \in live /\ ListOf(s, child[n], next)
  <2>1. n \in Shown(n)
    BY InvNow, ShownIs
  <2>. QED BY <2>1, ShownList
<1>3. ArrayList(n) = s
  <2>1. ArrayList(n) = Walk(child[n], next)
    BY Zenon DEF ArrayList, Walk
  <2>2. Walk(child[n], next) = s
    BY <1>1, <1>2, WalkIs
  <2>. QED BY <2>1, <2>2
<1>4. OwnList(s, q, live, owner)
  BY <1>1, <1>2, KidsAre
<1>5. \A x \in live : x \in ArrayItems(n) <=> owner[x] = q
  <2>1. \A x \in live : x \in ArrayItems(n) <=> owner[x] # Null /\ Shows(n, x, owner, target)
    BY InvNow, ItemsAre
  <2>2. \A x \in live : owner[x] # Null /\ Shows(n, x, owner, target) <=> owner[x] = q
    BY <1>1 DEF Shows, ShowsNow, Forest, References, Typed
  <2>. QED BY <2>1, <2>2
<1>6. ArrayItems(n) \subseteq live
  BY InvNow, ItemsAre
<1>. HIDE DEF q, s
<1>7. /\ Len(s) \in Nat /\ \A i \in 1 .. Len(s) : s[i] \in live /\ owner[s[i]] = q
      /\ \A i, j \in 1 .. Len(s) : s[i] = s[j] => i = j
      /\ \A x \in live : owner[x] = q => \E i \in 1 .. Len(s) : x = s[i]
  BY <1>4 DEF OwnList
<1>. QED BY <1>2, <1>3, <1>5, <1>6, <1>7

\* From an item one sees less than from what shows it.
LEMMA ItemShowsLess ==
  ASSUME JsonInv, NEW n \in live, NEW x \in ArrayItems(n)
  PROVE  x \in live /\ Shown(x) \subseteq Shown(n) /\ Cardinality(Shown(x)) < Cardinality(Shown(n))
<1>1. x \in live /\ owner[x] # Null /\ Shows(n, x, owner, target)
  BY InvNow, ItemsAre
<1>2. n \in Shown(n) /\ x \in Shown(n) /\ Shown(n) \subseteq live
  BY <1>1, InvNow, ShownIs
<1>3. Shown(x) \subseteq Shown(n)
  <2>. DEFINE C == Shown(x) \ Shown(n)
  <2>1. C \in SUBSET live
    BY <1>1, InvNow, ShownIs
  <2>2. ASSUME NEW y \in C PROVE owner[y] # Null /\ \E q \in C : Shows(q, y, owner, target)
    <3>1. y # x /\ y \in live
      BY <1>2, <2>1
    <3>2. owner[y] # Null /\ \E q \in Shown(x) : Shows(q, y, owner, target)
      BY <1>1, <3>1, InvNow, ShownIs
    <3>3. \A q \in Shown(n) : ~Shows(q, y, owner, target)
      BY <3>1, <3>2, InvNow, ShownIs
    <3>. QED BY <3>2, <3>3
  <2>3. NoCycle(live, owner, target)
    BY InvNow DEF Forest
  <2>4. C = {}
    <3>. HIDE DEF C
    <3>. QED BY <2>1, <2>2, <2>3 DEF NoCycle
  <2>. QED BY <2>4
<1>4. n \notin Shown(x)
  BY <1>1, InvNow, ShownIs
<1>5. IsFiniteSet(Shown(n))
  BY <1>2, InvNow, TreeAssumption, FS_Subset
<1>6. Shown(x) # Shown(n)
  BY <1>2, <1>4
<1>7. Cardinality(Shown(x)) <= Cardinality(Shown(n)) /\ Cardinality(Shown(x)) # Cardinality(Shown(n))
  BY <1>3, <1>5, <1>6, FS_Subset
<1>8. Cardinality(Shown(x)) \in Nat /\ Cardinality(Shown(n)) \in Nat
  BY <1>3, <1>5, FS_Subset, FS_CardinalityType
<1>. QED BY <1>1, <1>3, <1>7, <1>8

\* The keys of p, if it is an object.
KeysAt(p, cs) ==
  \A m \in ArrayItems(p) : /\ data[m].name # NoName
                           /\ \A n \in ArrayItems(p) \ {m} : ~IsNamed(n, data[m].name, cs)

\* If they differ, get_object_item finds every item of the name it is given.
LEMMA ObjectItemIs ==
  ASSUME JsonInv, NEW p \in live, NEW cs \in BOOLEAN, KeysAt(p, cs), NEW name, NEW z \in ArrayItems(p)
  PROVE  z \in ObjectItem(p, name, cs) <=> IsNamed(z, name, cs)
<1>. DEFINE passed(n) == ~IsNamed(n, name, cs) /\ (cs => data[n].name # NoName)
            few == [n \in Nodes |-> IF passed(n) THEN NonNull(next[n]) ELSE {}]
            F == Reached(NonNull(child[p]), few)
            s == ArrayList(p)
<1>1. ObjectItem(p, name, cs) = {n \in F : IsNamed(n, name, cs)}
  BY DEF ObjectItem
<1>2. SUFFICES ASSUME IsNamed(z, name, cs) PROVE z \in F
  BY <1>1
<1>3. \A n \in ArrayItems(p) : n # z => passed(n)
  <2>. SUFFICES ASSUME NEW n \in ArrayItems(p), n # z PROVE passed(n)
    OBVIOUS
  <2>1. data[n].name # NoName /\ ~IsNamed(n, data[z].name, cs)
    BY DEF KeysAt
  <2>. QED BY <1>2, <2>1 DEF IsNamed
<1>4. /\ live \subseteq Nodes /\ next \in [Nodes -> live \cup {Null}] /\ child \in [Nodes -> live \cup {Null}]
      /\ Null \notin Nodes
  BY InvNow, LinksTyped
<1>5. NonNull(child[p]) \in SUBSET Nodes /\ few \in [Nodes -> SUBSET Nodes]
  BY <1>4 DEF NonNull
<1>6. NonNull(child[p]) \subseteq F /\ \A m \in F : few[m] \subseteq F
  BY <1>5, ReachedClosed
<1>7. \A m \in F \cap ArrayItems(p) : m # z /\ next[m] # Null => next[m] \in F
  <2>. SUFFICES ASSUME NEW m \in F \cap ArrayItems(p), m # z, next[m] # Null PROVE next[m] \in F
    OBVIOUS
  <2>1. m \in Nodes
    BY <1>4, InvNow, ItemsAre
  <2>2. few[m] = NonNull(next[m])
    BY <1>3, <2>1
  <2>. QED BY <1>6, <2>2 DEF NonNull
<1>8. /\ s \in Seq(Nodes) /\ Len(s) \in Nat /\ child[p] = IF Len(s) = 0 THEN Null ELSE s[1]
      /\ \A i \in 1 .. Len(s) : next[s[i]] = IF i = Len(s) THEN Null ELSE s[i + 1]
      /\ \A i, j \in 1 .. Len(s) : s[i] = s[j] => i = j
      /\ \A i \in 1 .. Len(s) : s[i] \in ArrayItems(p) /\ s[i] \in Nodes
      /\ \E i \in 1 .. Len(s) : z = s[i]
  BY ItemListIs DEF ListOf
<1>9. child[p] # Null => child[p] \in F
  BY <1>6 DEF NonNull
<1>. HIDE DEF F, s, passed
<1>10. PICK i \in 1 .. Len(s) : z = s[i]
  BY <1>8
<1>. DEFINE K == {j \in 1 .. i : s[j] \notin F}
<1>11. K = {}
  <2>. SUFFICES ASSUME K # {} PROVE FALSE
    OBVIOUS
  <2>1. PICK j \in K : \A k \in K : j <= k
    <3>1. K \in SUBSET Nat
      BY <1>10
    <3>. HIDE DEF K
    <3>. QED BY <3>1, LeastNumber
  <2>2. j \in 1 .. i /\ s[j] \notin F /\ i \in Nat /\ i <= Len(s)
    BY <1>8, <1>10
  <2>3. j # 1
    BY <1>4, <1>8, <1>9, <2>2
  <2>4. j - 1 \in 1 .. i /\ j - 1 \notin K /\ j - 1 # i /\ (j - 1) + 1 = j /\ j - 1 # Len(s) /\ j - 1 \in 1 .. Len(s) /\ j \in 1 .. Len(s)
    BY <1>8, <2>1, <2>2, <2>3
  <2>5. s[j - 1] \in F /\ s[j - 1] # z /\ s[j - 1] \in ArrayItems(p) /\ next[s[j - 1]] = s[j] /\ s[j] # Null
    BY <1>4, <1>8, <1>10, <2>4
  <2>. QED BY <1>7, <2>2, <2>5
<1>. QED BY <1>10, <1>11

\* The key cJSON_Compare finds m by.
Key(m, cs) == IF cs THEN data[m].name ELSE Lower[data[m].name]

ValuesOf(v, s) == [i \in DOMAIN s |-> v[s[i]]]
PairsOf(v, s, cs) == {<<Key(s[i], cs), ValuesOf(v, s)[i]>> : i \in DOMAIN s}

\* What Valued gives for each kind.
LEMMA ValuedIs ==
  ASSUME NEW v, NEW n, NEW cs
  PROVE  /\ data[n].kind \in Scalars => Valued(v, n, cs) = <<data[n].kind>>
         /\ data[n].kind = "Array" => Valued(v, n, cs) = <<"Array", ValuesOf(v, ArrayList(n))>>
         /\ data[n].kind = "Object" => Valued(v, n, cs) = <<"Object", PairsOf(v, ArrayList(n), cs)>>
<1>1. data[n].kind \in Scalars => data[n].kind # "Array" /\ data[n].kind # "Object"
  BY TreeAssumption
<1>2. "Object" # "Array"
  OBVIOUS
<1>3. data[n].kind \in Scalars => Valued(v, n, cs) = <<data[n].kind>>
  BY <1>1, Zenon DEF Valued
<1>4. data[n].kind = "Array" => Valued(v, n, cs) = <<"Array", ValuesOf(v, ArrayList(n))>>
  BY <1>1, Zenon DEF Valued, ValuesOf
<1>5. data[n].kind = "Object" => Valued(v, n, cs) = <<"Object", PairsOf(v, ArrayList(n), cs)>>
  BY <1>1, <1>2, Zenon DEF Valued, PairsOf, ValuesOf, Key
<1>. QED BY <1>3, <1>4, <1>5

\* same tells whether an item of X and one of Y have the same value v.
Telling(same, v, X, Y) == \A m \in X, n \in Y : same[m][n] <=> v[m] = v[n]

\* The walk over the items of an object finds an equal one for each, in the other one, if each
\* key with its value is one of the other's.
Within(same, x, y, cs) ==
  \A i \in DOMAIN ArrayList(x) :
    /\ data[ArrayList(x)[i]].name # NoName
    /\ \E n \in ObjectItem(y, data[ArrayList(x)[i]].name, cs) : same[ArrayList(x)[i]][n]

\* It is so if same tells which items have the same value.
LEMMA WithinIs ==
  ASSUME JsonInv, NEW x \in live, NEW y \in live, NEW cs \in BOOLEAN, KeysAt(x, cs), KeysAt(y, cs),
         NEW same, NEW v, Telling(same, v, ArrayItems(x), ArrayItems(y))
  PROVE  Within(same, x, y, cs) <=> PairsOf(v, ArrayList(x), cs) \subseteq PairsOf(v, ArrayList(y), cs)
<1>. DEFINE s == ArrayList(x)
            t == ArrayList(y)
<1>1. /\ Len(s) \in Nat /\ DOMAIN s = 1 .. Len(s) /\ \A i \in DOMAIN s : s[i] \in ArrayItems(x)
      /\ Len(t) \in Nat /\ DOMAIN t = 1 .. Len(t) /\ \A j \in DOMAIN t : t[j] \in ArrayItems(y)
      /\ \A z \in ArrayItems(y) : \E j \in DOMAIN t : z = t[j]
  <2>1. s \in Seq(Nodes) /\ t \in Seq(Nodes)
    BY ItemListIs DEF ListOf
  <2>2. /\ Len(s) \in Nat /\ \A i \in 1 .. Len(s) : s[i] \in ArrayItems(x)
        /\ Len(t) \in Nat /\ \A j \in 1 .. Len(t) : t[j] \in ArrayItems(y)
        /\ \A z \in ArrayItems(y) : \E j \in 1 .. Len(t) : z = t[j]
    BY ItemListIs
  <2>. HIDE DEF s, t
  <2>. QED BY <2>1, <2>2
<1>2. \A e : e \in PairsOf(v, s, cs) <=> \E i \in DOMAIN s : e = <<Key(s[i], cs), v[s[i]]>>
  BY DEF PairsOf, ValuesOf
<1>3. \A e : e \in PairsOf(v, t, cs) <=> \E j \in DOMAIN t : e = <<Key(t[j], cs), v[t[j]]>>
  BY DEF PairsOf, ValuesOf
<1>4. Within(same, x, y, cs) <=>
        \A i \in DOMAIN s : data[s[i]].name # NoName /\ \E n \in ObjectItem(y, data[s[i]].name, cs) : same[s[i]][n]
  BY DEF Within
<1>5. PairsOf(v, s, cs) \subseteq PairsOf(v, t, cs) <=>
        \A i \in DOMAIN s : \E j \in DOMAIN t : Key(s[i], cs) = Key(t[j], cs) /\ v[s[i]] = v[t[j]]
  <2>. DEFINE A == PairsOf(v, s, cs)
              B == PairsOf(v, t, cs)
              a(i) == <<Key(s[i], cs), v[s[i]]>>
              b(j) == <<Key(t[j], cs), v[t[j]]>>
  <2>1. A \subseteq B <=> \A i \in DOMAIN s : \E j \in DOMAIN t : a(i) = b(j)
    <3>1. (\A e : e \in A <=> \E i \in DOMAIN s : e = a(i)) /\ (\A e : e \in B <=> \E j \in DOMAIN t : e = b(j))
      BY <1>2, <1>3
    <3>. HIDE DEF A, B, a, b, s, t
    <3>. QED BY <3>1, Zenon
  <2>2. \A i, j : a(i) = b(j) <=> Key(s[i], cs) = Key(t[j], cs) /\ v[s[i]] = v[t[j]]
    <3>. HIDE DEF s, t
    <3>. QED OBVIOUS
  <2>. HIDE DEF a, b, s, t
  <2>. QED BY <2>1, <2>2
<1>6. \A m \in ArrayItems(x) : data[m].name # NoName
  BY DEF KeysAt
<1>7. \A m \in ArrayItems(x), z \in ArrayItems(y) : z \in ObjectItem(y, data[m].name, cs) <=> Key(m, cs) = Key(z, cs)
  <2>. SUFFICES ASSUME NEW m \in ArrayItems(x), NEW z \in ArrayItems(y)
                PROVE  z \in ObjectItem(y, data[m].name, cs) <=> Key(m, cs) = Key(z, cs)
    OBVIOUS
  <2>1. z \in ObjectItem(y, data[m].name, cs) <=> IsNamed(z, data[m].name, cs)
    BY ObjectItemIs
  <2>2. data[z].name # NoName
    BY DEF KeysAt
  <2>. QED BY <2>1, <2>2 DEF IsNamed, Key
<1>8. \A m \in ArrayItems(x) : ObjectItem(y, data[m].name, cs) \subseteq ArrayItems(y)
  BY ObjectItemIsItem, InvNow
<1>. HIDE DEF s, t
<1>9. ASSUME NEW i \in DOMAIN s
      PROVE  (data[s[i]].name # NoName /\ \E n \in ObjectItem(y, data[s[i]].name, cs) : same[s[i]][n])
             <=> \E j \in DOMAIN t : Key(s[i], cs) = Key(t[j], cs) /\ v[s[i]] = v[t[j]]
  <2>. DEFINE m == s[i]
  <2>1. m \in ArrayItems(x)
    BY <1>1
  <2>. HIDE DEF m
  <2>2. (\E n \in ObjectItem(y, data[m].name, cs) : same[m][n])
        <=> \E n \in ArrayItems(y) : Key(m, cs) = Key(n, cs) /\ v[m] = v[n]
    BY <1>7, <1>8, <2>1 DEF Telling
  <2>3. (\E n \in ArrayItems(y) : Key(m, cs) = Key(n, cs) /\ v[m] = v[n])
        <=> \E j \in DOMAIN t : Key(m, cs) = Key(t[j], cs) /\ v[m] = v[t[j]]
    BY <1>1
  <2>. QED BY <1>6, <2>1, <2>2, <2>3 DEF m
<1>. QED BY <1>4, <1>5, <1>9 DEF s, t

\* So cJSON_Compare finds x and y equal if their values are.
LEMMA MatchIs ==
  ASSUME JsonInv, NEW x \in live, NEW y \in live, NEW cs \in BOOLEAN,
         data[x].kind = "Object" => KeysAt(x, cs), data[y].kind = "Object" => KeysAt(y, cs),
         NEW same, NEW v,
         Telling(same, v, ArrayItems(x), ArrayItems(y)), Telling(same, v, ArrayItems(y), ArrayItems(x))
  PROVE  Matches(same, x, y, cs) <=> Valued(v, x, cs) = Valued(v, y, cs)
<1>. DEFINE s == ArrayList(x)
            t == ArrayList(y)
<1>1. Matches(same, x, y, cs) <=>
        /\ data[x].kind = data[y].kind
        /\ \/ x = y
           \/ data[x].kind \in Scalars
           \/ data[x].kind = "Array" /\ Len(s) = Len(t) /\ \A i \in DOMAIN s : same[s[i]][t[i]]
           \/ data[x].kind = "Object" /\ Within(same, x, y, cs) /\ Within(same, y, x, cs)
  BY Zenon DEF Matches, Within
<1>2. data[x].kind \in Kinds /\ data[y].kind \in Kinds /\ Scalars \cap {"Array", "Object"} = {}
  BY InvNow, TreeAssumption DEF Datum
<1>3. /\ Len(s) \in Nat /\ DOMAIN s = 1 .. Len(s) /\ \A i \in DOMAIN s : s[i] \in ArrayItems(x)
      /\ Len(t) \in Nat /\ DOMAIN t = 1 .. Len(t) /\ \A j \in DOMAIN t : t[j] \in ArrayItems(y)
  <2>1. s \in Seq(Nodes) /\ t \in Seq(Nodes)
    BY ItemListIs DEF ListOf
  <2>2. /\ Len(s) \in Nat /\ \A i \in 1 .. Len(s) : s[i] \in ArrayItems(x)
        /\ Len(t) \in Nat /\ \A j \in 1 .. Len(t) : t[j] \in ArrayItems(y)
    BY ItemListIs
  <2>. HIDE DEF s, t
  <2>. QED BY <2>1, <2>2
<1>. HIDE DEF s, t
<1>4. CASE x = y
  BY <1>1, <1>4
<1>5. CASE x # y /\ data[x].kind # data[y].kind
  <2>1. \A a \in {x, y} : /\ data[a].kind \in Scalars => Valued(v, a, cs) = <<data[a].kind>>
                          /\ data[a].kind = "Array" => \E b : Valued(v, a, cs) = <<"Array", b>>
                          /\ data[a].kind = "Object" => \E b : Valued(v, a, cs) = <<"Object", b>>
    BY ValuedIs
  <2>. DEFINE X == Valued(v, x, cs)
              Y == Valued(v, y, cs)
  <2>2. X # Y
    <3>. HIDE DEF X, Y
    <3>1. \/ X = <<data[x].kind>> /\ data[x].kind \in Scalars
          \/ data[x].kind \in {"Array", "Object"} /\ \E b : X = <<data[x].kind, b>>
      BY <1>2, <2>1 DEF Kinds, X
    <3>2. \/ Y = <<data[y].kind>> /\ data[y].kind \in Scalars
          \/ data[y].kind \in {"Array", "Object"} /\ \E b : Y = <<data[y].kind, b>>
      BY <1>2, <2>1 DEF Kinds, Y
    <3>3. X[1] = data[x].kind /\ Y[1] = data[y].kind
      BY <3>1, <3>2
    <3>. QED BY <1>5, <3>3
  <2>. QED BY <1>1, <1>5, <2>2
<1>6. CASE x # y /\ data[x].kind = data[y].kind /\ data[x].kind \in Scalars
  BY <1>1, <1>6, ValuedIs
<1>7. CASE x # y /\ data[x].kind = data[y].kind /\ data[x].kind = "Array"
  <2>1. Matches(same, x, y, cs) <=> Len(s) = Len(t) /\ \A i \in DOMAIN s : same[s[i]][t[i]]
    BY <1>1, <1>2, <1>7
  <2>2. Valued(v, x, cs) = <<"Array", ValuesOf(v, s)>> /\ Valued(v, y, cs) = <<"Array", ValuesOf(v, t)>>
    BY <1>7, ValuedIs DEF s, t
  <2>3. Valued(v, x, cs) = Valued(v, y, cs) <=> ValuesOf(v, s) = ValuesOf(v, t)
    BY <2>2
  <2>4. ValuesOf(v, s) = ValuesOf(v, t) <=> DOMAIN s = DOMAIN t /\ \A i \in DOMAIN s : v[s[i]] = v[t[i]]
    BY DEF ValuesOf
  <2>5. DOMAIN s = DOMAIN t <=> Len(s) = Len(t)
    <3>1. \A i, j \in Nat : 1 .. i = 1 .. j => i = j
      <4>. SUFFICES ASSUME NEW i \in Nat, NEW j \in Nat, 1 .. i = 1 .. j PROVE i = j
        OBVIOUS
      <4>1. (i # 0 => i \in 1 .. j) /\ (j # 0 => j \in 1 .. i)
        OBVIOUS
      <4>. QED BY <4>1
    <3>2. Len(s) \in Nat /\ Len(t) \in Nat /\ DOMAIN s = 1 .. Len(s) /\ DOMAIN t = 1 .. Len(t)
      BY <1>3
    <3>. QED BY <3>1, <3>2
  <2>6. Len(s) = Len(t) => \A i \in DOMAIN s : same[s[i]][t[i]] <=> v[s[i]] = v[t[i]]
    <3>. SUFFICES ASSUME Len(s) = Len(t), NEW i \in DOMAIN s PROVE same[s[i]][t[i]] <=> v[s[i]] = v[t[i]]
      OBVIOUS
    <3>1. s[i] \in ArrayItems(x) /\ t[i] \in ArrayItems(y)
      BY <1>3
    <3>. QED BY <3>1 DEF Telling
  <2>. QED BY <2>1, <2>3, <2>4, <2>5, <2>6
<1>8. CASE x # y /\ data[x].kind = data[y].kind /\ data[x].kind = "Object"
  <2>1. Matches(same, x, y, cs) <=> Within(same, x, y, cs) /\ Within(same, y, x, cs)
    BY <1>1, <1>2, <1>8
  <2>2. Within(same, x, y, cs) <=> PairsOf(v, s, cs) \subseteq PairsOf(v, t, cs)
    BY <1>8, WithinIs DEF s, t
  <2>3. Within(same, y, x, cs) <=> PairsOf(v, t, cs) \subseteq PairsOf(v, s, cs)
    BY <1>8, WithinIs DEF s, t
  <2>4. Valued(v, x, cs) = <<"Object", PairsOf(v, s, cs)>> /\ Valued(v, y, cs) = <<"Object", PairsOf(v, t, cs)>>
    BY <1>8, ValuedIs DEF s, t
  <2>5. Valued(v, x, cs) = Valued(v, y, cs) <=> PairsOf(v, s, cs) = PairsOf(v, t, cs)
    BY <2>4
  <2>6. PairsOf(v, s, cs) = PairsOf(v, t, cs) <=>
          PairsOf(v, s, cs) \subseteq PairsOf(v, t, cs) /\ PairsOf(v, t, cs) \subseteq PairsOf(v, s, cs)
    BY Zenon
  <2>. QED BY <2>1, <2>2, <2>3, <2>5, <2>6
<1>. QED BY <1>2, <1>4, <1>5, <1>6, <1>7, <1>8 DEF Kinds

\* val and cmp have the ranks up to k.
ValueRanks(k, val, cs) == \A rank \in 0 .. k : val[rank] = ValueLevel(rank, val[rank - 1], cs)
MatchRanks(k, cmp, cs) == \A rank \in 0 .. k : cmp[rank] = MatchLevel(rank, cmp[rank - 1], cs)

\* Two ranks below which every item is met in fewer steps tell the same.
LEMMA RankTells ==
  ASSUME JsonInv, NEW cs \in BOOLEAN, NEW k \in Nat, NEW val, NEW cmp,
         ValueRanks(k, val, cs), MatchRanks(k, cmp, cs)
  PROVE  \A a, b \in live : /\ Cardinality(Shown(a)) <= k /\ Cardinality(Shown(b)) <= k
                            /\ KeysDiffer(a, cs) /\ KeysDiffer(b, cs)
                            => (cmp[k][a][b] <=> val[k][a] = val[k][b])
<1>. DEFINE Near(r, a) == a \in live /\ Cardinality(Shown(a)) <= r /\ KeysDiffer(a, cs)
            P(r) == \A a, b : Near(r, a) /\ Near(r, b) => (cmp[r][a][b] <=> val[r][a] = val[r][b])
            K == {r \in 0 .. k : ~P(r)}
<1>1. ASSUME NEW a \in live PROVE Cardinality(Shown(a)) \in Nat /\ Cardinality(Shown(a)) # 0 /\ a \in Nodes
  <2>1. a \in Shown(a) /\ Shown(a) \subseteq live /\ live \subseteq Nodes
    BY InvNow, ShownIs
  <2>2. IsFiniteSet(Shown(a))
    BY <2>1, TreeAssumption, FS_Subset
  <2>. QED BY <2>1, <2>2, FS_CardinalityType, FS_EmptySet
<1>2. P(0)
  BY <1>1
<1>3. ASSUME NEW r \in 0 .. k, r # 0, P(r - 1) PROVE P(r)
  <2>. SUFFICES ASSUME NEW a, NEW b, Near(r, a), Near(r, b) PROVE cmp[r][a][b] <=> val[r][a] = val[r][b]
    OBVIOUS
  <2>1. ASSUME NEW n, Near(r, n), NEW x \in ArrayItems(n) PROVE Near(r - 1, x)
    <3>1. x \in live /\ Shown(x) \subseteq Shown(n) /\ Cardinality(Shown(x)) < Cardinality(Shown(n))
      BY <2>1, ItemShowsLess
    <3>2. Cardinality(Shown(x)) <= r - 1
      BY <1>1, <2>1, <3>1
    <3>3. KeysDiffer(x, cs)
      BY <2>1, <3>1 DEF KeysDiffer
    <3>. QED BY <3>1, <3>2, <3>3
  <2>2. ASSUME NEW n, Near(r, n) PROVE data[n].kind = "Object" => KeysAt(n, cs)
    <3>1. n \in Shown(n)
      BY <2>2, InvNow, ShownIs
    <3>. QED BY <2>2, <3>1 DEF KeysDiffer, KeysAt
  <2>. DEFINE same == cmp[r - 1]
              v == val[r - 1]
  <2>3. Telling(same, v, ArrayItems(a), ArrayItems(b)) /\ Telling(same, v, ArrayItems(b), ArrayItems(a))
    <3>1. ASSUME NEW x, Near(r, x), NEW y, Near(r, y), NEW m \in ArrayItems(x), NEW n \in ArrayItems(y)
          PROVE  same[m][n] <=> v[m] = v[n]
      <4>1. Near(r - 1, m) /\ Near(r - 1, n)
        BY <2>1, <3>1
      <4>. HIDE DEF Near
      <4>. QED BY <1>3, <4>1
    <3>. QED BY <3>1 DEF Telling
  <2>. HIDE DEF same, v
  <2>4. Matches(same, a, b, cs) <=> Valued(v, a, cs) = Valued(v, b, cs)
    <3>1. a \in live /\ b \in live
      OBVIOUS
    <3>. HIDE DEF P, Near
    <3>. QED BY <2>2, <2>3, <3>1, MatchIs
  <2>5. a \in Nodes /\ b \in Nodes /\ r > 0
    BY <1>1, <1>3
  <2>6. val[r][a] = Valued(v, a, cs) /\ val[r][b] = Valued(v, b, cs)
    <3>1. val[r] = ValueLevel(r, v, cs)
      BY <1>3 DEF v, ValueRanks
    <3>. QED BY <1>3, <2>5, <3>1 DEF ValueLevel
  <2>7. cmp[r][a][b] = (r > 0 /\ Matches(same, a, b, cs))
    <3>1. cmp[r] = MatchLevel(r, same, cs)
      BY <1>3 DEF same, MatchRanks
    <3>2. MatchLevel(r, same, cs)[a][b] = (r > 0 /\ Matches(same, a, b, cs))
      BY <2>5, Zenon DEF MatchLevel
    <3>. QED BY <3>1, <3>2
  <2>. QED BY <2>4, <2>5, <2>6, <2>7
<1>. HIDE DEF P
<1>4. K = {}
  <2>. SUFFICES ASSUME K # {} PROVE FALSE
    OBVIOUS
  <2>1. PICK r \in K : \A j \in K : r <= j
    <3>1. K \in SUBSET Nat
      OBVIOUS
    <3>. HIDE DEF K
    <3>. QED BY <3>1, LeastNumber
  <2>2. r \in 0 .. k /\ r # 0 /\ ~P(r)
    BY <1>2
  <2>3. r - 1 \in 0 .. k /\ r - 1 \notin K
    BY <2>1, <2>2
  <2>. QED BY <1>3, <2>2, <2>3
<1>5. P(k)
  BY <1>4
<1>. QED BY <1>5 DEF P

\* cJSON_Compare tells, after any calls, whether two items have the same value, provided that
\* the keys of each of their objects differ.
THEOREM ComparedByValue == Spec => []CompareTellsValues
<1>1. JsonInv => CompareTellsValues
  <2>. SUFFICES ASSUME JsonInv, NEW a \in live, NEW b \in live, NEW cs \in BOOLEAN,
                       KeysDiffer(a, cs) /\ KeysDiffer(b, cs)
                PROVE  Compare(a, b, cs) <=> Value(a, cs) = Value(b, cs)
    BY Zenon DEF CompareTellsValues
  <2>. DEFINE k == Cardinality(Nodes)
  <2>1. k \in Nat
    BY FS_CardinalityType, TreeAssumption
  <2>2. \A n \in live : Cardinality(Shown(n)) <= k
    <3>1. \A n \in live : Shown(n) \subseteq Nodes
      BY InvNow, ShownIs
    <3>. QED BY <3>1, TreeAssumption, FS_Subset
  <2>3. PICK val : /\ \A rank \in 0 .. k : val[rank] = ValueLevel(rank, val[rank - 1], cs)
                   /\ \A n : Value(n, cs) = val[k][n]
    BY ValueIs
  <2>4. PICK cmp : /\ \A rank \in 0 .. k : cmp[rank] = MatchLevel(rank, cmp[rank - 1], cs)
                   /\ \A m, n : Compare(m, n, cs) = cmp[k][m][n]
    BY CompareIs
  <2>. HIDE DEF k
  <2>5. cmp[k][a][b] <=> val[k][a] = val[k][b]
    <3>1. ValueRanks(k, val, cs) /\ MatchRanks(k, cmp, cs)
      BY <2>3, <2>4 DEF ValueRanks, MatchRanks
    <3>. QED BY <2>1, <2>2, <3>1, RankTells
  <2>6. Value(a, cs) = val[k][a] /\ Value(b, cs) = val[k][b]
    BY <2>3
  <2>7. Compare(a, b, cs) = cmp[k][a][b]
    BY <2>4
  <2>. QED BY <2>5, <2>6, <2>7
<1>. QED BY <1>1, JsonInvariant, PTL
===============================================================================
