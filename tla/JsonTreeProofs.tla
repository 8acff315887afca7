--------------------------- MODULE JsonTreeProofs ---------------------------
(* What the calls of JsonTree keep, for any number of items, names and values:
   types, links and memory. The pointers are a forest of lists: Forest says so of
   six functions, and there is a lemma for each thing that is done to them.      *)
EXTENDS JsonTree, FiniteSetTheorems, TLAPS

--------------------------------------------------------------------------------
(* The invariant *)

\* The links lead to items that exist, and those of an item that does not are NULL.
Typed(lv, nx, pv, ch, ow, tg) ==
  /\ lv \subseteq Nodes
  /\ nx \in [Nodes -> lv \cup {Null}] /\ pv \in [Nodes -> lv \cup {Null}]
  /\ ch \in [Nodes -> lv \cup {Null}] /\ ow \in [Nodes -> lv \cup {Null}]
  /\ tg \in [Nodes -> lv \cup {Null}]
  /\ \A n \in Nodes \ lv : nx[n] = Null /\ pv[n] = Null /\ ch[n] = Null /\ ow[n] = Null /\ tg[n] = Null

\* A reference shows the list of an item that is none, and owns nothing.
References(lv, ch, ow, tg) ==
  \A n \in lv : /\ tg[n] # Null => tg[tg[n]] = Null /\ ch[n] = ch[tg[n]]
                /\ ow[n] # Null => tg[ow[n]] = Null

\* ListsLinked, and that what has an owner is in a list, with a prev.
LinkedAt(n, nx, pv, ch, ow, tg) ==
  /\ nx[n] # Null => pv[nx[n]] = n /\ ow[nx[n]] = ow[n]
  /\ ow[n] = Null => nx[n] = Null /\ pv[n] = Null
  /\ ow[n] # Null => /\ ch[ow[n]] # Null /\ pv[n] # Null /\ ow[pv[n]] = ow[n]
                     /\ n # ch[ow[n]] => nx[pv[n]] = n
                     /\ n = ch[ow[n]] => nx[pv[n]] = Null
                     /\ nx[n] = Null => pv[ch[ow[n]]] = n
  /\ ch[n] # Null /\ tg[n] = Null => ow[ch[n]] = n

Linked(lv, nx, pv, ch, ow, tg) == \A n \in lv : LinkedAt(n, nx, pv, ch, ow, tg)

\* Following prev one gets to the first item of a list: no set of others is closed under it.
NoLoop(lv, pv, ch, ow) ==
  \A C \in SUBSET lv : (\A x \in C : ow[x] # Null /\ x # ch[ow[x]] /\ pv[x] \in C) => C = {}

\* q shows x in its list, its own or that of the item it refers to.
Shows(q, x, ow, tg) == ow[x] = q \/ ow[x] = tg[q]

\* No item is below itself, through references too.
NoCycle(lv, ow, tg) ==
  \A C \in SUBSET lv : (\A x \in C : ow[x] # Null /\ \E q \in C : Shows(q, x, ow, tg)) => C = {}

Forest(lv, nx, pv, ch, ow, tg) ==
  /\ Typed(lv, nx, pv, ch, ow, tg) /\ References(lv, ch, ow, tg)
  /\ Linked(lv, nx, pv, ch, ow, tg) /\ NoLoop(lv, pv, ch, ow) /\ NoCycle(lv, ow, tg)

--------------------------------------------------------------------------------
(* What one reaches by pointers *)

\* Reached is the least set with the items of start and what its items lead to.
LEMMA ReachedClosed ==
  ASSUME NEW start \in SUBSET Nodes, NEW succ \in [Nodes -> SUBSET Nodes]
  PROVE  /\ start \subseteq Reached(start, succ) /\ Reached(start, succ) \subseteq Nodes
         /\ \A m \in Reached(start, succ) : succ[m] \subseteq Reached(start, succ)
<1>1. start \subseteq Reached(start, succ) /\ Reached(start, succ) \subseteq Nodes
  BY DEF Reached
<1>2. ASSUME NEW m \in Reached(start, succ), NEW x \in succ[m] PROVE x \in Reached(start, succ)
  <2>1. m \in Nodes /\ x \in Nodes
    BY <1>2 DEF Reached
  <2>2. ASSUME NEW S \in SUBSET Nodes, start \subseteq S, \A y \in S : succ[y] \subseteq S
        PROVE  x \in S
    BY <1>2, <2>2 DEF Reached
  <2>. QED BY <2>1, <2>2 DEF Reached
<1>. QED BY <1>1, <1>2

\* No set that has what its items lead to is smaller.
LEMMA ReachedLeast ==
  ASSUME NEW start, NEW succ, NEW S \in SUBSET Nodes, start \subseteq S,
         \A m \in S : succ[m] \subseteq S
  PROVE  Reached(start, succ) \subseteq S
BY DEF Reached

\* X is what one reaches from n, following child from the items of R only.
Below(X, n, R, lv, nx, ch) ==
  LET closed(S) == /\ n \in S
                   /\ \A m \in S : /\ m \in R /\ ch[m] # Null => ch[m] \in S
                                   /\ m # n /\ nx[m] # Null => nx[m] \in S
  IN X \subseteq lv /\ closed(X) /\ \A S \in SUBSET lv : closed(S) => X \subseteq S

\* It is the items that are shown by others of them, and all of those, but not what shows n.
LEMMA BelowIs ==
  ASSUME NEW lv, NEW nx, NEW pv, NEW ch, NEW ow, NEW tg, Forest(lv, nx, pv, ch, ow, tg),
         NEW R \in SUBSET lv, NEW n \in lv, NEW X, Below(X, n, R, lv, nx, ch)
  PROVE  /\ n \in X /\ X \subseteq lv
         /\ \A x \in X \ {n} : ow[x] # Null /\ \E q \in X \cap R : Shows(q, x, ow, tg)
         /\ ow[n] # Null => \A q \in X \cap R : ~Shows(q, n, ow, tg)
         /\ \A q \in X \cap R, x \in lv : ow[x] # Null /\ Shows(q, x, ow, tg) => x \in X
<1>0. n \in X /\ X \subseteq lv /\ lv \subseteq Nodes
  BY DEF Below, Forest, Typed
<1>1. \A x \in X \ {n} : ow[x] # Null /\ \E q \in X \cap R : Shows(q, x, ow, tg)
  <2>. DEFINE S == {n} \cup {x \in X : ow[x] # Null /\ \E q \in X \cap R : Shows(q, x, ow, tg)}
  <2>1. \A m \in S : /\ m \in R /\ ch[m] # Null => ch[m] \in S
                     /\ m # n /\ nx[m] # Null => nx[m] \in S
    <3>. SUFFICES ASSUME NEW m \in S PROVE /\ m \in R /\ ch[m] # Null => ch[m] \in S
                                           /\ m # n /\ nx[m] # Null => nx[m] \in S
      OBVIOUS
    <3>1. m \in X /\ m \in Nodes
      BY <1>0
    <3>2. ASSUME m \in R, ch[m] # Null PROVE ch[m] \in S
      <4>1. ch[m] \in X
        BY <3>1, <3>2 DEF Below
      <4>2. CASE tg[m] = Null
        <5>1. ow[ch[m]] = m /\ m # Null
          BY <3>1, <3>2, <4>2, <1>0, TreeAssumption DEF Forest, Linked, LinkedAt
        <5>. QED BY <4>1, <5>1, <3>1, <3>2 DEF Shows
      <4>3. CASE tg[m] # Null
        <5>1. tg[m] \in lv /\ tg[tg[m]] = Null /\ ch[m] = ch[tg[m]]
          BY <3>1, <4>3, <1>0 DEF Forest, Typed, References
        <5>2. ow[ch[m]] = tg[m]
          BY <5>1, <3>2 DEF Forest, Linked, LinkedAt
        <5>. QED BY <4>1, <4>3, <5>2, <3>1, <3>2 DEF Shows
      <4>. QED BY <4>2, <4>3
    <3>3. ASSUME m # n, nx[m] # Null PROVE nx[m] \in S
      <4>1. nx[m] \in X
        BY <3>1, <3>3 DEF Below
      <4>2. ow[nx[m]] = ow[m]
        BY <3>1, <3>3, <1>0 DEF Forest, Linked, LinkedAt
      <4>. QED BY <4>1, <4>2, <3>3 DEF Shows
    <3>. QED BY <3>2, <3>3
  <2>2. S \in SUBSET lv /\ n \in S
    BY <1>0
  <2>. HIDE DEF S
  <2>3. X \subseteq S
    BY <2>1, <2>2 DEF Below
  <2>. QED BY <2>3 DEF S
<1>2. ow[n] # Null => \A q \in X \cap R : ~Shows(q, n, ow, tg)
  <2>. SUFFICES ASSUME ow[n] # Null, NEW q \in X \cap R, Shows(q, n, ow, tg) PROVE FALSE
    OBVIOUS
  <2>1. \A x \in X : ow[x] # Null /\ \E r \in X : Shows(r, x, ow, tg)
    BY <1>0, <1>1
  <2>. QED BY <1>0, <2>1 DEF Forest, NoCycle
<1>3. ASSUME NEW q \in X \cap R, NEW x \in lv, ow[x] # Null, Shows(q, x, ow, tg) PROVE x \in X
  <2>. DEFINE o == ow[x]
              C == {y \in lv : ow[y] = o /\ y \notin X}
  <2>1. o \in lv /\ ch[o] \in X
    <3>1. o \in lv /\ ch[o] # Null
      BY <1>3, <1>0 DEF Forest, Typed, Linked, LinkedAt
    <3>2. ch[q] = ch[o]
      BY <1>3, <1>0 DEF Shows, Forest, References
    <3>. QED BY <3>1, <3>2, <1>3 DEF Below
  <2>2. ASSUME NEW y \in C PROVE ow[y] # Null /\ y # ch[ow[y]] /\ pv[y] \in C
    <3>1. ow[y] = o /\ o # Null /\ y # ch[o] /\ y \in lv /\ y \notin X
      BY <1>3, <2>1
    <3>2. pv[y] \in lv /\ ow[pv[y]] = o /\ nx[pv[y]] = y
      BY <3>1, <1>0 DEF Forest, Linked, LinkedAt, Typed
    <3>3. pv[y] # n
      <4>1. Shows(q, n, ow, tg) <=> ow[n] = q \/ ow[n] = tg[q]
        BY DEF Shows
      <4>. QED BY <3>1, <3>2, <4>1, <1>2, <1>3 DEF Shows
    <3>4. y # Null
      BY <3>1, <1>0, TreeAssumption
    <3>5. pv[y] \notin X
      BY <3>1, <3>2, <3>3, <3>4 DEF Below
    <3>. QED BY <3>1, <3>2, <3>5
  <2>3. C \in SUBSET lv
    OBVIOUS
  <2>. HIDE DEF C
  <2>4. C = {}
    BY <2>2, <2>3 DEF Forest, NoLoop
  <2>. QED BY <2>4, <1>3 DEF C
<1>. QED BY <1>0, <1>1, <1>2, <1>3

--------------------------------------------------------------------------------
(* Changes of the forest *)

\* The root n of X gets the owner p, which X does not show.
LEMMA CycleAdd ==
  ASSUME NEW lv \in SUBSET Nodes, NEW ow \in [Nodes -> lv \cup {Null}], NEW tg, NoCycle(lv, ow, tg),
         NEW p \in lv, NEW n \in lv, NEW X, n \in X, p \notin X,
         \A q \in X, x \in lv : ow[x] # Null /\ Shows(q, x, ow, tg) => x \in X,
         \A r \in lv : tg[r] # p
  PROVE  NoCycle(lv, [ow EXCEPT ![n] = p], tg)
<1>. DEFINE o == [ow EXCEPT ![n] = p]
<1>. SUFFICES ASSUME NEW C \in SUBSET lv,
                     \A x \in C : o[x] # Null /\ \E q \in C : Shows(q, x, o, tg)
              PROVE  C = {}
  BY DEF NoCycle
<1>1. \A x \in Nodes : o[x] = IF x = n THEN p ELSE ow[x]
  OBVIOUS
<1>. HIDE DEF o
<1>2. CASE n \notin C
  <2>1. \A x \in C : ow[x] # Null /\ \E q \in C : Shows(q, x, ow, tg)
    BY <1>1, <1>2 DEF Shows
  <2>. QED BY <2>1 DEF NoCycle
<1>3. CASE n \in C
  <2>. DEFINE B == C \ X
  <2>1. p \in B
    BY <1>1, <1>3 DEF Shows
  <2>2. ASSUME NEW x \in B PROVE ow[x] # Null /\ \E q \in B : Shows(q, x, ow, tg)
    <3>1. x # n /\ x \in C /\ x \in lv
      OBVIOUS
    <3>2. PICK q \in C : Shows(q, x, ow, tg)
      BY <1>1, <3>1 DEF Shows
    <3>. QED BY <1>1, <3>1, <3>2
  <2>3. B \in SUBSET lv
    OBVIOUS
  <2>. HIDE DEF B
  <2>. QED BY <2>1, <2>2, <2>3 DEF NoCycle
<1>. QED BY <1>2, <1>3

\* add_item_to_array
LEMMA AppendKeeps ==
  ASSUME NEW lv, NEW nx, NEW pv, NEW ch, NEW ow, NEW tg, Forest(lv, nx, pv, ch, ow, tg),
         NEW p \in lv, NEW n \in lv, tg[p] = Null, ow[n] = Null, \A r \in lv : tg[r] # p, n # p,
         NEW X, n \in X, p \notin X,
         \A q \in X, x \in lv : ow[x] # Null /\ Shows(q, x, ow, tg) => x \in X,
         NEW nx1, NEW pv1, NEW ch1,
         \/ /\ ch[p] = Null /\ nx1 = nx
            /\ ch1 = [ch EXCEPT ![p] = n] /\ pv1 = [pv EXCEPT ![n] = n]
         \/ /\ ch[p] # Null /\ ch1 = ch /\ nx1 = [nx EXCEPT ![pv[ch[p]]] = n]
            /\ pv1 = [pv EXCEPT ![n] = pv[ch[p]], ![ch[p]] = n]
  PROVE  Forest(lv, nx1, pv1, ch1, [ow EXCEPT ![n] = p], tg)
<1>. DEFINE ow1 == [ow EXCEPT ![n] = p]
            first == ch[p]
            last == pv[first]
<1>0. /\ lv \subseteq Nodes /\ Null \notin Nodes
      /\ nx \in [Nodes -> lv \cup {Null}] /\ pv \in [Nodes -> lv \cup {Null}]
      /\ ch \in [Nodes -> lv \cup {Null}] /\ ow \in [Nodes -> lv \cup {Null}]
      /\ tg \in [Nodes -> lv \cup {Null}]
  BY TreeAssumption DEF Forest, Typed
<1>1. first # Null => /\ first \in lv /\ ow[first] = p /\ last \in lv /\ ow[last] = p /\ nx[last] = Null
                      /\ first # n /\ last # n
  BY <1>0 DEF Forest, Linked, LinkedAt
<1>2. first = Null => \A x \in lv : ow[x] # p
  BY <1>0 DEF Forest, Linked, LinkedAt
<1>3. nx[n] = Null /\ pv[n] = Null
  BY <1>0 DEF Forest, Linked, LinkedAt
<1>4. Typed(lv, nx1, pv1, ch1, ow1, tg)
  <2>1. CASE first = Null
    BY <1>0, <2>1 DEF Forest, Typed
  <2>2. CASE first # Null
    BY <1>0, <1>1, <2>2 DEF Forest, Typed
  <2>. QED BY <2>1, <2>2
<1>5. References(lv, ch1, ow1, tg)
  BY <1>0 DEF Forest, References
<1>6. Linked(lv, nx1, pv1, ch1, ow1, tg)
  <2>1. CASE first = Null
    BY <1>0, <1>2, <1>3, <2>1 DEF Forest, Linked, LinkedAt
  <2>2. CASE first # Null
    <3>. SUFFICES ASSUME NEW x \in lv PROVE LinkedAt(x, nx1, pv1, ch1, ow1, tg)
      BY DEF Linked
    <3>1. \A y \in Nodes : /\ nx1[y] = IF y = last THEN n ELSE nx[y]
                           /\ pv1[y] = IF y = first THEN n ELSE IF y = n THEN last ELSE pv[y]
                           /\ ch1[y] = ch[y]
                           /\ ow1[y] = IF y = n THEN p ELSE ow[y]
      BY <1>0, <1>1, <2>2
    <3>. HIDE DEF ow1, first, last
    <3>2. LinkedAt(x, nx, pv, ch, ow, tg)
      BY DEF Forest, Linked
    <3>. USE DEF LinkedAt
    <3>3. ch[p] = first /\ pv[first] = last
      BY DEF first, last
    <3>4. nx1[x] # Null => pv1[nx1[x]] = x /\ ow1[nx1[x]] = ow1[x]
      BY <1>0, <1>1, <1>3, <2>2, <3>1, <3>2
    <3>5. CASE x = n
      BY <1>0, <1>1, <1>3, <2>2, <3>1, <3>2, <3>3, <3>4, <3>5
    <3>6. CASE x # n
      <4>1. nx1[x] = Null => nx[x] = Null /\ x # last
        BY <1>0, <1>1, <2>2, <3>1
      <4>2. ow1[x] # Null => ch1[ow1[x]] # Null /\ pv1[x] # Null /\ ow1[pv1[x]] = ow1[x]
        BY <1>0, <1>1, <1>3, <2>2, <3>1, <3>2, <3>6
      <4>3. ow[x] # Null => /\ x # ch[ow[x]] => nx1[pv1[x]] = x
        BY <1>0, <1>1, <1>3, <2>2, <3>1, <3>2, <3>3, <3>6
      <4>4. ow[x] # Null /\ x = ch[ow[x]] => nx1[pv1[x]] = Null
        <5>1. ASSUME ow[x] # Null, x = ch[ow[x]] PROVE nx1[pv1[x]] = Null
          <6>1. CASE x = first
            BY <1>0, <1>1, <1>3, <2>2, <3>1, <6>1
          <6>2. CASE x # first
            BY <1>0, <1>1, <2>2, <3>1, <3>2, <3>3, <3>6, <5>1, <6>2
          <6>. QED BY <6>1, <6>2
        <5>. QED BY <5>1
      <4>5. ASSUME ow[x] # Null, nx1[x] = Null PROVE pv1[ch1[ow[x]]] = x
        <5>1. pv[ch[ow[x]]] = x /\ x # last
          BY <3>2, <4>1, <4>5
        <5>2. ow[x] \in lv /\ ch[ow[x]] \in lv /\ tg[ow[x]] = Null
          BY <1>0, <3>2, <4>5 DEF Forest, References
        <5>3. ow[ch[ow[x]]] = ow[x]
          BY <1>0, <5>2 DEF Forest, Linked, LinkedAt
        <5>. QED BY <1>0, <3>1, <3>3, <4>5, <5>1, <5>2, <5>3
      <4>6. ch1[x] # Null /\ tg[x] = Null => ow1[ch1[x]] = x
        BY <1>0, <1>1, <2>2, <3>1, <3>2, <3>6
      <4>7. ow1[x] = Null => nx1[x] = Null /\ pv1[x] = Null
        BY <1>0, <1>1, <2>2, <3>1, <3>2, <3>6
      <4>8. ow1[x] = ow[x] /\ ch1[ow[x]] = ch[ow[x]]
        BY <1>0, <1>1, <3>1, <3>6 DEF Forest, Linked, LinkedAt
      <4>. QED BY <3>4, <4>2, <4>3, <4>4, <4>5, <4>6, <4>7, <4>8
    <3>. QED BY <3>5, <3>6
  <2>. QED BY <2>1, <2>2
<1>7. NoLoop(lv, pv1, ch1, ow1)
  <2>. SUFFICES ASSUME NEW C \in SUBSET lv, \A x \in C : ow1[x] # Null /\ x # ch1[ow1[x]] /\ pv1[x] \in C
                PROVE  C = {}
    BY DEF NoLoop
  <2>. DEFINE B == C \ {n}
  <2>1. ASSUME NEW x \in B PROVE ow[x] # Null /\ x # ch[ow[x]] /\ pv[x] \in B
    <3>1. x \in C /\ x # n /\ x \in lv /\ ow1[x] = ow[x]
      BY <1>0
    <3>2. x # ch[ow[x]] /\ x # first /\ ow[x] # Null
      BY <1>0, <1>1, <1>2, <3>1
    <3>3. pv1[x] = pv[x]
      BY <1>0, <3>1, <3>2
    <3>4. pv[x] # n
      BY <3>1, <3>2 DEF Forest, Linked, LinkedAt
    <3>. QED BY <3>1, <3>2, <3>3, <3>4
  <2>2. B \in SUBSET lv
    OBVIOUS
  <2>3. B = {}
    <3>. HIDE DEF B
    <3>. QED BY <2>1, <2>2 DEF Forest, NoLoop
  <2>4. n \notin C
    <3>. SUFFICES ASSUME n \in C PROVE FALSE
      OBVIOUS
    <3>1. ow1[n] = p
      BY <1>0
    <3>2. CASE first = Null
      BY <1>0, <3>1, <3>2
    <3>3. CASE first # Null
      <4>1. pv1[n] = last
        BY <1>0, <1>1, <3>3
      <4>. QED BY <1>1, <2>3, <3>3, <4>1
    <3>. QED BY <3>2, <3>3
  <2>. QED BY <2>3, <2>4
<1>8. NoCycle(lv, ow1, tg)
  BY <1>0, CycleAdd DEF Forest
<1>. QED BY <1>4, <1>5, <1>6, <1>7, <1>8 DEF Forest

\* cJSON_InsertItemInArray, of n before a
LEMMA InsertKeeps ==
  ASSUME NEW lv, NEW nx, NEW pv, NEW ch, NEW ow, NEW tg, Forest(lv, nx, pv, ch, ow, tg),
         NEW p \in lv, NEW n \in lv, NEW a \in lv, ow[n] = Null, ow[a] = p, \A r \in lv : tg[r] # p,
         NEW X, n \in X, p \notin X,
         \A q \in X, x \in lv : ow[x] # Null /\ Shows(q, x, ow, tg) => x \in X,
         NEW nx1, NEW pv1, NEW ch1,
         nx1 = IF a = ch[p] THEN [nx EXCEPT ![n] = a] ELSE [nx EXCEPT ![n] = a, ![pv[a]] = n],
         pv1 = [pv EXCEPT ![n] = pv[a], ![a] = n],
         ch1 = IF a = ch[p] THEN [ch EXCEPT ![p] = n] ELSE ch
  PROVE  Forest(lv, nx1, pv1, ch1, [ow EXCEPT ![n] = p], tg)
<1>. DEFINE ow1 == [ow EXCEPT ![n] = p]
            before == pv[a]
<1>0. /\ lv \subseteq Nodes /\ Null \notin Nodes
      /\ nx \in [Nodes -> lv \cup {Null}] /\ pv \in [Nodes -> lv \cup {Null}]
      /\ ch \in [Nodes -> lv \cup {Null}] /\ ow \in [Nodes -> lv \cup {Null}]
      /\ tg \in [Nodes -> lv \cup {Null}]
  BY TreeAssumption DEF Forest, Typed
<1>1. /\ before \in lv /\ ow[before] = p /\ before # n /\ a # n /\ ch[p] \in lv /\ ow[ch[p]] = p
      /\ a # ch[p] => nx[before] = a
      /\ a = ch[p] => nx[before] = Null
  <2>1. LinkedAt(a, nx, pv, ch, ow, tg) /\ LinkedAt(p, nx, pv, ch, ow, tg) /\ tg[p] = Null
    BY <1>0 DEF Forest, Linked, References
  <2>. QED BY <1>0, <2>1 DEF LinkedAt
<1>2. nx[n] = Null /\ pv[n] = Null
  BY <1>0 DEF Forest, Linked, LinkedAt
<1>3. \A y \in Nodes : /\ nx1[y] = IF y = n THEN a ELSE IF y = before /\ a # ch[p] THEN n ELSE nx[y]
                       /\ pv1[y] = IF y = a THEN n ELSE IF y = n THEN before ELSE pv[y]
                       /\ ch1[y] = IF y = p /\ a = ch[p] THEN n ELSE ch[y]
                       /\ ow1[y] = IF y = n THEN p ELSE ow[y]
  BY <1>0, <1>1
<1>4. Typed(lv, nx1, pv1, ch1, ow1, tg)
  BY <1>0, <1>1 DEF Forest, Typed
<1>. HIDE DEF ow1, before
<1>5. References(lv, ch1, ow1, tg)
  BY <1>0, <1>3 DEF Forest, References
<1>6. Linked(lv, nx1, pv1, ch1, ow1, tg)
  <2>. SUFFICES ASSUME NEW x \in lv PROVE LinkedAt(x, nx1, pv1, ch1, ow1, tg)
    BY DEF Linked
  <2>1. LinkedAt(x, nx, pv, ch, ow, tg) /\ LinkedAt(a, nx, pv, ch, ow, tg)
    BY DEF Forest, Linked
  <2>2. pv[a] = before
    BY DEF before
  <2>3. ow[x] # Null => ow[x] \in lv /\ ch[ow[x]] \in lv /\ ow[ch[ow[x]]] = ow[x]
    <3>1. ow[x] # Null => ow[x] \in lv /\ ch[ow[x]] \in lv /\ tg[ow[x]] = Null
      BY <1>0, <2>1 DEF Forest, References, LinkedAt
    <3>. QED BY <3>1, <1>0 DEF Forest, Linked, LinkedAt
  <2>. USE DEF LinkedAt
  <2>4. CASE x = n
    BY <1>0, <1>1, <1>2, <1>3, <2>1, <2>2, <2>4
  <2>5. CASE x = a
    BY <1>0, <1>1, <1>2, <1>3, <2>1, <2>2, <2>5
  <2>6. CASE x # n /\ x # a
    <3>0. ow1[x] = ow[x] /\ pv1[x] = pv[x]
      BY <1>3, <2>6, <1>0
    <3>1. nx1[x] # Null => pv1[nx1[x]] = x /\ ow1[nx1[x]] = ow1[x]
      BY <1>0, <1>1, <1>2, <1>3, <2>1, <2>2, <2>6
    <3>2. ow1[x] = Null => nx1[x] = Null /\ pv1[x] = Null
      BY <1>0, <1>1, <1>2, <1>3, <2>1, <2>2, <2>6
    <3>3. ASSUME ow[x] # Null
          PROVE  /\ ch1[ow[x]] # Null /\ pv1[x] # Null /\ ow1[pv1[x]] = ow[x]
                 /\ x # ch1[ow[x]] => nx1[pv1[x]] = x
                 /\ x = ch1[ow[x]] => nx1[pv1[x]] = Null
                 /\ nx1[x] = Null => pv1[ch1[ow[x]]] = x
      <4>1. pv[x] \in lv /\ pv[x] # n /\ ow[pv[x]] = ow[x]
        BY <1>0, <2>1, <3>3
      <4>2. ch1[ow[x]] # Null /\ pv1[x] # Null /\ ow1[pv1[x]] = ow[x]
        BY <1>0, <1>1, <1>3, <2>1, <2>3, <3>0, <3>3, <4>1
      <4>3. x # ch1[ow[x]] => nx1[pv1[x]] = x
        BY <1>0, <1>1, <1>3, <2>1, <2>3, <2>6, <3>0, <3>3, <4>1
      <4>4. x = ch1[ow[x]] => nx1[pv1[x]] = Null
        BY <1>0, <1>1, <1>3, <2>1, <2>3, <2>6, <3>0, <3>3, <4>1
      <4>5. nx1[x] = Null => pv1[ch1[ow[x]]] = x
        BY <1>0, <1>1, <1>3, <2>1, <2>2, <2>3, <2>6, <3>0, <3>3
      <4>. QED BY <4>2, <4>3, <4>4, <4>5
    <3>4. ch1[x] # Null /\ tg[x] = Null => ow1[ch1[x]] = x
      BY <1>0, <1>1, <1>2, <1>3, <2>1, <2>2, <2>6
    <3>. QED BY <3>0, <3>1, <3>2, <3>3, <3>4
  <2>. QED BY <2>4, <2>5, <2>6
<1>7. NoLoop(lv, pv1, ch1, ow1)
  <2>. SUFFICES ASSUME NEW C \in SUBSET lv, \A x \in C : ow1[x] # Null /\ x # ch1[ow1[x]] /\ pv1[x] \in C
                PROVE  C = {}
    BY DEF NoLoop
  <2>. DEFINE B == C \ {n}
  <2>1. a = ch[p] => a \notin C /\ n \notin C
    BY <1>0, <1>1, <1>3
  <2>2. ASSUME NEW x \in B PROVE ow[x] # Null /\ x # ch[ow[x]] /\ pv[x] \in B
    <3>1. x \in C /\ x # n /\ x \in lv /\ ow1[x] = ow[x] /\ ow[x] # Null /\ ow[x] \in Nodes
      BY <1>0, <1>3
    <3>2. x # ch[ow[x]]
      <4>1. x # ch1[ow[x]]
        BY <3>1
      <4>2. CASE a = ch[p]
        BY <1>3, <2>1, <3>1, <4>1, <4>2
      <4>3. CASE a # ch[p]
        BY <1>3, <3>1, <4>1, <4>3
      <4>. QED BY <4>2, <4>3
    <3>3. pv[x] # n
      BY <3>1, <3>2 DEF Forest, Linked, LinkedAt
    <3>4. pv[x] \in C
      <4>1. CASE x = a
        <5>1. pv1[x] = n /\ pv1[n] = before /\ n \in C /\ pv[x] = before
          BY <1>0, <1>1, <1>3, <3>1, <4>1 DEF before
        <5>. QED BY <5>1
      <4>2. CASE x # a
        BY <1>0, <1>3, <3>1, <4>2
      <4>. QED BY <4>1, <4>2
    <3>. QED BY <3>1, <3>2, <3>3, <3>4
  <2>3. B \in SUBSET lv
    OBVIOUS
  <2>4. B = {}
    <3>. HIDE DEF B
    <3>. QED BY <2>2, <2>3 DEF Forest, NoLoop
  <2>. QED BY <1>0, <1>1, <1>3, <2>4
<1>8. NoCycle(lv, ow1, tg)
  BY <1>0, CycleAdd DEF Forest, ow1
<1>. QED BY <1>4, <1>5, <1>6, <1>7, <1>8 DEF Forest, ow1

\* What cJSON_DetachItemViaPointer makes of the links.
TakenOut(n, p, nx, pv, ch, ow, nx1, pv1, ch1, ow1) ==
  \A y \in Nodes : /\ nx1[y] = IF y = n THEN Null ELSE IF y = pv[n] /\ n # ch[p] THEN nx[n] ELSE nx[y]
                   /\ pv1[y] = IF y = n THEN Null
                               ELSE IF y = nx[n] \/ (nx[n] = Null /\ y = ch[p]) THEN pv[n] ELSE pv[y]
                   /\ ch1[y] = IF y = p /\ n = ch[p] THEN nx[n] ELSE ch[y]
                   /\ ow1[y] = IF y = n THEN Null ELSE ow[y]

\* cJSON_DetachItemViaPointer
LEMMA DetachKeeps ==
  ASSUME NEW lv, NEW nx, NEW pv, NEW ch, NEW ow, NEW tg, Forest(lv, nx, pv, ch, ow, tg),
         NEW p \in lv, NEW n \in lv, ow[n] = p, \A r \in lv : tg[r] # p,
         NEW nx1 \in [Nodes -> lv \cup {Null}], NEW pv1 \in [Nodes -> lv \cup {Null}],
         NEW ch1 \in [Nodes -> lv \cup {Null}], NEW ow1 \in [Nodes -> lv \cup {Null}],
         TakenOut(n, p, nx, pv, ch, ow, nx1, pv1, ch1, ow1)
  PROVE  Forest(lv, nx1, pv1, ch1, ow1, tg)
<1>. DEFINE before == pv[n]
            after == nx[n]
            first == ch[p]
<1>0. /\ lv \subseteq Nodes /\ Null \notin Nodes
      /\ nx \in [Nodes -> lv \cup {Null}] /\ pv \in [Nodes -> lv \cup {Null}]
      /\ ch \in [Nodes -> lv \cup {Null}] /\ ow \in [Nodes -> lv \cup {Null}]
      /\ tg \in [Nodes -> lv \cup {Null}]
  BY TreeAssumption DEF Forest, Typed
<1>1. /\ before \in lv /\ ow[before] = p /\ first \in lv /\ ow[first] = p
      /\ after # Null => after \in lv /\ ow[after] = p /\ pv[after] = n /\ after # n /\ after # first
      /\ n # first => nx[before] = n /\ before # n
      /\ n = first => nx[before] = Null
      /\ after = Null => pv[first] = n
  <2>1. LinkedAt(n, nx, pv, ch, ow, tg) /\ LinkedAt(p, nx, pv, ch, ow, tg) /\ tg[p] = Null
    BY <1>0 DEF Forest, Linked, References
  <2>2. before \in lv /\ ow[before] = p /\ first \in lv /\ ow[first] = p
    BY <1>0, <2>1 DEF LinkedAt
  <2>3. LinkedAt(before, nx, pv, ch, ow, tg) /\ LinkedAt(first, nx, pv, ch, ow, tg)
    BY <2>2 DEF Forest, Linked
  <2>4. after # Null => after \in lv /\ ow[after] = p /\ pv[after] = n
    BY <1>0, <2>1 DEF LinkedAt
  <2>5. n # first => nx[before] = n
    BY <1>0, <2>1 DEF LinkedAt
  <2>6. (n = first => nx[before] = Null) /\ (after = Null => pv[first] = n)
    BY <1>0, <2>1 DEF LinkedAt
  <2>7. after # Null => after # first
    <3>. SUFFICES ASSUME after # Null, after = first PROVE FALSE
      OBVIOUS
    <3>1. nx[pv[after]] = Null
      BY <2>3, <2>2, <2>4, <1>0 DEF LinkedAt
    <3>. QED BY <3>1, <2>4
  <2>8. n # first => before # n
    <3>. SUFFICES ASSUME n # first, before = n PROVE FALSE
      OBVIOUS
    <3>. DEFINE C == {n}
    <3>1. C \in SUBSET lv /\ \A x \in C : ow[x] # Null /\ x # ch[ow[x]] /\ pv[x] \in C
      BY <1>0
    <3>. QED BY <3>1 DEF Forest, NoLoop
  <2>9. after # Null => after # n
    <3>. SUFFICES ASSUME after # Null, after = n PROVE FALSE
      OBVIOUS
    <3>. QED BY <2>4, <2>5, <2>6, <2>8
  <2>. QED BY <2>2, <2>4, <2>5, <2>6, <2>7, <2>8, <2>9
<1>2. n = first /\ after = Null => \A x \in lv : ow[x] = p => x = n
  <2>. SUFFICES ASSUME n = first, after = Null PROVE \A x \in lv : ow[x] = p => x = n
    OBVIOUS
  <2>. DEFINE C == {x \in lv : ow[x] = p /\ x # n}
  <2>1. ASSUME NEW x \in C PROVE ow[x] # Null /\ x # ch[ow[x]] /\ pv[x] \in C
    <3>1. pv[x] \in lv /\ ow[pv[x]] = p /\ nx[pv[x]] = x
      BY <1>0 DEF Forest, Linked, LinkedAt
    <3>. QED BY <1>0, <3>1
  <2>2. C \in SUBSET lv
    OBVIOUS
  <2>3. C = {}
    <3>. HIDE DEF C
    <3>. QED BY <2>1, <2>2 DEF Forest, NoLoop
  <2>. QED BY <2>3
<1>3. \A y \in Nodes : /\ nx1[y] = IF y = n THEN Null ELSE IF y = before /\ n # first THEN after ELSE nx[y]
                       /\ pv1[y] = IF y = n THEN Null
                                   ELSE IF y = after \/ (after = Null /\ y = first) THEN before ELSE pv[y]
                       /\ ch1[y] = IF y = p /\ n = first THEN after ELSE ch[y]
                       /\ ow1[y] = IF y = n THEN Null ELSE ow[y]
  BY DEF TakenOut
<1>4. Typed(lv, nx1, pv1, ch1, ow1, tg)
  <2>. HIDE DEF after, first, before
  <2>. QED BY <1>0, <1>1, <1>3 DEF Forest, Typed
<1>5. References(lv, ch1, ow1, tg)
  <2>. HIDE DEF after, first, before
  <2>. QED BY <1>0, <1>3 DEF Forest, References
<1>6. Linked(lv, nx1, pv1, ch1, ow1, tg)
  <2>. SUFFICES ASSUME NEW x \in lv PROVE LinkedAt(x, nx1, pv1, ch1, ow1, tg)
    BY DEF Linked
  <2>1. LinkedAt(x, nx, pv, ch, ow, tg) /\ LinkedAt(n, nx, pv, ch, ow, tg)
    BY DEF Forest, Linked
  <2>2. ch[p] = first /\ pv[n] = before /\ nx[n] = after
    OBVIOUS
  <2>. HIDE DEF after, first, before
  <2>3. ow[x] # Null => ow[x] \in lv /\ ch[ow[x]] \in lv /\ ow[ch[ow[x]]] = ow[x]
    <3>1. ow[x] # Null => ow[x] \in lv /\ ch[ow[x]] \in lv /\ tg[ow[x]] = Null
      BY <1>0, <2>1 DEF Forest, References, LinkedAt
    <3>. QED BY <3>1, <1>0 DEF Forest, Linked, LinkedAt
  <2>. USE DEF LinkedAt
  <2>4. CASE x = n
    <3>1. ch[n] # Null /\ tg[n] = Null => ow[ch[n]] = n
      BY <2>1
    <3>2. n # p
      <4>. SUFFICES ASSUME n = p PROVE FALSE
        OBVIOUS
      <4>. DEFINE C == {n}
      <4>1. C \in SUBSET lv /\ \A y \in C : ow[y] # Null /\ \E q \in C : Shows(q, y, ow, tg)
        BY <1>0 DEF Shows
      <4>. QED BY <4>1 DEF Forest, NoCycle
    <3>. QED BY <1>0, <1>1, <1>3, <2>4, <3>1, <3>2
  <2>5. CASE x # n
    <3>0. ow1[x] = ow[x]
      BY <1>3, <2>5, <1>0
    <3>1. nx1[x] # Null => pv1[nx1[x]] = x /\ ow1[nx1[x]] = ow1[x]
      <4>1. CASE x = before /\ n # first
        BY <1>0, <1>1, <1>3, <2>1, <2>2, <2>5, <4>1
      <4>2. CASE ~(x = before /\ n # first)
        <5>1. nx1[x] = nx[x]
          BY <1>0, <1>3, <2>5, <4>2
        <5>. SUFFICES ASSUME nx[x] # Null PROVE pv1[nx[x]] = x /\ ow1[nx[x]] = ow[x]
          BY <3>0, <5>1
        <5>2. nx[x] \in lv /\ pv[nx[x]] = x /\ ow[nx[x]] = ow[x]
          BY <1>0, <2>1
        <5>3. nx[x] # n
          BY <1>0, <2>2, <4>2, <5>2, <1>1
        <5>4. nx[x] # after
          BY <1>1, <2>5, <5>2
        <5>5. nx[x] # first
          <6>. SUFFICES ASSUME nx[x] = first PROVE FALSE
            OBVIOUS
          <6>1. LinkedAt(first, nx, pv, ch, ow, tg)
            BY <1>1 DEF Forest, Linked
          <6>. QED BY <1>0, <1>1, <2>2, <5>2, <6>1
        <5>. QED BY <1>0, <1>3, <5>2, <5>3, <5>4, <5>5
      <4>. QED BY <4>1, <4>2
    <3>2. ow1[x] = Null => nx1[x] = Null /\ pv1[x] = Null
      BY <1>0, <1>1, <1>3, <2>1, <2>2, <2>5
    <3>3. ASSUME ow[x] # Null
          PROVE  /\ ch1[ow[x]] # Null /\ pv1[x] # Null /\ ow1[pv1[x]] = ow[x]
                 /\ x # ch1[ow[x]] => nx1[pv1[x]] = x
                 /\ x = ch1[ow[x]] => nx1[pv1[x]] = Null
                 /\ nx1[x] = Null => pv1[ch1[ow[x]]] = x
      <4>0. pv[x] \in lv /\ ow[pv[x]] = ow[x] /\ ow[x] \in lv
        BY <1>0, <2>1, <3>3
      <4>1. CASE n = first
        <5>1. CASE ow[x] = p
          <6>1. after # Null /\ ch1[p] = after
            BY <1>0, <1>2, <1>3, <2>5, <4>1, <5>1
          <6>2. CASE x = after
            <7>1. pv1[x] = before /\ nx[before] = Null /\ before # n
              BY <1>0, <1>1, <1>3, <2>2, <2>5, <4>1, <6>1, <6>2
            <7>2. nx1[before] = Null /\ ow1[before] = p
              BY <1>0, <1>1, <1>3, <4>1, <7>1
            <7>3. nx1[x] = Null => nx[x] = Null
              BY <1>0, <1>3, <2>5, <4>1
            <7>4. nx[x] = Null => pv[n] = x
              BY <2>1, <2>2, <3>3, <4>1, <5>1
            <7>. QED BY <1>0, <1>1, <5>1, <6>1, <6>2, <7>1, <7>2, <7>3, <7>4, <2>2
          <6>3. CASE x # after
            <7>1. pv1[x] = pv[x] /\ x # first /\ nx[pv[x]] = x
              BY <1>0, <1>1, <1>3, <2>1, <2>2, <2>5, <3>3, <4>1, <5>1, <6>1, <6>3
            <7>2. pv[x] # n
              BY <2>2, <6>3, <7>1
            <7>3. nx1[pv[x]] = x /\ ow1[pv[x]] = p
              BY <1>0, <1>3, <4>0, <4>1, <5>1, <7>1, <7>2
            <7>4. nx1[x] = Null => nx[x] = Null
              BY <1>0, <1>3, <2>5, <4>1
            <7>5. nx[x] = Null => before = x
              BY <2>1, <2>2, <3>3, <4>1, <5>1
            <7>6. pv1[after] = before
              BY <1>0, <1>1, <1>3, <6>1
            <7>. QED BY <1>0, <5>1, <6>1, <6>3, <7>1, <7>3, <7>4, <7>5, <7>6, <4>0
          <6>. QED BY <6>2, <6>3
        <5>2. CASE ow[x] # p
          <6>1. pv1[x] = pv[x] /\ pv[x] # n /\ x # first /\ x # after /\ ch[ow[x]] # n
            BY <1>0, <1>1, <1>3, <2>3, <2>5, <3>3, <4>0, <5>2
          <6>2. ch1[ow[x]] = ch[ow[x]] /\ nx1[x] = nx[x] /\ nx1[pv[x]] = nx[pv[x]] /\ ow1[pv[x]] = ow[x]
            BY <1>0, <1>1, <1>3, <2>5, <4>0, <4>1, <5>2, <6>1
          <6>3. pv1[ch[ow[x]]] = pv[ch[ow[x]]]
            BY <1>0, <1>1, <1>3, <2>3, <3>3, <5>2, <6>1
          <6>. QED BY <2>1, <3>3, <4>0, <6>1, <6>2, <6>3, <1>0
        <5>. QED BY <5>1, <5>2
      <4>2. CASE n # first
        <5>1. ch1[ow[x]] = ch[ow[x]]
          BY <1>0, <1>3, <4>0, <4>2
        <5>2. /\ pv1[x] # Null /\ ow1[pv1[x]] = ow[x]
              /\ x # ch[ow[x]] => nx1[pv1[x]] = x
              /\ x = ch[ow[x]] => nx1[pv1[x]] = Null
          <6>1. CASE x = after
            <7>1. pv1[x] = before /\ x # ch[ow[x]] /\ nx1[before] = x /\ ow1[before] = ow[x]
              BY <1>0, <1>1, <1>3, <2>2, <2>5, <4>2, <6>1
            <7>. QED BY <7>1, <1>0, <1>1
          <6>2. CASE x = first /\ after = Null
            <7>1. pv1[x] = before /\ x = ch[ow[x]] /\ nx1[before] = Null /\ ow1[before] = ow[x]
              BY <1>0, <1>1, <1>3, <2>2, <2>5, <4>2, <6>2
            <7>. QED BY <7>1, <1>0, <1>1
          <6>3. CASE x # after /\ ~(x = first /\ after = Null)
            <7>1. pv1[x] = pv[x]
              BY <1>0, <1>3, <2>5, <6>3
            <7>2. pv[x] # n
              <8>. SUFFICES ASSUME pv[x] = n PROVE FALSE
                OBVIOUS
              <8>1. x # ch[ow[x]] => FALSE
                BY <2>1, <2>2, <3>3, <6>3
              <8>. QED BY <8>1, <2>1, <2>2, <3>3, <4>0, <6>3
            <7>3. nx1[pv[x]] = nx[pv[x]]
              <8>1. pv[x] # before
                <9>. SUFFICES ASSUME pv[x] = before PROVE FALSE
                  OBVIOUS
                <9>1. x # ch[ow[x]] => x = n
                  BY <1>1, <2>1, <3>3, <4>2
                <9>2. x = ch[ow[x]] => nx[before] = Null
                  BY <2>1, <3>3
                <9>. QED BY <9>1, <9>2, <1>0, <1>1, <2>5, <4>2
              <8>. QED BY <1>0, <1>3, <4>0, <7>2, <8>1
            <7>4. ow1[pv[x]] = ow[x]
              BY <1>3, <4>0, <7>2, <1>0
            <7>. QED BY <2>1, <3>3, <7>1, <7>3, <7>4
          <6>. QED BY <6>1, <6>2, <6>3
        <5>3. ASSUME nx1[x] = Null PROVE pv1[ch[ow[x]]] = x
          <6>1. CASE x = before
            <7>1. after = Null /\ ow[x] = p
              BY <1>0, <1>1, <1>3, <2>5, <4>2, <5>3, <6>1
            <7>. QED BY <1>0, <1>1, <1>3, <2>2, <4>2, <6>1, <7>1
          <6>2. CASE x # before
            <7>1. nx[x] = Null /\ pv[ch[ow[x]]] = x
              BY <1>0, <1>3, <2>1, <2>5, <3>3, <5>3, <6>2
            <7>2. ch[ow[x]] # n
              BY <1>1, <2>2, <2>3, <3>3, <4>2
            <7>3. ch[ow[x]] # after
              BY <1>1, <2>5, <7>1, <2>3, <3>3, <1>0
            <7>4. ~(after = Null /\ ch[ow[x]] = first)
              BY <1>1, <2>5, <7>1
            <7>. QED BY <1>0, <1>3, <2>3, <3>3, <7>1, <7>2, <7>3, <7>4
          <6>. QED BY <6>1, <6>2
        <5>. QED BY <2>1, <3>3, <5>1, <5>2, <5>3
      <4>. QED BY <4>1, <4>2
    <3>4. ch1[x] # Null /\ tg[x] = Null => ow1[ch1[x]] = x
      <4>1. CASE x = p /\ n = first
        BY <1>0, <1>1, <1>3, <4>1
      <4>2. CASE ~(x = p /\ n = first)
        <5>1. ch1[x] = ch[x]
          BY <1>0, <1>3, <4>2
        <5>2. ch[x] # Null /\ tg[x] = Null => ow[ch[x]] = x /\ ch[x] \in lv
          BY <1>0, <2>1
        <5>3. ch[x] # Null /\ tg[x] = Null => ch[x] # n
          BY <2>2, <4>2, <5>2
        <5>. QED BY <1>0, <1>3, <5>1, <5>2, <5>3
      <4>. QED BY <4>1, <4>2
    <3>. QED BY <3>0, <3>1, <3>2, <3>3, <3>4
  <2>. QED BY <2>4, <2>5
<1>7. NoLoop(lv, pv1, ch1, ow1)
  <2>. SUFFICES ASSUME NEW C \in SUBSET lv, \A x \in C : ow1[x] # Null /\ x # ch1[ow1[x]] /\ pv1[x] \in C
                PROVE  C = {}
    BY DEF NoLoop
  <2>0. ch[p] = first /\ pv[n] = before /\ nx[n] = after
    OBVIOUS
  <2>. HIDE DEF after, first, before
  <2>. DEFINE B == IF n # first /\ after \in C THEN C \cup {n} ELSE C
  <2>1. n \notin C
    BY <1>0, <1>3
  <2>2. ASSUME NEW x \in B PROVE ow[x] # Null /\ x # ch[ow[x]] /\ pv[x] \in B
    <3>1. CASE x = n
      <4>1. n # first /\ after \in C /\ after # n /\ ow[n] # Null
        BY <1>0, <1>1, <2>1, <3>1
      <4>2. pv1[after] = before
        BY <1>0, <1>3, <4>1
      <4>. QED BY <2>0, <3>1, <4>1, <4>2
    <3>2. CASE x # n
      <4>1. x \in C /\ x \in lv /\ ow1[x] = ow[x] /\ ow[x] # Null /\ ow[x] \in lv
        BY <1>0, <1>3, <3>2
      <4>2. x # ch[ow[x]]
        <5>1. x # ch1[ow[x]]
          BY <4>1
        <5>. QED BY <1>0, <1>3, <2>0, <3>2, <4>1, <5>1
      <4>3. x # first
        BY <1>1, <2>0, <4>1, <4>2
      <4>4. pv[x] \in B
        <5>1. CASE x = after
          <6>1. n # first
            BY <1>0, <1>1, <1>3, <4>1, <5>1
          <6>. QED BY <1>0, <1>1, <4>1, <5>1, <6>1
        <5>2. CASE x # after
          BY <1>0, <1>3, <3>2, <4>1, <4>3, <5>2
        <5>. QED BY <5>1, <5>2
      <4>. QED BY <4>1, <4>2, <4>4
    <3>. QED BY <3>1, <3>2
  <2>3. B \in SUBSET lv
    OBVIOUS
  <2>4. B = {}
    <3>. HIDE DEF B
    <3>. QED BY <2>2, <2>3 DEF Forest, NoLoop
  <2>. QED BY <2>4
<1>8. NoCycle(lv, ow1, tg)
  <2>. SUFFICES ASSUME NEW C \in SUBSET lv, \A x \in C : ow1[x] # Null /\ \E q \in C : Shows(q, x, ow1, tg)
                PROVE  C = {}
    BY DEF NoCycle
  <2>1. \A x \in C : ow[x] # Null /\ \E q \in C : Shows(q, x, ow, tg)
    BY <1>0, <1>3 DEF Shows
  <2>. QED BY <2>1 DEF Forest, NoCycle
<1>. QED BY <1>4, <1>5, <1>6, <1>7, <1>8 DEF Forest

\* cJSON_Delete of a root n: F is what is below it, and no reference that stays shows it.
LEMMA PruneKeeps ==
  ASSUME NEW lv, NEW nx, NEW pv, NEW ch, NEW ow, NEW tg, Forest(lv, nx, pv, ch, ow, tg),
         NEW F \in SUBSET lv, NEW n \in F, ow[n] = Null,
         \A x \in lv : ow[x] \in F => x \in F, \A x \in F : x # n => ow[x] \in F,
         \A r \in lv \ F : tg[r] \notin F
  PROVE  Forest(lv \ F, Free(F, nx), Free(F, pv), Free(F, ch), Free(F, ow), Free(F, tg))
<1>. DEFINE rest == lv \ F
            nx1 == Free(F, nx)
            pv1 == Free(F, pv)
            ch1 == Free(F, ch)
            ow1 == Free(F, ow)
            tg1 == Free(F, tg)
<1>0. /\ lv \subseteq Nodes /\ Null \notin Nodes
      /\ nx \in [Nodes -> lv \cup {Null}] /\ pv \in [Nodes -> lv \cup {Null}]
      /\ ch \in [Nodes -> lv \cup {Null}] /\ ow \in [Nodes -> lv \cup {Null}]
      /\ tg \in [Nodes -> lv \cup {Null}]
  BY TreeAssumption DEF Forest, Typed
<1>1. \A y \in Nodes : /\ nx1[y] = IF y \in F THEN Null ELSE nx[y]
                       /\ pv1[y] = IF y \in F THEN Null ELSE pv[y]
                       /\ ch1[y] = IF y \in F THEN Null ELSE ch[y]
                       /\ ow1[y] = IF y \in F THEN Null ELSE ow[y]
                       /\ tg1[y] = IF y \in F THEN Null ELSE tg[y]
  BY DEF Free
<1>2. \A y \in rest : /\ LinkedAt(y, nx, pv, ch, ow, tg)
                      /\ tg[y] # Null => tg[tg[y]] = Null /\ ch[y] = ch[tg[y]]
                      /\ ow[y] # Null => tg[ow[y]] = Null
  BY DEF Forest, Linked, References
<1>3. ASSUME NEW y \in rest
      PROVE  /\ nx[y] \in rest \cup {Null} /\ pv[y] \in rest \cup {Null} /\ ch[y] \in rest \cup {Null}
             /\ ow[y] \in rest \cup {Null} /\ tg[y] \in rest \cup {Null}
  <2>1. ow[y] \notin F /\ tg[y] \notin F
    BY <1>0
  <2>2. nx[y] \notin F
    <3>. SUFFICES ASSUME nx[y] \in F PROVE FALSE
      OBVIOUS
    <3>1. ow[nx[y]] = ow[y] /\ ow[y] # Null
      BY <1>0, <1>2 DEF LinkedAt
    <3>. QED BY <2>1, <3>1
  <2>3. pv[y] \notin F
    <3>. SUFFICES ASSUME pv[y] \in F PROVE FALSE
      OBVIOUS
    <3>1. ow[pv[y]] = ow[y] /\ ow[y] # Null
      BY <1>0, <1>2 DEF LinkedAt
    <3>. QED BY <2>1, <3>1
  <2>4. ch[y] \notin F
    <3>. SUFFICES ASSUME ch[y] \in F PROVE FALSE
      OBVIOUS
    <3>1. CASE tg[y] = Null
      <4>1. ow[ch[y]] = y
        BY <1>0, <1>2, <3>1 DEF LinkedAt
      <4>. QED BY <1>0, <4>1
    <3>2. CASE tg[y] # Null
      <4>1. tg[y] \in rest /\ tg[tg[y]] = Null /\ ch[tg[y]] = ch[y]
        BY <1>0, <1>2, <2>1, <3>2
      <4>2. ow[ch[y]] = tg[y]
        BY <1>0, <1>2, <4>1 DEF LinkedAt
      <4>. QED BY <1>0, <2>1, <3>2, <4>2
    <3>. QED BY <3>1, <3>2
  <2>. QED BY <1>0, <2>1, <2>2, <2>3, <2>4
<1>. HIDE DEF nx1, pv1, ch1, ow1, tg1
<1>4. Typed(rest, nx1, pv1, ch1, ow1, tg1)
  <2>1. nx1 \in [Nodes -> rest \cup {Null}] /\ pv1 \in [Nodes -> rest \cup {Null}] /\ ch1 \in [Nodes -> rest \cup {Null}]
        /\ ow1 \in [Nodes -> rest \cup {Null}] /\ tg1 \in [Nodes -> rest \cup {Null}]
    <3>1. \A y \in Nodes \ lv : nx[y] = Null /\ pv[y] = Null /\ ch[y] = Null /\ ow[y] = Null /\ tg[y] = Null
      BY DEF Forest, Typed
    <3>2. \A y \in Nodes : /\ nx1[y] \in rest \cup {Null} /\ pv1[y] \in rest \cup {Null} /\ ch1[y] \in rest \cup {Null}
                           /\ ow1[y] \in rest \cup {Null} /\ tg1[y] \in rest \cup {Null}
      BY <1>1, <1>3, <3>1
    <3>. QED BY <3>2 DEF nx1, pv1, ch1, ow1, tg1, Free
  <2>2. \A y \in Nodes \ rest : nx1[y] = Null /\ pv1[y] = Null /\ ch1[y] = Null /\ ow1[y] = Null /\ tg1[y] = Null
    BY <1>1 DEF Forest, Typed
  <2>. QED BY <1>0, <2>1, <2>2 DEF Typed
<1>5. References(rest, ch1, ow1, tg1)
  <2>. SUFFICES ASSUME NEW y \in rest
                PROVE  /\ tg1[y] # Null => tg1[tg1[y]] = Null /\ ch1[y] = ch1[tg1[y]]
                       /\ ow1[y] # Null => tg1[ow1[y]] = Null
    BY DEF References
  <2>1. tg1[y] = tg[y] /\ ch1[y] = ch[y] /\ ow1[y] = ow[y]
    BY <1>0, <1>1
  <2>2. tg[y] # Null => tg[y] \in rest /\ tg1[tg[y]] = tg[tg[y]] /\ ch1[tg[y]] = ch[tg[y]]
    BY <1>0, <1>1, <1>3
  <2>3. ow[y] # Null => ow[y] \in rest /\ tg1[ow[y]] = tg[ow[y]]
    BY <1>0, <1>1, <1>3
  <2>. QED BY <1>2, <2>1, <2>2, <2>3
<1>6. Linked(rest, nx1, pv1, ch1, ow1, tg1)
  <2>. SUFFICES ASSUME NEW y \in rest PROVE LinkedAt(y, nx1, pv1, ch1, ow1, tg1)
    BY DEF Linked
  <2>1. LinkedAt(y, nx, pv, ch, ow, tg) /\ Null \notin Nodes /\ rest \subseteq Nodes
    BY <1>0, <1>2
  <2>2. nx1[y] = nx[y] /\ pv1[y] = pv[y] /\ ch1[y] = ch[y] /\ ow1[y] = ow[y] /\ tg1[y] = tg[y]
    BY <1>0, <1>1
  <2>3. nx[y] # Null => pv1[nx[y]] = pv[nx[y]] /\ ow1[nx[y]] = ow[nx[y]]
    BY <1>0, <1>1, <1>3
  <2>4. ow[y] # Null => /\ ch1[ow[y]] = ch[ow[y]]
                        /\ ch[ow[y]] # Null => pv1[ch[ow[y]]] = pv[ch[ow[y]]]
    <3>. SUFFICES ASSUME ow[y] # Null PROVE /\ ch1[ow[y]] = ch[ow[y]]
                                            /\ ch[ow[y]] # Null => pv1[ch[ow[y]]] = pv[ch[ow[y]]]
      OBVIOUS
    <3>1. ow[y] \in rest
      BY <1>3
    <3>2. ch[ow[y]] \in rest \cup {Null}
      BY <1>3, <3>1
    <3>. QED BY <1>0, <1>1, <3>1, <3>2
  <2>5. pv[y] # Null => nx1[pv[y]] = nx[pv[y]] /\ ow1[pv[y]] = ow[pv[y]]
    BY <1>0, <1>1, <1>3
  <2>6. ch[y] # Null => ow1[ch[y]] = ow[ch[y]]
    BY <1>0, <1>1, <1>3
  <2>. QED BY <2>1, <2>2, <2>3, <2>4, <2>5, <2>6 DEF LinkedAt
<1>7. NoLoop(rest, pv1, ch1, ow1)
  <2>. SUFFICES ASSUME NEW C \in SUBSET rest, \A x \in C : ow1[x] # Null /\ x # ch1[ow1[x]] /\ pv1[x] \in C
                PROVE  C = {}
    BY DEF NoLoop
  <2>1. ASSUME NEW x \in C PROVE ow[x] # Null /\ x # ch[ow[x]] /\ pv[x] \in C
    <3>1. x \in rest /\ ow1[x] = ow[x] /\ pv1[x] = pv[x] /\ ow[x] # Null
      BY <1>0, <1>1
    <3>2. ow[x] \in rest /\ ch1[ow[x]] = ch[ow[x]]
      BY <1>0, <1>1, <1>3, <3>1
    <3>. QED BY <3>1, <3>2
  <2>. QED BY <2>1 DEF Forest, NoLoop
<1>8. NoCycle(rest, ow1, tg1)
  <2>. SUFFICES ASSUME NEW C \in SUBSET rest, \A x \in C : ow1[x] # Null /\ \E q \in C : Shows(q, x, ow1, tg1)
                PROVE  C = {}
    BY DEF NoCycle
  <2>1. \A x \in C : ow[x] # Null /\ \E q \in C : Shows(q, x, ow, tg)
    BY <1>0, <1>1 DEF Shows
  <2>. QED BY <2>1 DEF Forest, NoCycle
<1>. QED BY <1>4, <1>5, <1>6, <1>7, <1>8 DEF Forest, nx1, pv1, ch1, ow1, tg1

\* cJSON_New_Item and create_reference: a new root n, which may show the list of o.
LEMMA RootKeeps ==
  ASSUME NEW lv, NEW nx, NEW pv, NEW ch, NEW ow, NEW tg, Forest(lv, nx, pv, ch, ow, tg),
         NEW n \in Nodes \ lv, NEW c, NEW o, NEW tg1, NEW ch1,
         \/ o = Null /\ c = Null
         \/ o \in lv /\ tg[o] = Null /\ c = ch[o],
         tg1 = [tg EXCEPT ![n] = o], ch1 = [ch EXCEPT ![n] = c]
  PROVE  Forest(lv \cup {n}, nx, pv, ch1, ow, tg1)
<1>0. /\ lv \subseteq Nodes /\ Null \notin Nodes
      /\ nx \in [Nodes -> lv \cup {Null}] /\ pv \in [Nodes -> lv \cup {Null}]
      /\ ch \in [Nodes -> lv \cup {Null}] /\ ow \in [Nodes -> lv \cup {Null}]
      /\ tg \in [Nodes -> lv \cup {Null}]
      /\ \A y \in Nodes \ lv : nx[y] = Null /\ pv[y] = Null /\ ch[y] = Null /\ ow[y] = Null /\ tg[y] = Null
  BY TreeAssumption DEF Forest, Typed
<1>1. c \in lv \cup {Null} /\ o \in lv \cup {Null} /\ c # n /\ o # n /\ n # Null
  BY <1>0
<1>2. \A y \in Nodes : /\ ch1[y] = IF y = n THEN c ELSE ch[y]
                       /\ tg1[y] = IF y = n THEN o ELSE tg[y]
                       /\ nx[y] # n /\ pv[y] # n /\ ch[y] # n /\ ow[y] # n /\ tg[y] # n
  BY <1>0
<1>3. Typed(lv \cup {n}, nx, pv, ch1, ow, tg1)
  BY <1>0, <1>1 DEF Typed
<1>4. References(lv \cup {n}, ch1, ow, tg1)
  BY <1>0, <1>1, <1>2 DEF Forest, References
<1>5. Linked(lv \cup {n}, nx, pv, ch1, ow, tg1)
  <2>. SUFFICES ASSUME NEW x \in lv \cup {n} PROVE LinkedAt(x, nx, pv, ch1, ow, tg1)
    BY DEF Linked
  <2>1. CASE x = n
    BY <1>0, <1>1, <1>2, <2>1 DEF LinkedAt
  <2>2. CASE x # n
    <3>1. LinkedAt(x, nx, pv, ch, ow, tg)
      BY <2>2 DEF Forest, Linked
    <3>2. ch1[x] = ch[x] /\ tg1[x] = tg[x] /\ (ow[x] # Null => ch1[ow[x]] = ch[ow[x]])
      BY <1>0, <1>2, <2>2
    <3>. QED BY <3>1, <3>2 DEF LinkedAt
  <2>. QED BY <2>1, <2>2
<1>6. NoLoop(lv \cup {n}, pv, ch1, ow)
  <2>. SUFFICES ASSUME NEW C \in SUBSET (lv \cup {n}), \A x \in C : ow[x] # Null /\ x # ch1[ow[x]] /\ pv[x] \in C
                PROVE  C = {}
    BY DEF NoLoop
  <2>1. n \notin C
    BY <1>0
  <2>2. \A x \in C : x # ch[ow[x]]
    BY <1>0, <1>2, <2>1
  <2>3. C \in SUBSET lv
    BY <2>1
  <2>. QED BY <2>2, <2>3 DEF Forest, NoLoop
<1>7. NoCycle(lv \cup {n}, ow, tg1)
  <2>. SUFFICES ASSUME NEW C \in SUBSET (lv \cup {n}), \A x \in C : ow[x] # Null /\ \E q \in C : Shows(q, x, ow, tg1)
                PROVE  C = {}
    BY DEF NoCycle
  <2>1. n \notin C
    BY <1>0
  <2>2. \A x \in C : \E q \in C : Shows(q, x, ow, tg)
    BY <1>0, <1>2, <2>1 DEF Shows
  <2>3. C \in SUBSET lv
    BY <2>1
  <2>. QED BY <2>2, <2>3 DEF Forest, NoCycle
<1>. QED BY <1>3, <1>4, <1>5, <1>6, <1>7 DEF Forest

\* What an item that keeps its links is linked to.
LEMMA LinkedSame ==
  ASSUME NEW x, NEW nx, NEW pv, NEW ch, NEW ow, NEW tg, LinkedAt(x, nx, pv, ch, ow, tg),
         NEW nx1, NEW pv1, NEW ch1, NEW ow1,
         nx1[x] = nx[x] /\ pv1[x] = pv[x] /\ ch1[x] = ch[x] /\ ow1[x] = ow[x],
         nx[x] # Null => pv1[nx[x]] = pv[nx[x]] /\ ow1[nx[x]] = ow[nx[x]],
         pv[x] # Null => nx1[pv[x]] = nx[pv[x]] /\ ow1[pv[x]] = ow[pv[x]],
         ch[x] # Null => ow1[ch[x]] = ow[ch[x]],
         ow[x] # Null => /\ ch1[ow[x]] = ch[ow[x]]
                         /\ ch[ow[x]] # Null => pv1[ch[ow[x]]] = pv[ch[ow[x]]]
  PROVE  LinkedAt(x, nx1, pv1, ch1, ow1, tg)
BY DEF LinkedAt

\* A set of numbers has a least one.
LEMMA LeastNumber ==
  ASSUME NEW K \in SUBSET Nat, K # {}
  PROVE  \E k \in K : \A j \in K : k <= j
<1>1. \E k \in K : \A j \in K : <<j, k>> \notin OpToRel(<, Nat)
  BY NatLessThanWellFounded, WFMin
<1>2. PICK k \in K : \A j \in K : <<j, k>> \notin OpToRel(<, Nat)
  BY <1>1
<1>3. \A j \in K : ~(j < k)
  BY <1>2 DEF OpToRel
<1>. QED BY <1>3

\* The links of a new array n of the items e[1], ..., e[len], which are those of S.
ArrayOf(n, S, len, e, place, nx, pv, ch, ow, nx1, pv1, ch1, ow1) ==
  /\ \A i \in 1 .. len : e[i] \in S
  /\ \A m \in S : place[m] \in 1 .. len /\ e[place[m]] = m
  /\ \A i \in 1 .. len : place[e[i]] = i
  /\ \A y \in Nodes \ S : nx1[y] = nx[y] /\ pv1[y] = pv[y] /\ ow1[y] = ow[y]
  /\ \A y \in Nodes \ {n} : ch1[y] = ch[y]
  /\ ch1[n] = IF len = 0 THEN Null ELSE e[1]
  /\ \A m \in S : /\ nx1[m] = IF place[m] < len THEN e[place[m] + 1] ELSE Null
                  /\ pv1[m] = IF place[m] = 1 THEN e[len] ELSE e[place[m] - 1]
                  /\ ow1[m] = n

\* cJSON_CreateIntArray and its like
LEMMA ArrayKeeps ==
  ASSUME NEW lv, NEW nx, NEW pv, NEW ch, NEW ow, NEW tg, Forest(lv, nx, pv, ch, ow, tg),
         NEW n \in Nodes \ lv, NEW S \in SUBSET Nodes, S \cap (lv \cup {n}) = {},
         NEW len \in Nat, NEW e, NEW place,
         NEW nx1 \in [Nodes -> lv \cup S \cup {n} \cup {Null}],
         NEW pv1 \in [Nodes -> lv \cup S \cup {n} \cup {Null}],
         NEW ch1 \in [Nodes -> lv \cup S \cup {n} \cup {Null}],
         NEW ow1 \in [Nodes -> lv \cup S \cup {n} \cup {Null}],
         ArrayOf(n, S, len, e, place, nx, pv, ch, ow, nx1, pv1, ch1, ow1)
  PROVE  Forest(lv \cup S \cup {n}, nx1, pv1, ch1, ow1, tg)
<1>. SUFFICES ASSUME /\ \A i \in 1 .. len : e[i] \in S
                     /\ \A m \in S : place[m] \in 1 .. len /\ e[place[m]] = m
                     /\ \A i \in 1 .. len : place[e[i]] = i
                     /\ \A y \in Nodes \ S : nx1[y] = nx[y] /\ pv1[y] = pv[y] /\ ow1[y] = ow[y]
                     /\ \A y \in Nodes \ {n} : ch1[y] = ch[y]
                     /\ ch1[n] = IF len = 0 THEN Null ELSE e[1]
                     /\ \A m \in S : /\ nx1[m] = IF place[m] < len THEN e[place[m] + 1] ELSE Null
                                     /\ pv1[m] = IF place[m] = 1 THEN e[len] ELSE e[place[m] - 1]
                                     /\ ow1[m] = n
              PROVE  Forest(lv \cup S \cup {n}, nx1, pv1, ch1, ow1, tg)
  BY DEF ArrayOf
<1>. DEFINE all == lv \cup S \cup {n}
<1>0. /\ lv \subseteq Nodes /\ Null \notin Nodes
      /\ nx \in [Nodes -> lv \cup {Null}] /\ pv \in [Nodes -> lv \cup {Null}]
      /\ ch \in [Nodes -> lv \cup {Null}] /\ ow \in [Nodes -> lv \cup {Null}]
      /\ tg \in [Nodes -> lv \cup {Null}]
      /\ \A y \in Nodes \ lv : nx[y] = Null /\ pv[y] = Null /\ ch[y] = Null /\ ow[y] = Null /\ tg[y] = Null
  BY TreeAssumption DEF Forest, Typed
<1>1. ASSUME NEW m \in S
      PROVE  /\ place[m] \in Nat /\ 1 <= place[m] /\ place[m] <= len /\ len # 0
             /\ place[m] < len => e[place[m] + 1] \in S /\ place[e[place[m] + 1]] = place[m] + 1
             /\ place[m] # 1 => e[place[m] - 1] \in S /\ place[e[place[m] - 1]] = place[m] - 1
             /\ e[place[m]] = m
  <2>1. place[m] \in 1 .. len
    OBVIOUS
  <2>2. place[m] < len => place[m] + 1 \in 1 .. len
    BY <2>1
  <2>3. place[m] # 1 => place[m] - 1 \in 1 .. len
    BY <2>1
  <2>. QED BY <2>1, <2>2, <2>3
<1>2. len # 0 => e[1] \in S /\ place[e[1]] = 1 /\ e[len] \in S /\ place[e[len]] = len
  <2>1. len # 0 => 1 \in 1 .. len /\ len \in 1 .. len
    OBVIOUS
  <2>. QED BY <2>1
<1>3. \A y \in lv : nx1[y] = nx[y] /\ pv1[y] = pv[y] /\ ch1[y] = ch[y] /\ ow1[y] = ow[y]
  BY <1>0
<1>4. /\ nx1[n] = Null /\ pv1[n] = Null /\ ow1[n] = Null /\ tg[n] = Null
      /\ ch1[n] = IF len = 0 THEN Null ELSE e[1]
  BY <1>0
<1>5. ASSUME NEW m \in S
      PROVE  /\ nx1[m] = IF place[m] < len THEN e[place[m] + 1] ELSE Null
             /\ pv1[m] = IF place[m] = 1 THEN e[len] ELSE e[place[m] - 1]
             /\ ch1[m] = Null /\ ow1[m] = n /\ tg[m] = Null /\ m # n /\ m # Null
  BY <1>0
<1>6. Typed(all, nx1, pv1, ch1, ow1, tg)
  <2>5. \A y \in Nodes \ all : nx1[y] = Null /\ pv1[y] = Null /\ ch1[y] = Null /\ ow1[y] = Null /\ tg[y] = Null
    BY <1>0
  <2>6. all \subseteq Nodes
    BY <1>0
  <2>. QED BY <1>0, <2>5, <2>6 DEF Typed
<1>7. References(all, ch1, ow1, tg)
  <2>. SUFFICES ASSUME NEW y \in all
                PROVE  /\ tg[y] # Null => tg[tg[y]] = Null /\ ch1[y] = ch1[tg[y]]
                       /\ ow1[y] # Null => tg[ow1[y]] = Null
    BY DEF References
  <2>1. CASE y \in lv
    BY <1>0, <1>3, <2>1 DEF Forest, References
  <2>2. CASE y \notin lv
    BY <1>0, <1>4, <1>5, <2>2
  <2>. QED BY <2>1, <2>2
<1>. HIDE DEF all
<1>8. Linked(all, nx1, pv1, ch1, ow1, tg)
  <2>. SUFFICES ASSUME NEW x \in all PROVE LinkedAt(x, nx1, pv1, ch1, ow1, tg)
    BY DEF Linked
  <2>1. CASE x \in lv
    <3>1. LinkedAt(x, nx, pv, ch, ow, tg)
      BY <2>1 DEF Forest, Linked
    <3>2. /\ nx[x] # Null => nx[x] \in lv
          /\ pv[x] # Null => pv[x] \in lv
          /\ ch[x] # Null => ch[x] \in lv
          /\ ow[x] # Null => ow[x] \in lv /\ ch[ow[x]] \in lv \cup {Null}
      BY <1>0, <2>1
    <3>3. /\ nx1[x] = nx[x] /\ pv1[x] = pv[x] /\ ch1[x] = ch[x] /\ ow1[x] = ow[x]
          /\ nx[x] # Null => pv1[nx[x]] = pv[nx[x]] /\ ow1[nx[x]] = ow[nx[x]]
          /\ pv[x] # Null => nx1[pv[x]] = nx[pv[x]] /\ ow1[pv[x]] = ow[pv[x]]
          /\ ch[x] # Null => ow1[ch[x]] = ow[ch[x]]
      BY <1>3, <2>1, <3>2
    <3>4. ow[x] # Null => /\ ch1[ow[x]] = ch[ow[x]]
                          /\ ch[ow[x]] # Null => pv1[ch[ow[x]]] = pv[ch[ow[x]]]
      BY <1>3, <3>2
    <3>. HIDE DEF all
    <3>. QED BY <3>1, <3>3, <3>4, LinkedSame
  <2>2. CASE x = n
    BY <1>2, <1>4, <1>5, <2>2 DEF LinkedAt
  <2>3. CASE x \in S
    <3>. DEFINE k == place[x]
    <3>1. k \in Nat /\ 1 <= k /\ k <= len /\ e[k] = x /\ len # 0
      BY <1>1, <2>3
    <3>2. ow1[x] = n /\ n # Null /\ ch1[n] = e[1] /\ ch1[x] = Null
      BY <1>0, <1>4, <1>5, <2>3, <3>1
    <3>3. nx1[x] # Null => pv1[nx1[x]] = x /\ ow1[nx1[x]] = n
      <4>. SUFFICES ASSUME nx1[x] # Null PROVE pv1[nx1[x]] = x /\ ow1[nx1[x]] = n
        OBVIOUS
      <4>1. k < len /\ nx1[x] = e[k + 1] /\ e[k + 1] \in S /\ place[e[k + 1]] = k + 1
        BY <1>1, <1>5, <2>3
      <4>2. k + 1 # 1 /\ (k + 1) - 1 = k
        BY <3>1
      <4>. QED BY <1>5, <3>1, <4>1, <4>2
    <3>4. pv1[x] \in S /\ ow1[pv1[x]] = n /\ pv1[x] # Null
      BY <1>1, <1>2, <1>5, <2>3
    <3>5. x # e[1] => nx1[pv1[x]] = x
      <4>. SUFFICES ASSUME x # e[1] PROVE nx1[pv1[x]] = x
        OBVIOUS
      <4>1. k # 1
        BY <3>1
      <4>2. pv1[x] = e[k - 1] /\ e[k - 1] \in S /\ place[e[k - 1]] = k - 1
        BY <1>1, <1>5, <2>3, <4>1
      <4>3. k - 1 < len /\ (k - 1) + 1 = k
        BY <3>1
      <4>. QED BY <1>5, <3>1, <4>2, <4>3
    <3>6. x = e[1] => nx1[pv1[x]] = Null
      <4>. SUFFICES ASSUME x = e[1] PROVE nx1[pv1[x]] = Null
        OBVIOUS
      <4>1. k = 1 /\ pv1[x] = e[len] /\ place[e[len]] = len /\ e[len] \in S
        BY <1>2, <1>5, <2>3, <3>1
      <4>2. ASSUME NEW y \in S, place[y] = len PROVE nx1[y] = Null
        BY <1>1, <1>5, <4>2
      <4>3. nx1[e[len]] = Null
        BY <4>1, <4>2
      <4>. QED BY <4>1, <4>3
    <3>7. nx1[x] = Null => pv1[e[1]] = x
      <4>. SUFFICES ASSUME nx1[x] = Null PROVE pv1[e[1]] = x
        OBVIOUS
      <4>1. k = len
        <5>. SUFFICES ASSUME k < len PROVE FALSE
          BY <3>1
        <5>1. nx1[x] = e[k + 1] /\ e[k + 1] \in S
          BY <1>1, <1>5, <2>3
        <5>. QED BY <1>5, <5>1
      <4>. QED BY <1>2, <1>5, <3>1, <4>1
    <3>8. ch1[n] # Null
      BY <1>2, <1>5, <3>1, <3>2
    <3>. QED BY <3>2, <3>3, <3>4, <3>5, <3>6, <3>7, <3>8 DEF LinkedAt
  <2>. QED BY <2>1, <2>2, <2>3 DEF all
<1>9. NoLoop(all, pv1, ch1, ow1)
  <2>. SUFFICES ASSUME NEW C \in SUBSET all, \A x \in C : ow1[x] # Null /\ x # ch1[ow1[x]] /\ pv1[x] \in C
                PROVE  C = {}
    BY DEF NoLoop
  <2>1. C \cap lv = {}
    <3>. DEFINE B == C \cap lv
    <3>1. ASSUME NEW x \in B PROVE ow[x] # Null /\ x # ch[ow[x]] /\ pv[x] \in B
      <4>1. ow1[x] = ow[x] /\ pv1[x] = pv[x] /\ x \in C
        BY <1>3
      <4>2. ow[x] # Null /\ ow[x] \in lv
        <5>1. ow1[x] # Null
          BY <4>1
        <5>. QED BY <1>0, <4>1, <5>1
      <4>3. x # ch[ow[x]]
        BY <1>3, <4>1, <4>2
      <4>4. pv[x] \in lv
        BY <1>0, <4>2 DEF Forest, Linked, LinkedAt
      <4>. QED BY <4>1, <4>2, <4>3, <4>4
    <3>2. B \in SUBSET lv
      OBVIOUS
    <3>. HIDE DEF B
    <3>3. B = {}
      BY <3>1, <3>2 DEF Forest, NoLoop
    <3>. QED BY <3>3 DEF B
  <2>2. C \subseteq S
    BY <1>4, <2>1 DEF all
  <2>. SUFFICES ASSUME C # {} PROVE FALSE
    OBVIOUS
  <2>. DEFINE K == {place[x] : x \in C}
  <2>3. K \in SUBSET Nat /\ K # {}
    BY <1>1, <2>2
  <2>4. PICK k \in K : \A j \in K : k <= j
    <3>. HIDE DEF K
    <3>. QED BY <2>3, LeastNumber
  <2>5. PICK x \in C : place[x] = k
    OBVIOUS
  <2>6. ow1[x] = n /\ x # e[1] /\ len # 0
    BY <1>1, <1>4, <1>5, <2>2
  <2>7. k # 1
    BY <1>1, <2>2, <2>5, <2>6
  <2>8. e[k - 1] \in C /\ place[e[k - 1]] = k - 1
    BY <1>1, <1>5, <2>2, <2>5, <2>7
  <2>9. k - 1 \in K
    BY <2>8
  <2>10. k \in Nat
    BY <2>3
  <2>. QED BY <2>4, <2>9, <2>10
<1>10. NoCycle(all, ow1, tg)
  <2>. SUFFICES ASSUME NEW C \in SUBSET all, \A x \in C : ow1[x] # Null /\ \E q \in C : Shows(q, x, ow1, tg)
                PROVE  C = {}
    BY DEF NoCycle
  <2>1. n \notin C
    BY <1>4
  <2>2. C \cap S = {}
    <3>. SUFFICES ASSUME NEW x \in C, x \in S PROVE FALSE
      OBVIOUS
    <3>1. PICK q \in C : ow1[x] = q \/ ow1[x] = tg[q]
      BY DEF Shows
    <3>2. ow1[x] = n /\ q \in Nodes /\ tg[q] # n
      BY <1>0, <1>5 DEF all
    <3>. QED BY <2>1, <3>1, <3>2
  <2>3. C \in SUBSET lv
    BY <2>1, <2>2 DEF all
  <2>4. \A x \in C : ow1[x] = ow[x]
    BY <1>3, <2>3
  <2>5. \A x \in C, q \in C : Shows(q, x, ow1, tg) => Shows(q, x, ow, tg)
    BY <2>4 DEF Shows
  <2>6. \A x \in C : ow[x] # Null /\ \E q \in C : Shows(q, x, ow, tg)
    BY <2>4, <2>5
  <2>. QED BY <2>3, <2>6 DEF Forest, NoCycle
<1>. QED BY <1>6, <1>7, <1>8, <1>9, <1>10 DEF Forest, all

\* D is what is below n, each other item of it in the list that h of it shows, and no list twice.
Copyable(D, n, h, lv, nx, ch, ow, tg) ==
  /\ \A m, x \in D : m # x => ch[m] # ch[x] \/ ch[m] = Null
  /\ \A m \in D : /\ ch[m] # Null => ch[m] \in D
                  /\ m # n /\ nx[m] # Null => nx[m] \in D
  /\ \A m \in D \ {n} : ow[m] # Null /\ h[m] \in D /\ Shows(h[m], m, ow, tg)
  /\ ow[n] # Null => \A q \in D : ~Shows(q, n, ow, tg)
  /\ \A q \in D, x \in lv : ow[x] # Null /\ Shows(q, x, ow, tg) => x \in D

\* The links of the copies f[m] of the items m of D, which are those of S.
CopyOf(D, n, h, f, S, lv, nx, pv, ch, ow, nx1, pv1, ch1, ow1) ==
  /\ \A m \in D : f[m] \in Nodes \ lv
  /\ \A m, x \in D : f[m] = f[x] => m = x
  /\ S = {f[m] : m \in D}
  /\ \A y \in Nodes \ S : nx1[y] = nx[y] /\ pv1[y] = pv[y] /\ ch1[y] = ch[y] /\ ow1[y] = ow[y]
  /\ \A m \in D : /\ nx1[f[m]] = IF m = n \/ nx[m] \notin D THEN Null ELSE f[nx[m]]
                  /\ pv1[f[m]] = IF m = n \/ pv[m] \notin D THEN Null ELSE f[pv[m]]
                  /\ ch1[f[m]] = IF ch[m] \notin D THEN Null ELSE f[ch[m]]
                  /\ ow1[f[m]] = IF m = n THEN Null ELSE f[h[m]]

\* cJSON_Duplicate of all D that n shows
LEMMA CopyKeeps ==
  ASSUME NEW lv, NEW nx, NEW pv, NEW ch, NEW ow, NEW tg, Forest(lv, nx, pv, ch, ow, tg),
         NEW D \in SUBSET lv, NEW n \in D, NEW h, NEW f, NEW S,
         NEW nx1 \in [Nodes -> lv \cup S \cup {Null}], NEW pv1 \in [Nodes -> lv \cup S \cup {Null}],
         NEW ch1 \in [Nodes -> lv \cup S \cup {Null}], NEW ow1 \in [Nodes -> lv \cup S \cup {Null}],
         Copyable(D, n, h, lv, nx, ch, ow, tg),
         CopyOf(D, n, h, f, S, lv, nx, pv, ch, ow, nx1, pv1, ch1, ow1)
  PROVE  Forest(lv \cup S, nx1, pv1, ch1, ow1, tg)
<1>. SUFFICES ASSUME /\ \A m, x \in D : m # x => ch[m] # ch[x] \/ ch[m] = Null
                     /\ \A m \in D : /\ ch[m] # Null => ch[m] \in D
                                     /\ m # n /\ nx[m] # Null => nx[m] \in D
                     /\ \A m \in D \ {n} : ow[m] # Null /\ h[m] \in D /\ Shows(h[m], m, ow, tg)
                     /\ ow[n] # Null => \A q \in D : ~Shows(q, n, ow, tg)
                     /\ \A q \in D, x \in lv : ow[x] # Null /\ Shows(q, x, ow, tg) => x \in D
                     /\ \A m \in D : f[m] \in Nodes \ lv
                     /\ \A m, x \in D : f[m] = f[x] => m = x
                     /\ S = {f[m] : m \in D}
                     /\ \A y \in Nodes \ S : nx1[y] = nx[y] /\ pv1[y] = pv[y] /\ ch1[y] = ch[y] /\ ow1[y] = ow[y]
                     /\ \A m \in D : /\ nx1[f[m]] = IF m = n \/ nx[m] \notin D THEN Null ELSE f[nx[m]]
                                     /\ pv1[f[m]] = IF m = n \/ pv[m] \notin D THEN Null ELSE f[pv[m]]
                                     /\ ch1[f[m]] = IF ch[m] \notin D THEN Null ELSE f[ch[m]]
                                     /\ ow1[f[m]] = IF m = n THEN Null ELSE f[h[m]]
              PROVE  Forest(lv \cup S, nx1, pv1, ch1, ow1, tg)
  BY DEF Copyable, CopyOf
<1>0. /\ lv \subseteq Nodes /\ Null \notin Nodes
      /\ nx \in [Nodes -> lv \cup {Null}] /\ pv \in [Nodes -> lv \cup {Null}]
      /\ ch \in [Nodes -> lv \cup {Null}] /\ ow \in [Nodes -> lv \cup {Null}]
      /\ tg \in [Nodes -> lv \cup {Null}]
      /\ \A y \in Nodes \ lv : nx[y] = Null /\ pv[y] = Null /\ ch[y] = Null /\ ow[y] = Null /\ tg[y] = Null
  BY TreeAssumption DEF Forest, Typed
<1>1. S \subseteq Nodes \ lv
  OBVIOUS
<1>2. \A y \in lv : nx1[y] = nx[y] /\ pv1[y] = pv[y] /\ ch1[y] = ch[y] /\ ow1[y] = ow[y]
  BY <1>0, <1>1
\* A list that one of D shows is shown by that one only, and D has all of it but not n.
<1>3. ASSUME NEW q \in D, NEW x \in lv, ow[x] # Null, Shows(q, x, ow, tg)
      PROVE  x \in D \ {n} /\ h[x] = q /\ ch[q] = ch[ow[x]] /\ ch[q] # Null
  <2>1. x \in D \ {n}
    BY <1>3
  <2>2. ASSUME NEW r \in D, Shows(r, x, ow, tg) PROVE ch[r] = ch[ow[x]]
    BY <1>0, <1>3, <2>2 DEF Shows, Forest, References
  <2>3. ch[ow[x]] # Null
    BY <1>3 DEF Forest, Linked, LinkedAt
  <2>. QED BY <1>3, <2>1, <2>2, <2>3
<1>4. ASSUME NEW m \in D \ {n}
      PROVE  /\ nx[m] # Null => nx[m] \in D \ {n} /\ h[nx[m]] = h[m] /\ pv[nx[m]] = m
             /\ pv[m] \in D \ {n} /\ h[pv[m]] = h[m] /\ h[m] \in D
             /\ ch[h[m]] = ch[ow[m]] /\ ch[h[m]] \in D \ {n}
             /\ m # ch[h[m]] => nx[pv[m]] = m
             /\ m = ch[h[m]] => nx[pv[m]] = Null
             /\ nx[m] = Null => pv[ch[h[m]]] = m
  <2>1. ow[m] # Null /\ h[m] \in D /\ Shows(h[m], m, ow, tg) /\ m \in lv
    OBVIOUS
  <2>2. LinkedAt(m, nx, pv, ch, ow, tg) /\ ow[m] \in lv /\ tg[ow[m]] = Null
    BY <1>0, <2>1 DEF Forest, Linked, References
  <2>3. ch[h[m]] = ch[ow[m]] /\ ch[h[m]] # Null
    BY <1>3, <2>1
  <2>4. nx[m] # Null => nx[m] \in lv /\ ow[nx[m]] = ow[m] /\ pv[nx[m]] = m
    BY <1>0, <2>1, <2>2 DEF LinkedAt
  <2>5. pv[m] \in lv /\ ow[pv[m]] = ow[m]
    BY <1>0, <2>1, <2>2 DEF LinkedAt
  <2>6. ch[ow[m]] \in lv /\ ow[ch[ow[m]]] = ow[m]
    <3>1. ch[ow[m]] \in lv /\ LinkedAt(ow[m], nx, pv, ch, ow, tg)
      BY <1>0, <2>2, <2>3 DEF Forest, Linked
    <3>. QED BY <1>0, <2>2, <3>1 DEF LinkedAt
  <2>7. \A x \in lv : ow[x] = ow[m] => Shows(h[m], x, ow, tg)
    BY <2>1 DEF Shows
  <2>8. nx[m] # Null => nx[m] \in D \ {n} /\ h[nx[m]] = h[m]
    BY <1>3, <2>1, <2>4, <2>7
  <2>9. pv[m] \in D \ {n} /\ h[pv[m]] = h[m]
    BY <1>3, <2>1, <2>5, <2>7
  <2>10. ch[ow[m]] \in D \ {n}
    BY <1>3, <2>1, <2>6, <2>7
  <2>11. /\ m # ch[h[m]] => nx[pv[m]] = m
         /\ m = ch[h[m]] => nx[pv[m]] = Null
         /\ nx[m] = Null => pv[ch[h[m]]] = m
    BY <2>1, <2>2, <2>3 DEF LinkedAt
  <2>. QED BY <2>1, <2>3, <2>4, <2>8, <2>9, <2>10, <2>11
<1>5. ASSUME NEW m \in D, ch[m] # Null PROVE ch[m] \in D \ {n} /\ h[ch[m]] = m
  <2>1. ch[m] \in lv /\ ow[ch[m]] # Null /\ Shows(m, ch[m], ow, tg)
    <3>1. CASE tg[m] = Null
      <4>1. ow[ch[m]] = m
        BY <1>0, <1>5, <3>1 DEF Forest, Linked, LinkedAt
      <4>. QED BY <1>0, <1>5, <4>1 DEF Shows
    <3>2. CASE tg[m] # Null
      <4>1. tg[m] \in lv /\ tg[tg[m]] = Null /\ ch[m] = ch[tg[m]]
        BY <1>0, <3>2 DEF Forest, References
      <4>2. ow[ch[m]] = tg[m]
        BY <1>5, <4>1 DEF Forest, Linked, LinkedAt
      <4>. QED BY <1>0, <1>5, <3>2, <4>2 DEF Shows
    <3>. QED BY <3>1, <3>2
  <2>. QED BY <1>3, <2>1
<1>6. ASSUME NEW m \in D \ {n}
      PROVE  /\ nx1[f[m]] = IF nx[m] = Null THEN Null ELSE f[nx[m]]
             /\ pv1[f[m]] = f[pv[m]] /\ ow1[f[m]] = f[h[m]]
  BY <1>0, <1>4
<1>7. \A m \in D : ch1[f[m]] = IF ch[m] = Null THEN Null ELSE f[ch[m]]
  BY <1>0, <1>5
<1>8. \A m \in D : f[m] \in S /\ f[m] # Null /\ f[m] \notin lv /\ tg[f[m]] = Null
  BY <1>0
<1>9. nx1[f[n]] = Null /\ pv1[f[n]] = Null /\ ow1[f[n]] = Null
  OBVIOUS
<1>10. Typed(lv \cup S, nx1, pv1, ch1, ow1, tg)
  BY <1>0, <1>1 DEF Typed
<1>11. References(lv \cup S, ch1, ow1, tg)
  <2>. SUFFICES ASSUME NEW y \in lv \cup S
                PROVE  /\ tg[y] # Null => tg[tg[y]] = Null /\ ch1[y] = ch1[tg[y]]
                       /\ ow1[y] # Null => tg[ow1[y]] = Null
    BY DEF References
  <2>1. CASE y \in lv
    BY <1>0, <1>2, <2>1 DEF Forest, References
  <2>2. CASE y \in S
    <3>1. PICK m \in D : y = f[m]
      BY <2>2
    <3>. QED BY <1>4, <1>6, <1>8, <1>9, <3>1
  <2>. QED BY <2>1, <2>2
<1>12. Linked(lv \cup S, nx1, pv1, ch1, ow1, tg)
  <2>. SUFFICES ASSUME NEW y \in lv \cup S PROVE LinkedAt(y, nx1, pv1, ch1, ow1, tg)
    BY DEF Linked
  <2>1. CASE y \in lv
    <3>1. LinkedAt(y, nx, pv, ch, ow, tg)
      BY <2>1 DEF Forest, Linked
    <3>2. /\ nx[y] # Null => nx[y] \in lv
          /\ pv[y] # Null => pv[y] \in lv
          /\ ch[y] # Null => ch[y] \in lv
          /\ ow[y] # Null => ow[y] \in lv /\ ch[ow[y]] \in lv \cup {Null}
      BY <1>0, <2>1
    <3>. QED BY <1>2, <2>1, <3>1, <3>2 DEF LinkedAt
  <2>2. CASE y \in S
    <3>1. PICK m \in D : y = f[m]
      BY <2>2
    <3>2. ch1[y] # Null => ow1[ch1[y]] = y
      BY <1>5, <1>6, <1>7, <3>1
    <3>3. CASE m = n
      BY <1>9, <3>1, <3>2, <3>3 DEF LinkedAt
    <3>4. CASE m # n
      <4>1. nx1[y] # Null => pv1[nx1[y]] = y /\ ow1[nx1[y]] = ow1[y]
        BY <1>4, <1>6, <3>1, <3>4
      <4>2. ow1[y] = f[h[m]] /\ ow1[y] # Null /\ pv1[y] = f[pv[m]] /\ pv1[y] # Null /\ ow1[pv1[y]] = ow1[y]
        BY <1>4, <1>6, <1>8, <3>1, <3>4
      <4>3. ch1[ow1[y]] = f[ch[h[m]]] /\ ch1[ow1[y]] # Null
        BY <1>0, <1>4, <1>7, <1>8, <3>1, <3>4, <4>2
      <4>4. y = ch1[ow1[y]] <=> m = ch[h[m]]
        BY <1>4, <3>1, <3>4, <4>3
      <4>5. nx1[pv1[y]] = IF nx[pv[m]] = Null THEN Null ELSE f[nx[pv[m]]]
        BY <1>4, <1>6, <3>1, <3>4, <4>2
      <4>6. y # ch1[ow1[y]] => nx1[pv1[y]] = y
        BY <1>0, <1>4, <3>1, <3>4, <4>4, <4>5
      <4>7. y = ch1[ow1[y]] => nx1[pv1[y]] = Null
        BY <1>4, <3>1, <3>4, <4>4, <4>5
      <4>8. nx1[y] = Null => pv1[ch1[ow1[y]]] = y
        <5>. SUFFICES ASSUME nx1[y] = Null PROVE pv1[ch1[ow1[y]]] = y
          OBVIOUS
        <5>1. nx[m] = Null
          BY <1>4, <1>6, <1>8, <3>1, <3>4
        <5>. QED BY <1>4, <1>6, <3>1, <3>4, <4>3, <5>1
      <4>. QED BY <3>2, <4>1, <4>2, <4>3, <4>6, <4>7, <4>8 DEF LinkedAt
    <3>. QED BY <3>3, <3>4
  <2>. QED BY <2>1, <2>2
<1>13. NoLoop(lv \cup S, pv1, ch1, ow1)
  <2>. SUFFICES ASSUME NEW C \in SUBSET (lv \cup S),
                       \A x \in C : ow1[x] # Null /\ x # ch1[ow1[x]] /\ pv1[x] \in C
                PROVE  C = {}
    BY DEF NoLoop
  <2>1. C \cap lv = {}
    <3>. DEFINE B == C \cap lv
    <3>1. ASSUME NEW x \in B PROVE ow[x] # Null /\ x # ch[ow[x]] /\ pv[x] \in B
      <4>1. ow1[x] = ow[x] /\ pv1[x] = pv[x] /\ x \in C
        BY <1>2
      <4>2. ow[x] # Null /\ ow[x] \in lv
        BY <1>0, <4>1
      <4>3. x # ch[ow[x]]
        BY <1>2, <4>1, <4>2
      <4>4. pv[x] \in lv
        BY <1>0, <4>2 DEF Forest, Linked, LinkedAt
      <4>. QED BY <4>1, <4>2, <4>3, <4>4
    <3>2. B \in SUBSET lv
      OBVIOUS
    <3>. HIDE DEF B
    <3>3. B = {}
      BY <3>1, <3>2 DEF Forest, NoLoop
    <3>. QED BY <3>3 DEF B
  <2>. DEFINE B == {m \in D : f[m] \in C}
  <2>2. ASSUME NEW m \in B PROVE ow[m] # Null /\ m # ch[ow[m]] /\ pv[m] \in B
    <3>1. m \in D /\ m # n /\ f[m] \in C
      BY <1>9
    <3>2. ow1[f[m]] = f[h[m]] /\ pv1[f[m]] = f[pv[m]] /\ h[m] \in D /\ ch[h[m]] = ch[ow[m]]
          /\ ch[h[m]] \in D /\ pv[m] \in D /\ ow[m] # Null
      BY <1>4, <1>6, <3>1
    <3>3. ch1[f[h[m]]] = f[ch[h[m]]]
      BY <1>0, <1>7, <3>2
    <3>. QED BY <3>1, <3>2, <3>3
  <2>3. B \in SUBSET lv
    OBVIOUS
  <2>4. B = {}
    <3>. HIDE DEF B
    <3>. QED BY <2>2, <2>3 DEF Forest, NoLoop
  <2>. QED BY <2>1, <2>4
<1>14. NoCycle(lv \cup S, ow1, tg)
  <2>. SUFFICES ASSUME NEW C \in SUBSET (lv \cup S),
                       \A x \in C : ow1[x] # Null /\ \E q \in C : Shows(q, x, ow1, tg)
                PROVE  C = {}
    BY DEF NoCycle
  <2>1. C \cap lv = {}
    <3>. DEFINE B == C \cap lv
    <3>1. ASSUME NEW x \in B PROVE ow[x] # Null /\ \E q \in B : Shows(q, x, ow, tg)
      <4>1. ow1[x] = ow[x] /\ x \in C /\ x \in lv
        BY <1>2
      <4>2. PICK q \in C : ow[x] = q \/ ow[x] = tg[q]
        BY <4>1 DEF Shows
      <4>3. ow[x] \in lv
        BY <1>0, <4>1
      <4>4. q \in lv
        BY <1>0, <1>8, <4>2, <4>3
      <4>. QED BY <4>1, <4>2, <4>3, <4>4, <1>0 DEF Shows
    <3>2. B \in SUBSET lv
      OBVIOUS
    <3>. HIDE DEF B
    <3>3. B = {}
      BY <3>1, <3>2 DEF Forest, NoCycle
    <3>. QED BY <3>3 DEF B
  <2>. DEFINE B == {m \in D : f[m] \in C}
  <2>2. ASSUME NEW m \in B PROVE ow[m] # Null /\ \E q \in B : Shows(q, m, ow, tg)
    <3>1. m \in D /\ m # n /\ f[m] \in C
      BY <1>9
    <3>2. ow1[f[m]] = f[h[m]] /\ h[m] \in D
      BY <1>4, <1>6, <3>1
    <3>3. PICK q \in C : ow1[f[m]] = q \/ ow1[f[m]] = tg[q]
      BY <3>1 DEF Shows
    <3>4. q \in S /\ tg[q] = Null
      BY <1>0, <1>1, <2>1
    <3>5. h[m] \in B
      BY <1>8, <3>2, <3>3, <3>4
    <3>. QED BY <3>1, <3>5
  <2>3. B \in SUBSET lv
    OBVIOUS
  <2>4. B = {}
    <3>. HIDE DEF B
    <3>. QED BY <2>2, <2>3 DEF Forest, NoCycle
  <2>. QED BY <2>1, <2>4
<1>. QED BY <1>10, <1>11, <1>12, <1>13, <1>14 DEF Forest

--------------------------------------------------------------------------------
(* The number of strings *)

Named(S, d) == {n \in S : d[n].name # NoName /\ ~d[n].const}
Worded(S, d) == {n \in S : d[n].kind \in Texts /\ ~d[n].ref}
Owned(S, d) == Cardinality(Named(S, d)) + Cardinality(Worded(S, d))

\* What one item owns.
NameOf(i) == IF i.name # NoName /\ ~i.const THEN 1 ELSE 0
TextOf(i) == IF i.kind \in Texts /\ ~i.ref THEN 1 ELSE 0

\* OwnedStrings, of the data there is now.
LEMMA OwnedIs == \A S : OwnedStrings(S) = Owned(S, data)
BY DEF OwnedStrings, OwnsName, OwnsText, Owned, Named, Worded

\* The counts are numbers.
LEMMA OwnedNat ==
  ASSUME NEW S \in SUBSET Nodes, NEW d
  PROVE  /\ IsFiniteSet(Named(S, d)) /\ IsFiniteSet(Worded(S, d))
         /\ Cardinality(Named(S, d)) \in Nat /\ Cardinality(Worded(S, d)) \in Nat
         /\ Owned(S, d) \in Nat
<1>1. Named(S, d) \in SUBSET Nodes /\ Worded(S, d) \in SUBSET Nodes
  BY DEF Named, Worded
<1>2. IsFiniteSet(Named(S, d)) /\ IsFiniteSet(Worded(S, d))
  BY <1>1, FS_Subset, TreeAssumption
<1>3. Cardinality(Named(S, d)) \in Nat /\ Cardinality(Worded(S, d)) \in Nat
  BY <1>2, FS_CardinalityType
<1>. QED BY <1>2, <1>3 DEF Owned

\* Items that stay as they are own what they owned.
LEMMA OwnedSame ==
  ASSUME NEW S, NEW d, NEW d1, \A n \in S : d1[n] = d[n]
  PROVE  Owned(S, d1) = Owned(S, d)
<1>1. Named(S, d1) = Named(S, d) /\ Worded(S, d1) = Worded(S, d)
  BY DEF Named, Worded
<1>. QED BY <1>1 DEF Owned

\* One more item owns what it owns.
LEMMA OwnedAdd ==
  ASSUME NEW S \in SUBSET Nodes, NEW d, NEW n \in Nodes \ S
  PROVE  Owned(S \cup {n}, d) = Owned(S, d) + NameOf(d[n]) + TextOf(d[n])
<1>1. Cardinality(Named(S \cup {n}, d)) = Cardinality(Named(S, d)) + NameOf(d[n])
  <2>1. CASE d[n].name # NoName /\ ~d[n].const
    <3>1. Named(S \cup {n}, d) = Named(S, d) \cup {n} /\ n \notin Named(S, d)
      BY <2>1 DEF Named
    <3>2. Cardinality(Named(S, d) \cup {n}) = Cardinality(Named(S, d)) + 1
      BY <3>1, OwnedNat, FS_AddElement
    <3>. QED BY <2>1, <3>1, <3>2 DEF NameOf
  <2>2. CASE ~(d[n].name # NoName /\ ~d[n].const)
    <3>1. Named(S \cup {n}, d) = Named(S, d) /\ NameOf(d[n]) = 0
      BY <2>2 DEF Named, NameOf
    <3>. QED BY <3>1, OwnedNat
  <2>. QED BY <2>1, <2>2
<1>2. Cardinality(Worded(S \cup {n}, d)) = Cardinality(Worded(S, d)) + TextOf(d[n])
  <2>1. CASE d[n].kind \in Texts /\ ~d[n].ref
    <3>1. Worded(S \cup {n}, d) = Worded(S, d) \cup {n} /\ n \notin Worded(S, d)
      BY <2>1 DEF Worded
    <3>2. Cardinality(Worded(S, d) \cup {n}) = Cardinality(Worded(S, d)) + 1
      BY <3>1, OwnedNat, FS_AddElement
    <3>. QED BY <2>1, <3>1, <3>2 DEF TextOf
  <2>2. CASE ~(d[n].kind \in Texts /\ ~d[n].ref)
    <3>1. Worded(S \cup {n}, d) = Worded(S, d) /\ TextOf(d[n]) = 0
      BY <2>2 DEF Worded, TextOf
    <3>. QED BY <3>1, OwnedNat
  <2>. QED BY <2>1, <2>2
<1>3. NameOf(d[n]) \in Nat /\ TextOf(d[n]) \in Nat
  BY DEF NameOf, TextOf
<1>. QED BY <1>1, <1>2, <1>3, OwnedNat DEF Owned

\* Items that are different own different strings.
LEMMA OwnedUnion ==
  ASSUME NEW S \in SUBSET Nodes, NEW T \in SUBSET Nodes, S \cap T = {}, NEW d
  PROVE  Owned(S \cup T, d) = Owned(S, d) + Owned(T, d)
<1>1. /\ Named(S \cup T, d) = Named(S, d) \cup Named(T, d) /\ Named(S, d) \cap Named(T, d) = {}
      /\ Worded(S \cup T, d) = Worded(S, d) \cup Worded(T, d) /\ Worded(S, d) \cap Worded(T, d) = {}
  BY DEF Named, Worded
<1>2. Cardinality({}) = 0
  BY FS_EmptySet
<1>3. /\ IsFiniteSet(Named(S, d)) /\ IsFiniteSet(Named(T, d))
      /\ IsFiniteSet(Worded(S, d)) /\ IsFiniteSet(Worded(T, d))
      /\ Cardinality(Named(S, d)) \in Nat /\ Cardinality(Named(T, d)) \in Nat
      /\ Cardinality(Worded(S, d)) \in Nat /\ Cardinality(Worded(T, d)) \in Nat
  BY OwnedNat
<1>4. Cardinality(Named(S, d) \cup Named(T, d))
        = Cardinality(Named(S, d)) + Cardinality(Named(T, d)) - Cardinality(Named(S, d) \cap Named(T, d))
  BY <1>3, FS_Union
<1>5. Cardinality(Worded(S, d) \cup Worded(T, d))
        = Cardinality(Worded(S, d)) + Cardinality(Worded(T, d)) - Cardinality(Worded(S, d) \cap Worded(T, d))
  BY <1>3, FS_Union
<1>6. Cardinality(Named(S, d) \cap Named(T, d)) = 0 /\ Cardinality(Worded(S, d) \cap Worded(T, d)) = 0
  BY <1>1, <1>2, Zenon
<1>7. /\ Cardinality(Named(S \cup T, d)) = Cardinality(Named(S, d) \cup Named(T, d))
      /\ Cardinality(Worded(S \cup T, d)) = Cardinality(Worded(S, d) \cup Worded(T, d))
  BY <1>1, Zenon
<1>. QED BY <1>3, <1>4, <1>5, <1>6, <1>7 DEF Owned

\* One item of S changes.
LEMMA OwnedChange ==
  ASSUME NEW S \in SUBSET Nodes, NEW n \in S, NEW d, NEW d1, \A m \in S \ {n} : d1[m] = d[m]
  PROVE  Owned(S, d1) = Owned(S, d) - NameOf(d[n]) - TextOf(d[n]) + NameOf(d1[n]) + TextOf(d1[n])
<1>. DEFINE R == S \ {n}
<1>1. R \in SUBSET Nodes /\ n \in Nodes \ R /\ S = R \cup {n}
  OBVIOUS
<1>. HIDE DEF R
<1>2. Owned(S, d1) = Owned(R, d1) + NameOf(d1[n]) + TextOf(d1[n])
  BY <1>1, OwnedAdd
<1>3. Owned(S, d) = Owned(R, d) + NameOf(d[n]) + TextOf(d[n])
  BY <1>1, OwnedAdd
<1>4. Owned(R, d1) = Owned(R, d)
  BY OwnedSame DEF R
<1>5. /\ NameOf(d[n]) \in Nat /\ TextOf(d[n]) \in Nat /\ NameOf(d1[n]) \in Nat /\ TextOf(d1[n]) \in Nat
      /\ Owned(R, d) \in Nat
  BY <1>1, OwnedNat DEF NameOf, TextOf
<1>. QED BY <1>2, <1>3, <1>4, <1>5

\* Two sets that correspond are of one size.
LEMMA SameSize ==
  ASSUME NEW A \in SUBSET Nodes, NEW B, NEW g, \A a \in A : g[a] \in B,
         \A a, b \in A : g[a] = g[b] => a = b, \A b \in B : \E a \in A : b = g[a]
  PROVE  Cardinality(B) = Cardinality(A)
<1>. DEFINE k == [a \in A |-> g[a]]
<1>1. k \in Bijection(A, B)
  BY DEF Bijection, Injection, Surjection, IsInjective
<1>2. ExistsBijection(A, B)
  BY <1>1 DEF ExistsBijection
<1>3. IsFiniteSet(A)
  BY FS_Subset, TreeAssumption
<1>. QED BY <1>2, <1>3, FS_Bijection

--------------------------------------------------------------------------------
(* The inductive invariant *)

Links == Forest(live, next, prev, child, owner, target)

\* The items that do not exist are blank, and those marked as references have an origin.
Items ==
  /\ data \in [Nodes -> [kind : Kinds, ref : BOOLEAN, name : Names \cup {NoName}, const : BOOLEAN]]
  /\ \A n \in Nodes : data[n].ref <=> target[n] # Null
  /\ \A n \in Nodes \ live : data[n] = Blank

\* The caller holds the roots, but for references that were dropped.
Roots ==
  /\ held \subseteq live
  /\ \A n \in held : owner[n] = Null
  /\ \A n \in live : owner[n] = Null /\ ~data[n].ref => n \in held

Strings == strings = OwnedStrings(live)

JsonInv == Links /\ Items /\ Roots /\ Strings

\* The types in Links.
LEMMA LinksTyped ==
  ASSUME Links
  PROVE  /\ live \subseteq Nodes /\ Null \notin Nodes
         /\ next \in [Nodes -> live \cup {Null}] /\ prev \in [Nodes -> live \cup {Null}]
         /\ child \in [Nodes -> live \cup {Null}] /\ owner \in [Nodes -> live \cup {Null}]
         /\ target \in [Nodes -> live \cup {Null}]
         /\ \A y \in Nodes \ live : /\ next[y] = Null /\ prev[y] = Null /\ child[y] = Null
                                    /\ owner[y] = Null /\ target[y] = Null
BY TreeAssumption DEF Links, Forest, Typed

\* What one sees from n is below it: the items that it, or one of them, shows.
LEMMA ShownIs ==
  ASSUME Links, NEW n \in live
  PROVE  /\ n \in Shown(n) /\ Shown(n) \subseteq live
         /\ \A x \in Shown(n) \ {n} : owner[x] # Null /\ \E q \in Shown(n) : Shows(q, x, owner, target)
         /\ owner[n] # Null => \A q \in Shown(n) : ~Shows(q, n, owner, target)
         /\ \A q \in Shown(n), x \in live : owner[x] # Null /\ Shows(q, x, owner, target) => x \in Shown(n)
         /\ \A m \in Shown(n) : /\ child[m] # Null => child[m] \in Shown(n)
                                /\ m # n /\ next[m] # Null => next[m] \in Shown(n)
<1>. DEFINE succ == [m \in Nodes |-> NonNull(child[m]) \cup (IF m = n THEN {} ELSE NonNull(next[m]))]
            X == Shown(n)
<1>1. X = Reached({n}, succ)
  BY DEF Shown
<1>2. succ \in [Nodes -> SUBSET Nodes] /\ {n} \in SUBSET Nodes
  BY LinksTyped DEF NonNull
<1>3. \A m \in Nodes : succ[m] = NonNull(child[m]) \cup (IF m = n THEN {} ELSE NonNull(next[m]))
  BY Zenon
<1>. HIDE DEF succ, X
<1>4. n \in X /\ X \subseteq Nodes /\ \A m \in X : succ[m] \subseteq X
  BY <1>1, <1>2, ReachedClosed
<1>5. \A S \in SUBSET Nodes : n \in S /\ (\A m \in S : succ[m] \subseteq S) => X \subseteq S
  BY <1>1, ReachedLeast
<1>6. \A m \in X : /\ child[m] # Null => child[m] \in X
                   /\ m # n /\ next[m] # Null => next[m] \in X
  BY <1>3, <1>4 DEF NonNull
<1>7. \A S \in SUBSET live : n \in S /\ (\A m \in S : /\ child[m] # Null => child[m] \in S
                                                      /\ m # n /\ next[m] # Null => next[m] \in S)
                             => X \subseteq S
  <2>. SUFFICES ASSUME NEW S \in SUBSET live, n \in S,
                       \A m \in S : /\ child[m] # Null => child[m] \in S
                                    /\ m # n /\ next[m] # Null => next[m] \in S
                PROVE  X \subseteq S
    OBVIOUS
  <2>1. \A m \in S : succ[m] \subseteq S
    BY <1>3, LinksTyped DEF NonNull
  <2>. QED BY <1>5, <2>1, LinksTyped
<1>8. X \subseteq live
  <2>1. \A m \in live : /\ child[m] # Null => child[m] \in live
                        /\ next[m] # Null => next[m] \in live
    BY LinksTyped
  <2>. QED BY <1>7, <2>1
<1>9. Below(X, n, live, live, next, child)
  BY <1>4, <1>6, <1>7, <1>8 DEF Below
<1>10. X \cap live = X
  BY <1>8
<1>. QED BY <1>4, <1>6, <1>9, <1>10, BelowIs DEF Links, X

\* What is freed with n is below it: what n owns, or one of the others does.
Subtree(F, n, ow) ==
  /\ n \in F /\ ow[n] \notin F
  /\ \A x \in live : ow[x] \in F => x \in F
  /\ \A x \in F : x # n => ow[x] \in F

\* cJSON_Delete frees what is below its argument, not through references.
LEMMA FreedIs ==
  ASSUME Links, Items, NEW n \in live
  PROVE  Freed(n) \subseteq live /\ Subtree(Freed(n), n, owner) /\ Freed(n) \subseteq Shown(n)
<1>. DEFINE succ == [m \in Nodes |-> (IF data[m].ref THEN {} ELSE NonNull(child[m]))
                                     \cup (IF m = n THEN {} ELSE NonNull(next[m]))]
            X == Freed(n)
            R == {m \in live : target[m] = Null}
<1>1. X = Reached({n}, succ)
  BY DEF Freed
<1>2. succ \in [Nodes -> SUBSET Nodes] /\ {n} \in SUBSET Nodes
  BY LinksTyped DEF NonNull
<1>3. \A m \in Nodes : succ[m] = (IF target[m] # Null THEN {} ELSE NonNull(child[m]))
                                 \cup (IF m = n THEN {} ELSE NonNull(next[m]))
  BY DEF Items
<1>. HIDE DEF succ, X
<1>4. n \in X /\ X \subseteq Nodes /\ \A m \in X : succ[m] \subseteq X
  BY <1>1, <1>2, ReachedClosed
<1>5. \A S \in SUBSET Nodes : n \in S /\ (\A m \in S : succ[m] \subseteq S) => X \subseteq S
  BY <1>1, ReachedLeast
<1>6. \A m \in X : /\ m \in R /\ child[m] # Null => child[m] \in X
                   /\ m # n /\ next[m] # Null => next[m] \in X
  BY <1>3, <1>4 DEF NonNull
<1>7. \A S \in SUBSET live : n \in S /\ (\A m \in S : /\ m \in R /\ child[m] # Null => child[m] \in S
                                                      /\ m # n /\ next[m] # Null => next[m] \in S)
                             => X \subseteq S
  <2>. SUFFICES ASSUME NEW S \in SUBSET live, n \in S,
                       \A m \in S : /\ m \in R /\ child[m] # Null => child[m] \in S
                                    /\ m # n /\ next[m] # Null => next[m] \in S
                PROVE  X \subseteq S
    OBVIOUS
  <2>1. \A m \in S : succ[m] \subseteq S
    BY <1>3, LinksTyped DEF NonNull
  <2>. QED BY <1>5, <2>1, LinksTyped
<1>8. X \subseteq live
  <2>1. \A m \in live : /\ child[m] # Null => child[m] \in live
                        /\ next[m] # Null => next[m] \in live
    BY LinksTyped
  <2>. QED BY <1>7, <2>1
<1>9. Below(X, n, R, live, next, child)
  <2>. HIDE DEF R
  <2>. QED BY <1>4, <1>6, <1>7, <1>8 DEF Below
<1>10. \A q \in X \cap R, x \in live : Shows(q, x, owner, target) /\ owner[x] # Null <=> owner[x] = q
  BY LinksTyped DEF Shows
<1>11. \A x \in live : owner[x] # Null => owner[x] \in R
  BY LinksTyped DEF Links, Forest, References
<1>12. R \in SUBSET live
  OBVIOUS
<1>13. /\ \A x \in X \ {n} : owner[x] # Null /\ \E q \in X \cap R : Shows(q, x, owner, target)
       /\ owner[n] # Null => \A q \in X \cap R : ~Shows(q, n, owner, target)
       /\ \A q \in X \cap R, x \in live : owner[x] # Null /\ Shows(q, x, owner, target) => x \in X
  <2>. HIDE DEF R
  <2>. QED BY <1>9, <1>12, BelowIs DEF Links
<1>14. Subtree(X, n, owner)
  <2>1. owner[n] \notin X
    BY <1>4, <1>8, <1>10, <1>11, <1>13, LinksTyped
  <2>2. \A x \in live : owner[x] \in X => x \in X
    BY <1>4, <1>10, <1>11, <1>13, LinksTyped
  <2>3. \A x \in X : x # n => owner[x] \in X
    BY <1>8, <1>10, <1>13
  <2>. QED BY <1>4, <2>1, <2>2, <2>3 DEF Subtree
<1>15. X \subseteq Shown(n)
  <2>1. Shown(n) \in SUBSET live /\ n \in Shown(n)
        /\ \A m \in Shown(n) : /\ child[m] # Null => child[m] \in Shown(n)
                               /\ m # n /\ next[m] # Null => next[m] \in Shown(n)
    BY ShownIs
  <2>. QED BY <1>7, <2>1
<1>. QED BY <1>8, <1>14, <1>15 DEF X

\* The items of the list of p are those that p shows.
LEMMA ItemsAre ==
  ASSUME Links, NEW p \in live
  PROVE  /\ ArrayItems(p) \subseteq live
         /\ \A x \in live : x \in ArrayItems(p) <=> owner[x] # Null /\ Shows(p, x, owner, target)
<1>. DEFINE succ == [m \in Nodes |-> NonNull(next[m])]
            X == ArrayItems(p)
            o == IF target[p] = Null THEN p ELSE target[p]
<1>1. X = Reached(NonNull(child[p]), succ)
  BY DEF ArrayItems
<1>2. succ \in [Nodes -> SUBSET Nodes] /\ NonNull(child[p]) \in SUBSET Nodes
  BY LinksTyped DEF NonNull
<1>3. \A m \in Nodes : succ[m] = NonNull(next[m])
  OBVIOUS
<1>. HIDE DEF succ, X
<1>4. o \in live /\ target[o] = Null /\ child[o] = child[p] /\ o # Null
  BY LinksTyped DEF Links, Forest, References
<1>5. \A x \in live : owner[x] # Null /\ Shows(p, x, owner, target) <=> owner[x] = o
  <2>1. \A x \in live : owner[x] # Null => target[owner[x]] = Null
    BY DEF Links, Forest, References
  <2>. QED BY <1>4, <2>1 DEF Shows
<1>. HIDE DEF o
<1>6. X \subseteq {x \in live : owner[x] = o}
  <2>. DEFINE S == {x \in live : owner[x] = o}
  <2>1. NonNull(child[p]) \subseteq S
    BY <1>4, LinksTyped DEF NonNull, Links, Forest, Linked, LinkedAt
  <2>2. \A m \in S : succ[m] \subseteq S
    BY <1>3, LinksTyped DEF NonNull, Links, Forest, Linked, LinkedAt
  <2>3. S \in SUBSET Nodes
    BY LinksTyped
  <2>. HIDE DEF S
  <2>4. X \subseteq S
    BY <1>1, <2>1, <2>2, <2>3, ReachedLeast
  <2>. QED BY <2>4 DEF S
<1>7. {x \in live : owner[x] = o} \subseteq X
  <2>. DEFINE C == {x \in live : owner[x] = o /\ x \notin X}
  <2>1. NonNull(child[p]) \subseteq X /\ \A m \in X : succ[m] \subseteq X
    BY <1>1, <1>2, ReachedClosed
  <2>2. ASSUME NEW y \in C PROVE owner[y] # Null /\ y # child[owner[y]] /\ prev[y] \in C
    <3>1. y \in live /\ owner[y] = o /\ y \notin X /\ owner[y] # Null
      BY <1>4
    <3>2. LinkedAt(y, next, prev, child, owner, target) /\ y # Null
      BY <3>1, LinksTyped DEF Links, Forest, Linked
    <3>3. child[o] # Null
      BY <3>1, <3>2 DEF LinkedAt
    <3>4. y # child[o]
      BY <1>4, <2>1, <3>1, <3>3 DEF NonNull
    <3>5. prev[y] \in live /\ owner[prev[y]] = o /\ next[prev[y]] = y
      BY <3>1, <3>2, <3>4, LinksTyped DEF LinkedAt
    <3>6. prev[y] \notin X
      BY <1>3, <2>1, <3>1, <3>2, <3>5, LinksTyped DEF NonNull
    <3>. QED BY <3>1, <3>4, <3>5, <3>6
  <2>3. C \in SUBSET live
    OBVIOUS
  <2>4. C = {}
    <3>. HIDE DEF C
    <3>. QED BY <2>2, <2>3 DEF Links, Forest, NoLoop
  <2>. QED BY <2>4
<1>. QED BY <1>5, <1>6, <1>7 DEF X

\* get_object_item finds an item of the list.
LEMMA ObjectItemIsItem ==
  ASSUME Links, NEW p \in live, NEW name, NEW cs
  PROVE  ObjectItem(p, name, cs) \subseteq ArrayItems(p)
<1>. DEFINE passed(n) == ~IsNamed(n, name, cs) /\ (cs => data[n].name # NoName)
            few == [n \in Nodes |-> IF passed(n) THEN NonNull(next[n]) ELSE {}]
            succ == [n \in Nodes |-> NonNull(next[n])]
            X == ArrayItems(p)
<1>1. X = Reached(NonNull(child[p]), succ)
  BY DEF ArrayItems
<1>2. succ \in [Nodes -> SUBSET Nodes] /\ NonNull(child[p]) \in SUBSET Nodes
  BY LinksTyped DEF NonNull
<1>3. \A m \in Nodes : few[m] \subseteq succ[m]
  OBVIOUS
<1>4. ObjectItem(p, name, cs) \subseteq Reached(NonNull(child[p]), few)
  BY DEF ObjectItem
<1>. HIDE DEF few, succ, X
<1>5. X \in SUBSET Nodes /\ NonNull(child[p]) \subseteq X /\ \A m \in X : succ[m] \subseteq X
  BY <1>1, <1>2, ReachedClosed
<1>6. \A m \in X : few[m] \subseteq X
  BY <1>3, <1>5
<1>7. Reached(NonNull(child[p]), few) \subseteq X
  BY <1>5, <1>6, ReachedLeast
<1>. QED BY <1>4, <1>7 DEF X

--------------------------------------------------------------------------------
(* What the actions use of the invariant *)

Datum == [kind : Kinds, ref : BOOLEAN, name : Names \cup {NoName}, const : BOOLEAN]

\* What an action has to establish.
LEMMA InvNext ==
  ASSUME Forest(live', next', prev', child', owner', target'), Items', Roots',
         strings' = Owned(live', data')
  PROVE  JsonInv'
<1>1. Strings'
  BY DEF Strings, OwnedStrings, OwnsName, OwnsText, Owned, Named, Worded
<1>2. Links'
  BY DEF Links
<1>. QED BY <1>1, <1>2 DEF JsonInv

\* What an action may use.
LEMMA InvNow ==
  ASSUME JsonInv
  PROVE  /\ Links /\ Items /\ Roots /\ Forest(live, next, prev, child, owner, target)
         /\ live \subseteq Nodes /\ held \subseteq live /\ data \in [Nodes -> Datum]
         /\ strings = Owned(live, data) /\ strings \in Nat
<1>1. live \subseteq Nodes
  BY LinksTyped DEF JsonInv
<1>2. strings = Owned(live, data)
  BY OwnedIs DEF JsonInv, Strings
<1>3. strings \in Nat
  BY <1>1, <1>2, OwnedNat
<1>. QED BY <1>1, <1>2, <1>3 DEF JsonInv, Links, Items, Roots, Datum

\* A new item has no name, and a string if it is a text.
LEMMA ItemIs ==
  ASSUME NEW kind \in Kinds
  PROVE  /\ Item(kind) \in Datum /\ Item(kind).ref = FALSE /\ Item(kind).const = FALSE
         /\ Item(kind).kind = kind
         /\ NameOf(Item(kind)) = 0 /\ TextOf(Item(kind)) = IF kind \in Texts THEN 1 ELSE 0
<1>1. /\ Item(kind) \in Datum /\ Item(kind).ref = FALSE /\ Item(kind).const = FALSE
      /\ Item(kind).kind = kind /\ Item(kind).name = NoName
  BY DEF Item, Blank, Datum, Kinds
<1>. QED BY <1>1 DEF NameOf, TextOf

\* What is not allocated is no reference.
LEMMA BlankIs == Blank \in Datum /\ Blank.ref = FALSE
BY DEF Blank, Datum, Kinds

\* A reference owns nothing.
LEMMA ReferenceIs ==
  ASSUME JsonInv, NEW m \in live
  PROVE  /\ Reference(m) \in Datum /\ Reference(m).ref = TRUE /\ Reference(m).const = FALSE
         /\ NameOf(Reference(m)) = 0 /\ TextOf(Reference(m)) = 0
<1>1. data[m] \in Datum
  BY InvNow
<1>2. /\ Reference(m) \in Datum /\ Reference(m).ref = TRUE /\ Reference(m).const = FALSE
      /\ Reference(m).name = NoName
  BY <1>1 DEF Reference, Datum
<1>. QED BY <1>2 DEF NameOf, TextOf

\* The origin of a reference is no reference, and has its list.
LEMMA OriginIs ==
  ASSUME JsonInv, NEW m \in live
  PROVE  /\ Origin(m) \in live /\ target[Origin(m)] = Null /\ child[m] = child[Origin(m)]
         /\ Origin(m) # Null /\ (Origin(m) = m \/ Origin(m) = target[m])
<1>1. live \subseteq Nodes /\ Null \notin Nodes /\ target \in [Nodes -> live \cup {Null}]
  BY InvNow, LinksTyped
<1>2. data[m].ref <=> target[m] # Null
  BY <1>1 DEF JsonInv, Items
<1>3. target[m] # Null => target[target[m]] = Null /\ child[m] = child[target[m]]
  BY DEF JsonInv, Links, Forest, References
<1>. QED BY <1>1, <1>2, <1>3 DEF Origin

\* What may be changed is no reference, and none shows it.
LEMMA ChangeableIs ==
  ASSUME JsonInv, NEW p, Changeable(p)
  PROVE  p \in live /\ target[p] = Null /\ \A r \in live : target[r] # p
<1>1. p \in live /\ p \in Nodes /\ p # Null
  BY InvNow, TreeAssumption DEF Changeable
<1>2. target[p] = Null
  BY <1>1 DEF Changeable, JsonInv, Items
<1>3. p \in Shown(p)
  BY <1>1, ShownIs, InvNow
<1>. QED BY <1>1, <1>2, <1>3 DEF Changeable, Frozen

\* What is added is a root, and what it is added to is not below it.
LEMMA CanAddIs ==
  ASSUME JsonInv, NEW p, NEW n, CanAdd(p, n)
  PROVE  /\ p \in live /\ target[p] = Null /\ \A r \in live : target[r] # p
         /\ n \in live /\ n \in held /\ owner[n] = Null /\ n # p
         /\ n \in Shown(n) /\ p \notin Shown(n)
         /\ \A q \in Shown(n), x \in live : owner[x] # Null /\ Shows(q, x, owner, target) => x \in Shown(n)
<1>1. Changeable(p) /\ n \in held /\ p \notin Shown(n)
  BY DEF CanAdd
<1>2. n \in live /\ owner[n] = Null
  BY <1>1 DEF JsonInv, Roots
<1>3. n \in Shown(n)
      /\ \A q \in Shown(n), x \in live : owner[x] # Null /\ Shows(q, x, owner, target) => x \in Shown(n)
  BY <1>2, ShownIs, InvNow
<1>. QED BY <1>1, <1>2, <1>3, ChangeableIs

\* The item at some index is in the list.
LEMMA ItemAt ==
  ASSUME JsonInv, NEW p, Changeable(p), NEW n \in ArrayItems(p)
  PROVE  n \in live /\ owner[n] = p
<1>1. p \in live /\ target[p] = Null
  BY ChangeableIs
<1>. QED BY <1>1, ItemsAre, InvNow DEF Shows

\* A new item owns its strings.
LEMMA OwnedNew ==
  ASSUME JsonInv, NEW n \in Nodes \ live, NEW d1, \A m \in live : d1[m] = data[m]
  PROVE  Owned(live \cup {n}, d1) = strings + NameOf(d1[n]) + TextOf(d1[n])
<1>1. Owned(live \cup {n}, d1) = Owned(live, d1) + NameOf(d1[n]) + TextOf(d1[n])
  BY InvNow, OwnedAdd
<1>2. Owned(live, d1) = Owned(live, data)
  BY OwnedSame
<1>. QED BY <1>1, <1>2, InvNow

--------------------------------------------------------------------------------
(* Each call keeps the invariant: items are created *)

\* cJSON_New_Item and its like
LEMMA CreateKeeps ==
  ASSUME JsonInv, NEW n, NEW kind \in Kinds, Create(n, kind)
  PROVE  JsonInv'
<1>1. n \in Nodes /\ n \notin live
  BY DEF Create, Allocated
<1>2. /\ target = [target EXCEPT ![n] = Null] /\ child = [child EXCEPT ![n] = Null]
      /\ owner[n] = Null /\ target[n] = Null
  BY <1>1, LinksTyped, InvNow
<1>3. Forest(live \cup {n}, next, prev, child, owner, target)
  BY <1>1, <1>2, InvNow, RootKeeps
<1>4. Forest(live', next', prev', child', owner', target')
  BY <1>3, Zenon DEF Create
<1>5. data' = [data EXCEPT ![n] = Item(kind)] /\ live' = live \cup {n} /\ target' = target
      /\ held' = held \cup {n} /\ owner' = owner
  BY DEF Create
<1>6. data' \in [Nodes -> Datum] /\ data'[n] = Item(kind) /\ \A m \in Nodes : m # n => data'[m] = data[m]
  BY <1>1, <1>5, InvNow, ItemIs
<1>7. Items'
  BY <1>1, <1>2, <1>5, <1>6, ItemIs, InvNow DEF Items, Datum
<1>8. Roots'
  BY <1>1, <1>2, <1>5, <1>6, InvNow DEF Roots
<1>9. strings' = Owned(live', data')
  <2>1. strings' = strings + (IF kind \in Texts THEN 1 ELSE 0)
    BY DEF Create
  <2>2. Owned(live \cup {n}, data') = strings + NameOf(data'[n]) + TextOf(data'[n])
    BY <1>1, <1>6, OwnedNew, InvNow
  <2>3. NameOf(data'[n]) = 0 /\ TextOf(data'[n]) = IF kind \in Texts THEN 1 ELSE 0
    BY <1>6, ItemIs
  <2>4. strings \in Nat
    BY InvNow
  <2>. QED BY <1>5, <2>1, <2>2, <2>3, <2>4
<1>. QED BY <1>4, <1>7, <1>8, <1>9, InvNext

\* A reference, which the caller gets or which is lost.
LEMMA ReferenceKeeps ==
  ASSUME JsonInv, NEW n \in Nodes \ live, NEW m \in live,
         live' = live \cup {n}, data' = [data EXCEPT ![n] = Reference(m)],
         child' = [child EXCEPT ![n] = child[m]], target' = [target EXCEPT ![n] = Origin(m)],
         next' = next, prev' = prev, owner' = owner, strings' = strings,
         held' = held \/ held' = held \cup {n}
  PROVE  JsonInv'
<1>1. owner[n] = Null /\ target \in [Nodes -> live \cup {Null}]
  BY LinksTyped, InvNow
<1>2. Origin(m) \in live /\ target[Origin(m)] = Null /\ child[m] = child[Origin(m)] /\ Origin(m) # Null
  BY OriginIs
<1>3. Forest(live \cup {n}, next, prev, child', owner, target')
  BY <1>2, InvNow, RootKeeps
<1>4. Forest(live', next', prev', child', owner', target')
  BY <1>3, Zenon
<1>5. data' \in [Nodes -> Datum] /\ data'[n] = Reference(m) /\ \A x \in Nodes : x # n => data'[x] = data[x]
  BY InvNow, ReferenceIs
<1>6. target'[n] = Origin(m) /\ \A x \in Nodes : x # n => target'[x] = target[x]
  BY <1>1
<1>7. Items'
  <2>1. data'[n].ref <=> target'[n] # Null
    BY <1>2, <1>5, <1>6, ReferenceIs
  <2>2. \A x \in Nodes : data'[x].ref <=> target'[x] # Null
    BY <1>5, <1>6, <2>1 DEF JsonInv, Items
  <2>3. \A x \in Nodes \ live' : data'[x] = Blank
    BY <1>5 DEF JsonInv, Items
  <2>. QED BY <1>5, <2>2, <2>3 DEF Items, Datum
<1>8. Roots'
  BY <1>1, <1>5, ReferenceIs, InvNow DEF Roots
<1>9. strings' = Owned(live', data')
  <2>1. Owned(live \cup {n}, data') = strings + NameOf(data'[n]) + TextOf(data'[n])
    BY <1>5, OwnedNew, InvNow
  <2>2. NameOf(data'[n]) = 0 /\ TextOf(data'[n]) = 0
    BY <1>5, ReferenceIs
  <2>3. strings \in Nat
    BY InvNow
  <2>. QED BY <2>1, <2>2, <2>3
<1>. QED BY <1>4, <1>7, <1>8, <1>9, InvNext

\* cJSON_CreateStringReference and its like
LEMMA CreateReferenceKeeps ==
  ASSUME JsonInv, NEW n, NEW m, CreateReference(n, m)
  PROVE  JsonInv'
BY ReferenceKeeps DEF CreateReference, Allocated

\* cJSON_AddItemReferenceToObject without the memory for the name
LEMMA LoseReferenceKeeps ==
  ASSUME JsonInv, NEW n, NEW m, LoseReference(n, m)
  PROVE  JsonInv'
BY ReferenceKeeps DEF LoseReference, Allocated

--------------------------------------------------------------------------------
(* Items are added *)

\* add_item_to_array
LEMMA AppendItemKeeps ==
  ASSUME JsonInv, NEW p, NEW n, CanAdd(p, n), AppendItem(p, n, child)
  PROVE  Forest(live, next', prev', child', [owner EXCEPT ![n] = p], target)
<1>1. /\ p \in live /\ target[p] = Null /\ \A r \in live : target[r] # p
      /\ n \in live /\ n \in held /\ owner[n] = Null /\ n # p
      /\ n \in Shown(n) /\ p \notin Shown(n)
      /\ \A q \in Shown(n), x \in live : owner[x] # Null /\ Shows(q, x, owner, target) => x \in Shown(n)
  BY CanAddIs
<1>2. \/ /\ child[p] = Null /\ next' = next
         /\ child' = [child EXCEPT ![p] = n] /\ prev' = [prev EXCEPT ![n] = n]
      \/ /\ child[p] # Null /\ child' = child /\ next' = [next EXCEPT ![prev[child[p]]] = n]
         /\ prev' = [prev EXCEPT ![n] = prev[child[p]], ![child[p]] = n]
  BY Zenon DEF AppendItem
<1>. DEFINE X == Shown(n)
<1>. HIDE DEF X
<1>3. /\ n \in X /\ p \notin X
      /\ \A q \in X, x \in live : owner[x] # Null /\ Shows(q, x, owner, target) => x \in X
  BY <1>1 DEF X
<1>. QED BY <1>1, <1>2, <1>3, InvNow, AppendKeeps

\* The caller gives n away to p.
LEMMA GivenRoots ==
  ASSUME JsonInv, NEW p \in live, NEW n \in held, Given(p, n), live' = live,
         \A m \in live : data'[m].ref = data[m].ref
  PROVE  Roots'
<1>1. owner \in [Nodes -> live \cup {Null}] /\ n \in live /\ n \in Nodes /\ p # Null
  BY LinksTyped, InvNow
<1>2. \A x \in Nodes : owner'[x] = IF x = n THEN p ELSE owner[x]
  BY <1>1 DEF Given
<1>3. held' = held \ {n}
  BY DEF Given
<1>4. held' \subseteq live' /\ \A x \in held' : owner'[x] = Null
  BY <1>1, <1>2, <1>3, InvNow DEF Roots
<1>5. \A x \in live' : owner'[x] = Null /\ ~data'[x].ref => x \in held'
  BY <1>1, <1>2, <1>3, InvNow DEF Roots
<1>. QED BY <1>4, <1>5 DEF Roots

\* cJSON_AddItemToArray
LEMMA AddItemToArrayKeeps ==
  ASSUME JsonInv, NEW p, NEW n, AddItemToArray(p, n)
  PROVE  JsonInv'
<1>1. /\ CanAdd(p, n) /\ AppendItem(p, n, child) /\ Given(p, n)
      /\ live' = live /\ data' = data /\ strings' = strings /\ target' = target
  BY DEF AddItemToArray
<1>2. p \in live /\ n \in held
  BY <1>1, CanAddIs
<1>3. Forest(live, next', prev', child', [owner EXCEPT ![n] = p], target)
  BY <1>1, AppendItemKeeps
<1>4. Forest(live', next', prev', child', owner', target')
  BY <1>1, <1>3, Zenon DEF Given
<1>5. Roots'
  BY <1>1, <1>2, GivenRoots
<1>6. Items'
  BY <1>1, InvNow DEF Items
<1>7. strings' = Owned(live', data')
  BY <1>1, InvNow
<1>. QED BY <1>4, <1>5, <1>6, <1>7, InvNext

\* The strings are counted when an item changes its name.
LEMMA RenameKeeps ==
  ASSUME JsonInv, NEW n \in live, NEW name \in Names \cup {NoName}, NEW const \in BOOLEAN,
         Rename(n, name, const), live' = live, target' = target
  PROVE  /\ Items' /\ strings' = Owned(live', data')
         /\ \A m \in live : data'[m].ref = data[m].ref
<1>1. /\ data' = [data EXCEPT ![n].name = name, ![n].const = const]
      /\ strings' = strings - (IF OwnsName(n) THEN 1 ELSE 0) + (IF const \/ name = NoName THEN 0 ELSE 1)
  BY DEF Rename
<1>2. data \in [Nodes -> Datum] /\ n \in Nodes /\ live \subseteq Nodes
  BY InvNow
<1>3. \A m \in Nodes : m # n => data'[m] = data[m]
  BY <1>1, <1>2
<1>4. data'[n] = [data[n] EXCEPT !.name = name, !.const = const]
  BY <1>1, <1>2
<1>5. /\ data'[n] \in Datum /\ data'[n].name = name /\ data'[n].const = const
      /\ data'[n].kind = data[n].kind /\ data'[n].ref = data[n].ref
  BY <1>2, <1>4 DEF Datum
<1>6. data' \in [Nodes -> Datum]
  BY <1>1, <1>2, <1>3, <1>5
<1>7. \A m \in Nodes : data'[m].ref = data[m].ref
  BY <1>3, <1>5
<1>8. Items'
  BY <1>2, <1>3, <1>6, <1>7 DEF JsonInv, Items, Datum
<1>9. /\ NameOf(data[n]) = IF OwnsName(n) THEN 1 ELSE 0
      /\ NameOf(data'[n]) = IF const \/ name = NoName THEN 0 ELSE 1
      /\ TextOf(data'[n]) = TextOf(data[n]) /\ TextOf(data[n]) \in Nat
  BY <1>5 DEF NameOf, TextOf, OwnsName
<1>10. Owned(live, data') = Owned(live, data) - NameOf(data[n]) - TextOf(data[n])
                            + NameOf(data'[n]) + TextOf(data'[n])
  BY <1>2, <1>3, OwnedChange
<1>11. strings = Owned(live, data) /\ strings \in Nat
  BY InvNow
<1>12. strings' = Owned(live', data')
  BY <1>1, <1>9, <1>10, <1>11
<1>. QED BY <1>2, <1>7, <1>8, <1>12

\* cJSON_AddItemToObject and cJSON_AddItemToObjectCS
LEMMA AddItemToObjectKeeps ==
  ASSUME JsonInv, NEW p, NEW n, NEW name \in Names, NEW const \in BOOLEAN,
         AddItemToObject(p, name, n, const)
  PROVE  JsonInv'
<1>1. /\ CanAdd(p, n) /\ AppendItem(p, n, child) /\ Rename(n, name, const) /\ Given(p, n)
      /\ live' = live /\ target' = target
  BY DEF AddItemToObject
<1>2. p \in live /\ n \in held /\ n \in live
  BY <1>1, CanAddIs
<1>3. Forest(live, next', prev', child', [owner EXCEPT ![n] = p], target)
  BY <1>1, AppendItemKeeps
<1>4. Forest(live', next', prev', child', owner', target')
  BY <1>1, <1>3, Zenon DEF Given
<1>5. Items' /\ strings' = Owned(live', data') /\ \A m \in live : data'[m].ref = data[m].ref
  BY <1>1, <1>2, RenameKeeps
<1>6. Roots'
  BY <1>1, <1>2, <1>5, GivenRoots
<1>. QED BY <1>4, <1>5, <1>6, InvNext

\* cJSON_InsertItemInArray
LEMMA InsertItemInArrayKeeps ==
  ASSUME JsonInv, NEW p, NEW after, NEW n, InsertItemInArray(p, after, n)
  PROVE  JsonInv'
<1>1. /\ CanAdd(p, n) /\ after \in ArrayItems(p) /\ Given(p, n)
      /\ next' = IF after = child[p] THEN [next EXCEPT ![n] = after]
                 ELSE [next EXCEPT ![n] = after, ![prev[after]] = n]
      /\ prev' = [prev EXCEPT ![n] = prev[after], ![after] = n]
      /\ child' = IF after = child[p] THEN [child EXCEPT ![p] = n] ELSE child
      /\ live' = live /\ data' = data /\ strings' = strings /\ target' = target
  BY Zenon DEF InsertItemInArray
<1>2. /\ p \in live /\ target[p] = Null /\ \A r \in live : target[r] # p
      /\ n \in live /\ n \in held /\ owner[n] = Null /\ n # p
      /\ n \in Shown(n) /\ p \notin Shown(n)
      /\ \A q \in Shown(n), x \in live : owner[x] # Null /\ Shows(q, x, owner, target) => x \in Shown(n)
  BY <1>1, CanAddIs
<1>3. after \in live /\ owner[after] = p
  BY <1>1, ItemAt DEF CanAdd
<1>. DEFINE X == Shown(n)
<1>. HIDE DEF X
<1>4. /\ n \in X /\ p \notin X
      /\ \A q \in X, x \in live : owner[x] # Null /\ Shows(q, x, owner, target) => x \in X
  BY <1>2 DEF X
<1>5. Forest(live, next', prev', child', [owner EXCEPT ![n] = p], target)
  BY <1>1, <1>2, <1>3, <1>4, InvNow, InsertKeeps
<1>6. Forest(live', next', prev', child', owner', target')
  BY <1>1, <1>5, Zenon DEF Given
<1>7. Roots'
  BY <1>1, <1>2, GivenRoots
<1>8. Items'
  BY <1>1, InvNow DEF Items
<1>9. strings' = Owned(live', data')
  BY <1>1, InvNow
<1>. QED BY <1>6, <1>7, <1>8, <1>9, InvNext

\* A new item is appended: X is what one sees from it.
LEMMA AddNewKeeps ==
  ASSUME JsonInv, NEW p, NEW n, NEW d \in Datum, ~d.const, NEW name \in Names \cup {NoName}, NEW c, NEW m,
         AddNew(p, n, d, name, c, m),
         \/ m = Null /\ c = Null /\ ~d.ref
         \/ m \in live /\ m # p /\ target[m] = Null /\ c = child[m] /\ d.ref,
         NEW X, n \notin X, p \notin X,
         \A q \in X, x \in live : owner[x] # Null /\ Shows(q, x, owner, target) => x \in X,
         m # Null => \A x \in live : owner[x] = m => x \in X
  PROVE  JsonInv'
<1>. DEFINE ch == [child EXCEPT ![n] = c]
            tg == [target EXCEPT ![n] = m]
            lv == live \cup {n}
<1>1. /\ n \in Nodes \ live /\ Changeable(p) /\ live' = lv
      /\ data' = [data EXCEPT ![n] = [d EXCEPT !.name = name]]
      /\ AppendItem(p, n, ch)
      /\ owner' = [owner EXCEPT ![n] = p] /\ target' = tg /\ held' = held
  BY DEF AddNew, Allocated
<1>2. p \in live /\ target[p] = Null /\ \A r \in live : target[r] # p
  BY <1>1, ChangeableIs
<1>3. /\ owner \in [Nodes -> live \cup {Null}] /\ target \in [Nodes -> live \cup {Null}]
      /\ child \in [Nodes -> live \cup {Null}]
      /\ owner[n] = Null /\ live \subseteq Nodes /\ Null \notin Nodes /\ n # p
  BY <1>1, <1>2, LinksTyped, InvNow
<1>4. Forest(lv, next, prev, ch, owner, tg)
  BY <1>1, InvNow, RootKeeps
<1>5. \A x \in Nodes : tg[x] = IF x = n THEN m ELSE target[x]
  BY <1>3
<1>6. ch[p] = child[p]
  BY <1>2, <1>3
<1>7. \/ /\ ch[p] = Null /\ next' = next
         /\ child' = [ch EXCEPT ![p] = n] /\ prev' = [prev EXCEPT ![n] = n]
      \/ /\ ch[p] # Null /\ child' = ch /\ next' = [next EXCEPT ![prev[ch[p]]] = n]
         /\ prev' = [prev EXCEPT ![n] = prev[ch[p]], ![ch[p]] = n]
  <2>. HIDE DEF ch
  <2>. QED BY <1>1, Zenon DEF AppendItem
<1>. HIDE DEF ch, tg, lv
<1>8. lv = live \cup {n}
  BY DEF lv
<1>9. p \in lv /\ n \in lv /\ tg[p] = Null /\ \A r \in lv : tg[r] # p
  BY <1>1, <1>2, <1>3, <1>5, <1>8
<1>. DEFINE Y == X \cup {n}
<1>10. /\ n \in Y /\ p \notin Y
       /\ \A q \in Y, x \in lv : owner[x] # Null /\ Shows(q, x, owner, tg) => x \in Y
  <2>1. n \in Y /\ p \notin Y
    BY <1>3
  <2>2. ASSUME NEW q \in Y, NEW x \in lv, owner[x] # Null, Shows(q, x, owner, tg) PROVE x \in Y
    <3>1. x \in live /\ x # n /\ owner[x] \in live
      BY <1>3, <1>8, <2>2
    <3>2. CASE q = n
      <4>1. owner[x] = m
        BY <1>1, <1>3, <1>5, <2>2, <3>1, <3>2 DEF Shows
      <4>. QED BY <2>2, <3>1, <4>1
    <3>3. CASE q # n
      <4>1. q \in X
        BY <3>3
      <4>2. Shows(q, x, owner, target)
        <5>1. CASE q \in Nodes
          BY <1>5, <2>2, <3>3, <5>1 DEF Shows
        <5>2. CASE q \notin Nodes
          BY <1>3, <2>2, <3>1, <5>2 DEF Shows, tg
        <5>. QED BY <5>1, <5>2
      <4>. QED BY <2>2, <3>1, <4>1, <4>2
    <3>. QED BY <3>2, <3>3
  <2>. QED BY <2>1, <2>2
<1>. HIDE DEF Y
<1>11. Forest(lv, next', prev', child', [owner EXCEPT ![n] = p], tg)
  <2>1. owner[n] = Null /\ n # p
    BY <1>3
  <2>. QED BY <1>4, <1>7, <1>9, <1>10, <2>1, AppendKeeps
<1>12. Forest(live', next', prev', child', owner', target')
  BY <1>1, <1>11, Zenon
<1>13. /\ data'[n] \in Datum /\ data'[n].name = name /\ data'[n].const = d.const
       /\ data'[n].kind = d.kind /\ data'[n].ref = d.ref
  <2>1. data'[n] = [d EXCEPT !.name = name]
    BY <1>1, InvNow
  <2>. QED BY <2>1 DEF Datum
<1>14. data' \in [Nodes -> Datum] /\ \A x \in Nodes : x # n => data'[x] = data[x]
  BY <1>1, <1>13, InvNow
<1>15. Items'
  <2>1. data'[n].ref <=> target'[n] # Null
    BY <1>1, <1>3, <1>5, <1>13
  <2>2. \A x \in Nodes : data'[x].ref <=> target'[x] # Null
    BY <1>1, <1>5, <1>14, <2>1 DEF JsonInv, Items
  <2>3. \A x \in Nodes \ live' : data'[x] = Blank
    BY <1>1, <1>8, <1>14 DEF JsonInv, Items
  <2>. QED BY <1>14, <2>2, <2>3 DEF Items, Datum
<1>16. Roots'
  <2>1. \A x \in Nodes : owner'[x] = IF x = n THEN p ELSE owner[x]
    BY <1>1, <1>3
  <2>2. held' \subseteq live' /\ \A x \in held' : owner'[x] = Null
    BY <1>1, <1>8, <2>1, InvNow DEF Roots
  <2>3. \A x \in live' : owner'[x] = Null /\ ~data'[x].ref => x \in held'
    BY <1>1, <1>2, <1>3, <1>8, <1>14, <2>1, InvNow DEF Roots
  <2>. QED BY <2>2, <2>3 DEF Roots
<1>17. strings' = Owned(live', data')
  <2>1. Owned(live \cup {n}, data') = strings + NameOf(data'[n]) + TextOf(data'[n])
    BY <1>1, <1>3, <1>14, OwnedNew
  <2>2. /\ NameOf(data'[n]) = IF name = NoName THEN 0 ELSE 1
        /\ TextOf(data'[n]) = IF d.kind \in Texts /\ ~d.ref THEN 1 ELSE 0
    BY <1>13 DEF NameOf, TextOf
  <2>3. strings' = strings + (IF name = NoName THEN 0 ELSE 1) + (IF d.kind \in Texts /\ ~d.ref THEN 1 ELSE 0)
    BY DEF AddNew
  <2>. QED BY <1>1, <1>8, <2>1, <2>2, <2>3
<1>. QED BY <1>12, <1>15, <1>16, <1>17, InvNext

\* cJSON_AddNullToObject and its like
LEMMA AddNewToObjectKeeps ==
  ASSUME JsonInv, NEW p, NEW n, NEW name \in Names, NEW kind \in Kinds, AddNewToObject(p, n, name, kind)
  PROVE  JsonInv'
<1>1. AddNew(p, n, Item(kind), name, Null, Null)
  BY DEF AddNewToObject
<1>. DEFINE X == {}
<1>2. /\ n \notin X /\ p \notin X
      /\ \A q \in X, x \in live : owner[x] # Null /\ Shows(q, x, owner, target) => x \in X
  OBVIOUS
<1>3. Item(kind) \in Datum /\ ~Item(kind).ref /\ ~Item(kind).const
  BY ItemIs
<1>. HIDE DEF X
<1>. QED BY <1>1, <1>2, <1>3, AddNewKeeps

\* cJSON_AddItemReferenceToArray and cJSON_AddItemReferenceToObject
LEMMA AddItemReferenceKeeps ==
  ASSUME JsonInv, NEW p, NEW n, NEW name \in Names \cup {NoName}, NEW m, AddItemReference(p, n, name, m)
  PROVE  JsonInv'
<1>1. m \in live /\ p \notin Shown(m) /\ AddNew(p, n, Reference(m), name, child[m], Origin(m))
  BY DEF AddItemReference
<1>2. n \notin live /\ Changeable(p)
  BY <1>1 DEF AddNew, Allocated
<1>3. p \in live /\ \A r \in live : target[r] # p
  BY <1>2, ChangeableIs
<1>4. /\ Origin(m) \in live /\ target[Origin(m)] = Null /\ child[m] = child[Origin(m)]
      /\ Origin(m) # Null /\ (Origin(m) = m \/ Origin(m) = target[m])
  BY <1>1, OriginIs
<1>5. /\ m \in Shown(m) /\ Shown(m) \subseteq live
      /\ \A q \in Shown(m), x \in live : owner[x] # Null /\ Shows(q, x, owner, target) => x \in Shown(m)
  BY <1>1, ShownIs, InvNow
<1>6. Origin(m) # p
  BY <1>1, <1>3, <1>4, <1>5
<1>7. \A x \in live : owner[x] = Origin(m) => x \in Shown(m)
  BY <1>4, <1>5 DEF Shows
<1>8. Reference(m) \in Datum /\ Reference(m).ref = TRUE /\ Reference(m).const = FALSE
  BY <1>1, ReferenceIs
<1>. DEFINE X == Shown(m)
            o == Origin(m)
            d == Reference(m)
<1>. HIDE DEF X, o, d
<1>9. AddNew(p, n, d, name, child[o], o) /\ o \in live /\ o # p /\ target[o] = Null /\ d \in Datum
      /\ d.ref = TRUE /\ d.const = FALSE
  <2>1. AddNew(p, n, Reference(m), name, child[Origin(m)], Origin(m))
    BY <1>1, <1>4, Zenon
  <2>. QED BY <1>4, <1>6, <1>8, <2>1, Zenon DEF o, d
<1>10. /\ n \notin X /\ p \notin X
       /\ \A q \in X, x \in live : owner[x] # Null /\ Shows(q, x, owner, target) => x \in X
       /\ \A x \in live : owner[x] = o => x \in X
  BY <1>1, <1>2, <1>5, <1>7, Zenon DEF X, o
<1>. QED BY <1>9, <1>10, AddNewKeeps

--------------------------------------------------------------------------------
(* Items are taken out, replaced and deleted *)

\* cJSON_DetachItemViaPointer
LEMMA DetachedIs ==
  ASSUME JsonInv, NEW p, Changeable(p), NEW n \in ArrayItems(p)
  PROVE  Forest(live, NextDetached(p, n), PrevDetached(p, n), ChildDetached(p, n),
                [owner EXCEPT ![n] = Null], target)
<1>1. p \in live /\ \A r \in live : target[r] # p
  BY ChangeableIs
<1>2. n \in live /\ owner[n] = p
  BY ItemAt
<1>. DEFINE nx1 == NextDetached(p, n)
            pv1 == PrevDetached(p, n)
            ch1 == ChildDetached(p, n)
            ow1 == [owner EXCEPT ![n] = Null]
<1>3. /\ next \in [Nodes -> live \cup {Null}] /\ prev \in [Nodes -> live \cup {Null}]
      /\ child \in [Nodes -> live \cup {Null}] /\ owner \in [Nodes -> live \cup {Null}]
      /\ live \subseteq Nodes
  BY LinksTyped, InvNow
<1>4. /\ nx1 \in [Nodes -> live \cup {Null}]
      /\ \A y \in Nodes : nx1[y] = IF y = n THEN Null
                                   ELSE IF y = prev[n] /\ n # child[p] THEN next[n] ELSE next[y]
  BY <1>2, <1>3 DEF NextDetached
<1>5. /\ pv1 \in [Nodes -> live \cup {Null}]
      /\ \A y \in Nodes : pv1[y] = IF y = n THEN Null
                                   ELSE IF y = next[n] \/ (next[n] = Null /\ y = child[p]) THEN prev[n]
                                   ELSE prev[y]
  <2>1. CASE next[n] # Null
    <3>1. pv1 = [prev EXCEPT ![next[n]] = prev[n], ![n] = Null]
      BY <2>1 DEF PrevDetached
    <3>. QED BY <1>2, <1>3, <2>1, <3>1
  <2>2. CASE next[n] = Null
    <3>1. pv1 = [prev EXCEPT ![child[p]] = prev[n], ![n] = Null]
      BY <2>2 DEF PrevDetached
    <3>. QED BY <1>2, <1>3, <2>2, <3>1, TreeAssumption
  <2>. QED BY <2>1, <2>2
<1>6. /\ ch1 \in [Nodes -> live \cup {Null}]
      /\ \A y \in Nodes : ch1[y] = IF y = p /\ n = child[p] THEN next[n] ELSE child[y]
  BY <1>1, <1>2, <1>3 DEF ChildDetached
<1>7. /\ ow1 \in [Nodes -> live \cup {Null}]
      /\ \A y \in Nodes : ow1[y] = IF y = n THEN Null ELSE owner[y]
  BY <1>3
<1>8. Forest(live, next, prev, child, owner, target)
  BY InvNow
<1>. HIDE DEF nx1, pv1, ch1, ow1
<1>9. Forest(live, nx1, pv1, ch1, ow1, target)
  <2>1. TakenOut(n, p, next, prev, child, owner, nx1, pv1, ch1, ow1)
    BY <1>4, <1>5, <1>6, <1>7 DEF TakenOut
  <2>2. /\ nx1 \in [Nodes -> live \cup {Null}] /\ pv1 \in [Nodes -> live \cup {Null}]
        /\ ch1 \in [Nodes -> live \cup {Null}] /\ ow1 \in [Nodes -> live \cup {Null}]
    BY <1>4, <1>5, <1>6, <1>7
  <2>. QED BY <1>1, <1>2, <1>8, <2>1, <2>2, DetachKeeps
<1>. QED BY <1>9 DEF nx1, pv1, ch1, ow1

\* cJSON_DetachItemFromArray
LEMMA DetachItemKeeps ==
  ASSUME JsonInv, NEW p, NEW n, Detach(p, n)
  PROVE  JsonInv'
<1>1. /\ Changeable(p) /\ n \in ArrayItems(p)
      /\ next' = NextDetached(p, n) /\ prev' = PrevDetached(p, n) /\ child' = ChildDetached(p, n)
      /\ held' = held \cup {n} /\ owner' = [owner EXCEPT ![n] = Null]
      /\ live' = live /\ data' = data /\ strings' = strings /\ target' = target
  BY DEF Detach
<1>2. n \in live
  BY <1>1, ItemAt
<1>3. Forest(live, NextDetached(p, n), PrevDetached(p, n), ChildDetached(p, n),
             [owner EXCEPT ![n] = Null], target)
  BY <1>1, DetachedIs
<1>4. Forest(live', next', prev', child', owner', target')
  BY <1>1, <1>3, Zenon
<1>5. Roots'
  <2>1. \A x \in Nodes : owner'[x] = IF x = n THEN Null ELSE owner[x]
    BY <1>1, LinksTyped, InvNow
  <2>2. held' \subseteq live' /\ \A x \in held' : owner'[x] = Null
    BY <1>1, <1>2, <2>1, InvNow DEF Roots
  <2>3. \A x \in live' : owner'[x] = Null /\ ~data'[x].ref => x \in held'
    BY <1>1, <1>2, <2>1, InvNow DEF Roots
  <2>. QED BY <2>2, <2>3 DEF Roots
<1>6. Items'
  BY <1>1, InvNow DEF Items
<1>7. strings' = Owned(live', data')
  BY <1>1, InvNow
<1>. QED BY <1>4, <1>5, <1>6, <1>7, InvNext

\* cJSON_DetachItemFromObject
LEMMA DetachItemFromObjectKeeps ==
  ASSUME JsonInv, NEW p, NEW name, NEW cs, DetachItemFromObject(p, name, cs)
  PROVE  JsonInv'
BY DetachItemKeeps DEF DetachItemFromObject

\* What stays is as it was, and owns what it owned.
LEMMA FreeKeeps ==
  ASSUME JsonInv, NEW S \in SUBSET live, NEW d1,
         \A m \in Nodes : d1[m] = IF m \in S THEN Blank ELSE data[m]
  PROVE  /\ \A m \in Nodes : /\ d1[m] \in Datum
                             /\ d1[m].ref <=> Free(S, target)[m] # Null
                             /\ m \notin live \ S => d1[m] = Blank
         /\ Owned(live \ S, d1) = strings - OwnedStrings(S)
         /\ OwnedStrings(S) \in Nat
<1>1. live \subseteq Nodes /\ data \in [Nodes -> Datum] /\ strings = Owned(live, data)
  BY InvNow
<1>2. ASSUME NEW m \in Nodes
      PROVE  /\ d1[m] \in Datum
             /\ d1[m].ref <=> Free(S, target)[m] # Null
             /\ m \notin live \ S => d1[m] = Blank
  <2>1. Free(S, target)[m] = IF m \in S THEN Null ELSE target[m]
    BY DEF Free
  <2>2. (data[m].ref <=> target[m] # Null) /\ (m \notin live => data[m] = Blank)
    BY DEF JsonInv, Items
  <2>. QED BY <1>1, <2>1, <2>2, BlankIs
<1>3. Owned((live \ S) \cup S, data) = Owned(live \ S, data) + Owned(S, data)
  <2>1. live \ S \in SUBSET Nodes /\ S \in SUBSET Nodes /\ (live \ S) \cap S = {}
    BY <1>1
  <2>. QED BY <2>1, OwnedUnion
<1>4. (live \ S) \cup S = live
  OBVIOUS
<1>5. Owned(live \ S, d1) = Owned(live \ S, data)
  BY <1>1, OwnedSame
<1>6. OwnedStrings(S) = Owned(S, data)
  BY OwnedIs
<1>7. Owned(S, data) \in Nat /\ Owned(live \ S, data) \in Nat
  BY <1>1, OwnedNat
<1>8. Owned(live \ S, d1) = strings - OwnedStrings(S) /\ OwnedStrings(S) \in Nat
  BY <1>1, <1>3, <1>4, <1>5, <1>6, <1>7
<1>. QED BY <1>2, <1>8

\* What cJSON_Delete frees is accounted for.
LEMMA FreeItemsKeeps ==
  ASSUME JsonInv, NEW S \in SUBSET live, FreeItems(S)
  PROVE  /\ Items' /\ strings' = Owned(live', data')
         /\ live' = live \ S /\ target' = Free(S, target)
         /\ \A m \in live' : data'[m] = data[m]
<1>1. /\ live' = live \ S /\ target' = Free(S, target) /\ strings' = strings - OwnedStrings(S)
      /\ data' = [n \in Nodes |-> IF n \in S THEN Blank ELSE data[n]]
  BY DEF FreeItems
<1>2. \A m \in Nodes : data'[m] = IF m \in S THEN Blank ELSE data[m]
  BY <1>1
<1>3. /\ \A m \in Nodes : /\ data'[m] \in Datum
                          /\ data'[m].ref <=> Free(S, target)[m] # Null
                          /\ m \notin live \ S => data'[m] = Blank
      /\ Owned(live \ S, data') = strings - OwnedStrings(S)
  BY <1>2, FreeKeeps
<1>4. data' \in [Nodes -> Datum]
  BY <1>1, <1>3
<1>5. Items'
  BY <1>1, <1>3, <1>4 DEF Items, Datum
<1>6. \A m \in live' : data'[m] = data[m]
  BY <1>1, <1>2, InvNow
<1>. QED BY <1>1, <1>3, <1>5, <1>6

\* cJSON_Delete
LEMMA DeleteKeeps ==
  ASSUME JsonInv, NEW n, Delete(n)
  PROVE  JsonInv'
<1>. DEFINE F == Freed(n)
<1>1. /\ n \in held /\ Deletable(F)
      /\ next' = Free(F, next) /\ prev' = Free(F, prev) /\ child' = Free(F, child)
      /\ owner' = Free(F, owner) /\ FreeItems(F) /\ held' = held \ {n}
  BY DEF Delete
<1>2. n \in live /\ owner[n] = Null
  BY <1>1, InvNow DEF Roots
<1>3. F \in SUBSET live /\ Subtree(F, n, owner)
  BY <1>2, InvNow, FreedIs
<1>. HIDE DEF F
<1>4. /\ n \in F /\ \A x \in live : owner[x] \in F => x \in F
      /\ \A x \in F : x # n => owner[x] \in F
      /\ \A r \in live \ F : target[r] \notin F
  BY <1>1, <1>3 DEF Subtree, Deletable
<1>5. Forest(live \ F, Free(F, next), Free(F, prev), Free(F, child), Free(F, owner), Free(F, target))
  BY <1>2, <1>3, <1>4, InvNow, PruneKeeps
<1>6. /\ Items' /\ strings' = Owned(live', data') /\ live' = live \ F /\ target' = Free(F, target)
      /\ \A m \in live' : data'[m] = data[m]
  BY <1>1, <1>3, FreeItemsKeeps
<1>7. Forest(live', next', prev', child', owner', target')
  BY <1>1, <1>5, <1>6, Zenon
<1>8. Roots'
  <2>1. \A x \in Nodes : owner'[x] = IF x \in F THEN Null ELSE owner[x]
    BY <1>1 DEF Free
  <2>2. \A x \in F : x # n => owner[x] # Null
    BY <1>3, <1>4, InvNow, LinksTyped
  <2>3. held' \subseteq live' /\ \A x \in held' : owner'[x] = Null
    BY <1>1, <1>6, <2>1, <2>2, InvNow DEF Roots
  <2>4. \A x \in live' : owner'[x] = Null /\ ~data'[x].ref => x \in held'
    BY <1>1, <1>4, <1>6, <2>1, InvNow DEF Roots
  <2>. QED BY <2>3, <2>4 DEF Roots
<1>. QED BY <1>6, <1>7, <1>8, InvNext

\* cJSON_DeleteItemFromArray
LEMMA DeleteItemKeeps ==
  ASSUME JsonInv, NEW p, NEW n, DeleteItem(p, n)
  PROVE  JsonInv'
<1>. DEFINE F == Freed(n)
            nx1 == NextDetached(p, n)
            pv1 == PrevDetached(p, n)
            ch1 == ChildDetached(p, n)
            ow1 == [owner EXCEPT ![n] = Null]
<1>1. /\ Changeable(p) /\ n \in ArrayItems(p) /\ Deletable(F)
      /\ next' = Free(F, nx1) /\ prev' = Free(F, pv1) /\ child' = Free(F, ch1)
      /\ owner' = Free(F, owner) /\ FreeItems(F) /\ held' = held
  BY DEF DeleteItem
<1>2. n \in live /\ owner[n] = p /\ p # Null
  BY <1>1, ItemAt, InvNow, TreeAssumption DEF Changeable
<1>3. F \in SUBSET live /\ Subtree(F, n, owner)
  BY <1>2, InvNow, FreedIs
<1>4. Forest(live, nx1, pv1, ch1, ow1, target)
  BY <1>1, DetachedIs
<1>5. \A x \in Nodes : ow1[x] = IF x = n THEN Null ELSE owner[x]
  BY LinksTyped, InvNow
<1>. HIDE DEF F, nx1, pv1, ch1, ow1
<1>6. /\ n \in F /\ \A x \in live : owner[x] \in F => x \in F
      /\ \A x \in F : x # n => owner[x] \in F
      /\ \A r \in live \ F : target[r] \notin F
  BY <1>1, <1>3 DEF Subtree, Deletable
<1>7. /\ ow1[n] = Null /\ \A x \in live : ow1[x] \in F => x \in F
      /\ \A x \in F : x # n => ow1[x] \in F
  BY <1>2, <1>3, <1>5, <1>6, InvNow
<1>8. Forest(live \ F, Free(F, nx1), Free(F, pv1), Free(F, ch1), Free(F, ow1), Free(F, target))
  BY <1>3, <1>4, <1>6, <1>7, PruneKeeps
<1>9. Free(F, ow1) = Free(F, owner)
  BY <1>5, <1>6 DEF Free
<1>10. /\ Items' /\ strings' = Owned(live', data') /\ live' = live \ F /\ target' = Free(F, target)
       /\ \A m \in live' : data'[m] = data[m]
  BY <1>1, <1>3, FreeItemsKeeps
<1>11. Forest(live', next', prev', child', owner', target')
  BY <1>1, <1>8, <1>9, <1>10, Zenon
<1>12. Roots'
  <2>1. \A x \in Nodes : owner'[x] = IF x \in F THEN Null ELSE owner[x]
    BY <1>1 DEF Free
  <2>2. \A x \in F : owner[x] # Null
    BY <1>2, <1>3, <1>6, InvNow, LinksTyped
  <2>3. held' \subseteq live' /\ \A x \in held' : owner'[x] = Null
    BY <1>1, <1>10, <2>1, <2>2, InvNow DEF Roots
  <2>4. \A x \in live' : owner'[x] = Null /\ ~data'[x].ref => x \in held'
    BY <1>1, <1>10, <2>1, InvNow DEF Roots
  <2>. QED BY <2>3, <2>4 DEF Roots
<1>. QED BY <1>10, <1>11, <1>12, InvNext

\* cJSON_DeleteItemFromObject
LEMMA DeleteItemFromObjectKeeps ==
  ASSUME JsonInv, NEW p, NEW name, NEW cs, DeleteItemFromObject(p, name, cs)
  PROVE  JsonInv'
BY DeleteItemKeeps DEF DeleteItemFromObject

\* cJSON_SetValuestring
LEMMA SetValuestringKeeps ==
  ASSUME JsonInv, NEW n, NEW text \in Texts, SetValuestring(n, text)
  PROVE  JsonInv'
<1>1. /\ n \in live /\ OwnsText(n) /\ data' = [data EXCEPT ![n].kind = text]
      /\ live' = live /\ next' = next /\ prev' = prev /\ child' = child
      /\ strings' = strings /\ held' = held /\ owner' = owner /\ target' = target
  BY DEF SetValuestring, links
<1>2. data \in [Nodes -> Datum] /\ n \in Nodes /\ live \subseteq Nodes
  BY <1>1, InvNow
<1>3. /\ data'[n] \in Datum /\ data'[n].kind = text /\ data'[n].name = data[n].name
      /\ data'[n].const = data[n].const /\ data'[n].ref = data[n].ref
  <2>1. data'[n] = [data[n] EXCEPT !.kind = text]
    BY <1>1, <1>2
  <2>2. text \in Kinds
    BY TreeAssumption DEF Kinds
  <2>. QED BY <1>2, <2>1, <2>2 DEF Datum
<1>4. data' \in [Nodes -> Datum] /\ \A m \in Nodes : m # n => data'[m] = data[m]
  BY <1>1, <1>2, <1>3
<1>5. \A m \in Nodes : data'[m].ref = data[m].ref
  BY <1>3, <1>4
<1>6. Items'
  BY <1>1, <1>4, <1>5 DEF JsonInv, Items, Datum
<1>7. Roots'
  BY <1>1, <1>2, <1>5 DEF JsonInv, Roots
<1>8. strings' = Owned(live', data')
  <2>1. Owned(live, data') = Owned(live, data) - NameOf(data[n]) - TextOf(data[n])
                             + NameOf(data'[n]) + TextOf(data'[n])
    <3>1. live \in SUBSET Nodes /\ n \in live /\ \A m \in live \ {n} : data'[m] = data[m]
      BY <1>1, <1>2, <1>4
    <3>. QED BY <3>1, OwnedChange
  <2>2. NameOf(data'[n]) = NameOf(data[n]) /\ TextOf(data'[n]) = 1 /\ TextOf(data[n]) = 1
        /\ NameOf(data[n]) \in Nat
    BY <1>1, <1>3 DEF NameOf, TextOf, OwnsText
  <2>. QED BY <1>1, <2>1, <2>2, InvNow
<1>9. Forest(live', next', prev', child', owner', target')
  BY <1>1, InvNow
<1>. QED BY <1>6, <1>7, <1>8, <1>9, InvNext

\* cJSON_ReplaceItemViaPointer: r is inserted before n, n is taken out and freed.
LEMMA ReplacedIs ==
  ASSUME JsonInv, NEW p, NEW r, CanAdd(p, r), NEW n \in ArrayItems(p), Deletable(Freed(n)), Replace(p, n, r)
  PROVE  /\ Forest(live \ Freed(n), next', prev', child', owner', Free(Freed(n), target))
         /\ Freed(n) \in SUBSET live /\ p \in live /\ p # Null /\ r \in live /\ r \in held /\ r \notin Freed(n)
         /\ held' = held \ {r} /\ \A x \in Freed(n) : owner[x] # Null
         /\ \A x \in Nodes : owner'[x] = IF x \in Freed(n) THEN Null ELSE IF x = r THEN p ELSE owner[x]
<1>. DEFINE F == Freed(n)
            nx1 == IF n = child[p] THEN [next EXCEPT ![r] = n] ELSE [next EXCEPT ![r] = n, ![prev[n]] = r]
            pv1 == [prev EXCEPT ![r] = prev[n], ![n] = r]
            ch1 == IF n = child[p] THEN [child EXCEPT ![p] = r] ELSE child
            ow1 == [owner EXCEPT ![r] = p]
<1>1. /\ next' = Free(F, IF child[p] = n THEN [next EXCEPT ![r] = next[n]]
                         ELSE [[next EXCEPT ![r] = next[n]] EXCEPT ![prev[n]] = r])
      /\ prev' = Free(F, [[prev EXCEPT ![IF next[n] # Null THEN next[n] ELSE child[p]] = r]
                          EXCEPT ![r] = IF prev[n] = n THEN r ELSE prev[n]])
      /\ child' = Free(F, IF child[p] = n THEN [child EXCEPT ![p] = r] ELSE child)
      /\ owner' = Free(F, [owner EXCEPT ![r] = p]) /\ held' = held \ {r}
  BY DEF Replace
<1>2. /\ p \in live /\ target[p] = Null /\ \A x \in live : target[x] # p
      /\ r \in live /\ r \in held /\ owner[r] = Null /\ r # p
      /\ r \in Shown(r) /\ p \notin Shown(r)
      /\ \A q \in Shown(r), x \in live : owner[x] # Null /\ Shows(q, x, owner, target) => x \in Shown(r)
  BY CanAddIs
<1>3. n \in live /\ owner[n] = p
  BY ItemAt DEF CanAdd
<1>4. F \in SUBSET live /\ Subtree(F, n, owner)
  BY <1>3, InvNow, FreedIs
<1>5. /\ next \in [Nodes -> live \cup {Null}] /\ prev \in [Nodes -> live \cup {Null}]
      /\ child \in [Nodes -> live \cup {Null}] /\ owner \in [Nodes -> live \cup {Null}]
      /\ live \subseteq Nodes /\ Null \notin Nodes
  BY LinksTyped, InvNow
<1>6. Forest(live, next, prev, child, owner, target)
  BY InvNow
<1>. DEFINE X == Shown(r)
<1>. HIDE DEF F, X
<1>7. /\ r \in X /\ p \notin X
      /\ \A q \in X, x \in live : owner[x] # Null /\ Shows(q, x, owner, target) => x \in X
  BY <1>2 DEF X
<1>8. Forest(live, nx1, pv1, ch1, ow1, target)
  <2>1. nx1 = IF n = child[p] THEN [next EXCEPT ![r] = n] ELSE [next EXCEPT ![r] = n, ![prev[n]] = r]
    OBVIOUS
  <2>2. pv1 = [prev EXCEPT ![r] = prev[n], ![n] = r]
    OBVIOUS
  <2>3. ch1 = IF n = child[p] THEN [child EXCEPT ![p] = r] ELSE child
    OBVIOUS
  <2>. HIDE DEF nx1, pv1, ch1
  <2>. QED BY <1>2, <1>3, <1>6, <1>7, <2>1, <2>2, <2>3, InsertKeeps
\* The place of n.
<1>9. /\ prev[n] \in live /\ owner[prev[n]] = p /\ child[p] \in live /\ owner[child[p]] = p
      /\ next[n] # Null => owner[next[n]] = p
      /\ prev[n] # r /\ child[p] # r /\ next[n] # r /\ n # r /\ p # Null
      /\ prev[n] = n <=> child[p] = n /\ next[n] = Null
  <2>1. LinkedAt(n, next, prev, child, owner, target) /\ LinkedAt(p, next, prev, child, owner, target)
    BY <1>2, <1>3, <1>6 DEF Forest, Linked
  <2>2. p # Null
    BY <1>2, <1>5
  <2>3. /\ prev[n] \in live /\ owner[prev[n]] = p /\ child[p] \in live /\ owner[child[p]] = p
        /\ next[n] # Null => owner[next[n]] = p
    BY <1>2, <1>3, <1>5, <2>1, <2>2 DEF LinkedAt
  <2>4. prev[n] = n => child[p] = n
    <3>. SUFFICES ASSUME prev[n] = n, child[p] # n PROVE FALSE
      OBVIOUS
    <3>. DEFINE C == {n}
    <3>1. C \in SUBSET live /\ \A x \in C : owner[x] # Null /\ x # child[owner[x]] /\ prev[x] \in C
      BY <1>3, <2>2
    <3>. QED BY <1>6, <3>1 DEF Forest, NoLoop
  <2>5. prev[n] = n <=> child[p] = n /\ next[n] = Null
    BY <1>3, <2>1, <2>2, <2>4 DEF LinkedAt
  <2>6. prev[n] # r /\ child[p] # r /\ next[n] # r /\ n # r
    BY <1>2, <1>3, <1>5, <2>2, <2>3
  <2>. QED BY <2>2, <2>3, <2>5, <2>6
<1>10. n \in F /\ r \notin F /\ p \notin F /\ \A x \in F : owner[x] # Null
  BY <1>2, <1>3, <1>4, <1>5, <1>9 DEF Subtree
<1>11. \A y \in Nodes :
         /\ nx1[y] = IF n # child[p] /\ y = prev[n] THEN r ELSE IF y = r THEN n ELSE next[y]
         /\ pv1[y] = IF y = n THEN r ELSE IF y = r THEN prev[n] ELSE prev[y]
         /\ ch1[y] = IF y = p /\ n = child[p] THEN r ELSE child[y]
         /\ ow1[y] = IF y = r THEN p ELSE owner[y]
  BY <1>2, <1>3, <1>5, <1>9
<1>. HIDE DEF nx1, pv1, ch1, ow1
<1>. DEFINE nx2 == [y \in Nodes |-> IF y = n THEN Null ELSE IF y = pv1[n] /\ n # ch1[p] THEN nx1[n] ELSE nx1[y]]
            pv2 == [y \in Nodes |-> IF y = n THEN Null
                                    ELSE IF y = nx1[n] \/ (nx1[n] = Null /\ y = ch1[p]) THEN pv1[n] ELSE pv1[y]]
            ch2 == [y \in Nodes |-> IF y = p /\ n = ch1[p] THEN nx1[n] ELSE ch1[y]]
            ow2 == [y \in Nodes |-> IF y = n THEN Null ELSE ow1[y]]
<1>12. TakenOut(n, p, nx1, pv1, ch1, ow1, nx2, pv2, ch2, ow2)
  BY DEF TakenOut
<1>13. /\ nx2 \in [Nodes -> live \cup {Null}] /\ pv2 \in [Nodes -> live \cup {Null}]
       /\ ch2 \in [Nodes -> live \cup {Null}] /\ ow2 \in [Nodes -> live \cup {Null}]
  <2>1. /\ nx1 \in [Nodes -> live \cup {Null}] /\ pv1 \in [Nodes -> live \cup {Null}]
        /\ ch1 \in [Nodes -> live \cup {Null}] /\ ow1 \in [Nodes -> live \cup {Null}]
    BY <1>8 DEF Forest, Typed
  <2>. QED BY <1>2, <1>3, <1>5, <2>1
<1>14. \A y \in Nodes : y # n =>
         /\ nx2[y] = IF y = r THEN next[n] ELSE IF n # child[p] /\ y = prev[n] THEN r ELSE next[y]
         /\ pv2[y] = IF y = r THEN IF prev[n] = n THEN r ELSE prev[n]
                     ELSE IF y = next[n] \/ (next[n] = Null /\ y = child[p]) THEN r ELSE prev[y]
         /\ ch2[y] = IF y = p /\ n = child[p] THEN r ELSE child[y]
         /\ ow2[y] = IF y = r THEN p ELSE owner[y]
  <2>1. n \in Nodes /\ p \in Nodes /\ pv1[n] = r /\ nx1[n] = next[n]
        /\ ch1[p] = IF n = child[p] THEN r ELSE child[p]
    BY <1>2, <1>3, <1>5, <1>9, <1>11
  <2>. QED BY <1>9, <1>11, <2>1
<1>15. ow2[n] = Null /\ ow1[n] = p
  BY <1>3, <1>5, <1>9, <1>11
<1>. HIDE DEF nx2, pv2, ch2, ow2
<1>16. Forest(live, nx2, pv2, ch2, ow2, target)
  BY <1>2, <1>3, <1>8, <1>12, <1>13, <1>15, DetachKeeps
<1>17. /\ \A x \in live : ow2[x] \in F => x \in F
       /\ \A x \in F : x # n => ow2[x] \in F
       /\ \A x \in live \ F : target[x] \notin F
  <2>1. \A x \in live \ F : target[x] \notin F
    BY DEF Deletable, F
  <2>2. /\ \A x \in live : owner[x] \in F => x \in F
        /\ \A x \in F : x # n => owner[x] \in F
    BY <1>4 DEF Subtree
  <2>. QED BY <1>4, <1>5, <1>10, <1>14, <2>1, <2>2
<1>18. Forest(live \ F, Free(F, nx2), Free(F, pv2), Free(F, ch2), Free(F, ow2), Free(F, target))
  BY <1>4, <1>10, <1>15, <1>16, <1>17, PruneKeeps
<1>19. next' = Free(F, nx2)
  <2>. DEFINE g == IF child[p] = n THEN [next EXCEPT ![r] = next[n]]
                   ELSE [[next EXCEPT ![r] = next[n]] EXCEPT ![prev[n]] = r]
  <2>1. \A y \in Nodes \ F : g[y] = nx2[y]
    BY <1>2, <1>5, <1>9, <1>10, <1>14
  <2>2. next' = Free(F, g)
    BY <1>1
  <2>. HIDE DEF g
  <2>. QED BY <2>1, <2>2 DEF Free
<1>20. prev' = Free(F, pv2)
  <2>. DEFINE t == IF next[n] # Null THEN next[n] ELSE child[p]
              g == [[prev EXCEPT ![t] = r] EXCEPT ![r] = IF prev[n] = n THEN r ELSE prev[n]]
  <2>1. t \in Nodes /\ \A y \in Nodes : y = t <=> y = next[n] \/ (next[n] = Null /\ y = child[p])
    BY <1>3, <1>5, <1>9
  <2>2. prev' = Free(F, g)
    BY <1>1
  <2>. HIDE DEF t
  <2>3. \A y \in Nodes : g[y] = IF y = r THEN IF prev[n] = n THEN r ELSE prev[n]
                                ELSE IF y = t THEN r ELSE prev[y]
    BY <1>2, <1>5, <2>1
  <2>4. \A y \in Nodes \ F : g[y] = pv2[y]
    BY <1>10, <1>14, <2>1, <2>3
  <2>. HIDE DEF g
  <2>. QED BY <2>2, <2>4 DEF Free
<1>21. child' = Free(F, ch2)
  <2>. DEFINE g == IF child[p] = n THEN [child EXCEPT ![p] = r] ELSE child
  <2>1. \A y \in Nodes \ F : g[y] = ch2[y]
    BY <1>2, <1>5, <1>9, <1>10, <1>14
  <2>2. child' = Free(F, g)
    BY <1>1
  <2>. HIDE DEF g
  <2>. QED BY <2>1, <2>2 DEF Free
<1>22. \A x \in Nodes : owner'[x] = IF x \in F THEN Null ELSE IF x = r THEN p ELSE owner[x]
  BY <1>1, <1>5 DEF Free
<1>23. owner' = Free(F, ow2)
  <2>1. \A y \in Nodes \ F : [owner EXCEPT ![r] = p][y] = ow2[y]
    BY <1>2, <1>5, <1>10, <1>14
  <2>. QED BY <1>1, <2>1 DEF Free
<1>24. Forest(live \ F, next', prev', child', owner', Free(F, target))
  BY <1>18, <1>19, <1>20, <1>21, <1>23, Zenon
<1>. QED BY <1>1, <1>2, <1>4, <1>9, <1>10, <1>22, <1>24 DEF F

\* The caller gives r away, and what is below n is gone.
LEMMA ReplacedRoots ==
  ASSUME JsonInv, NEW p \in live, NEW r \in held, NEW F \in SUBSET live, r \notin F, p # Null,
         held' = held \ {r}, live' = live \ F, \A x \in F : owner[x] # Null,
         \A x \in Nodes : owner'[x] = IF x \in F THEN Null ELSE IF x = r THEN p ELSE owner[x],
         \A m \in live' : data'[m].ref = data[m].ref
  PROVE  Roots'
<1>1. held' \subseteq live' /\ \A x \in held' : owner'[x] = Null
  BY InvNow DEF Roots
<1>2. \A x \in live' : owner'[x] = Null /\ ~data'[x].ref => x \in held'
  BY InvNow DEF Roots
<1>. QED BY <1>1, <1>2 DEF Roots

\* cJSON_ReplaceItemInArray
LEMMA ReplaceItemKeeps ==
  ASSUME JsonInv, NEW p, NEW n, NEW r, ReplaceItem(p, n, r)
  PROVE  JsonInv'
<1>. DEFINE F == Freed(n)
<1>1. CanAdd(p, r) /\ n \in ArrayItems(p) /\ Deletable(F) /\ Replace(p, n, r) /\ FreeItems(F)
  BY DEF ReplaceItem
<1>2. /\ Forest(live \ F, next', prev', child', owner', Free(F, target))
      /\ F \in SUBSET live /\ p \in live /\ p # Null /\ r \in live /\ r \in held /\ r \notin F
      /\ held' = held \ {r} /\ \A x \in F : owner[x] # Null
      /\ \A x \in Nodes : owner'[x] = IF x \in F THEN Null ELSE IF x = r THEN p ELSE owner[x]
  BY <1>1, ReplacedIs
<1>. HIDE DEF F
<1>3. /\ Items' /\ strings' = Owned(live', data') /\ live' = live \ F /\ target' = Free(F, target)
      /\ \A m \in live' : data'[m] = data[m]
  BY <1>1, <1>2, FreeItemsKeeps
<1>4. Forest(live', next', prev', child', owner', target')
  BY <1>2, <1>3, Zenon
<1>5. Roots'
  <2>1. \A m \in live' : data'[m].ref = data[m].ref
    BY <1>3
  <2>. QED BY <1>2, <1>3, <2>1, ReplacedRoots
<1>. QED BY <1>3, <1>4, <1>5, InvNext

\* cJSON_ReplaceItemInObject
LEMMA ReplaceItemInObjectKeeps ==
  ASSUME JsonInv, NEW p, NEW name \in Names, NEW r, NEW cs, ReplaceItemInObject(p, name, r, cs)
  PROVE  JsonInv'
<1>1. CanAdd(p, r)
  BY DEF ReplaceItemInObject
<1>2. p \in live /\ r \in live /\ r \in held
  BY <1>1, CanAddIs
\* The item gets another name, or loses it, and stays where it is.
<1>3. ASSUME NEW nm \in Names \cup {NoName}, Rename(r, nm, FALSE), UNCHANGED <<live, links, held, owner, target>>
      PROVE  JsonInv'
  <2>1. /\ live' = live /\ next' = next /\ prev' = prev /\ child' = child
        /\ held' = held /\ owner' = owner /\ target' = target
    BY <1>3 DEF links
  <2>2. Items' /\ strings' = Owned(live', data') /\ \A m \in live : data'[m].ref = data[m].ref
    BY <1>2, <1>3, <2>1, RenameKeeps
  <2>3. Forest(live', next', prev', child', owner', target')
    BY <2>1, InvNow
  <2>4. Roots'
    BY <2>1, <2>2 DEF JsonInv, Roots
  <2>. QED BY <2>2, <2>3, <2>4, InvNext
<1>4. ASSUME NEW n \in ObjectItem(p, name, cs), Deletable(Freed(n)), Replace(p, n, r),
             live' = live \ Freed(n), target' = Free(Freed(n), target),
             data' = [m \in Nodes |-> IF m \in Freed(n) THEN Blank
                                      ELSE IF m = r THEN [data[r] EXCEPT !.name = name, !.const = FALSE]
                                      ELSE data[m]],
             strings' = strings - OwnedStrings(Freed(n)) - (IF OwnsName(r) THEN 1 ELSE 0) + 1
      PROVE  JsonInv'
  <2>. DEFINE F == Freed(n)
  <2>1. n \in ArrayItems(p)
    BY <1>2, <1>4, InvNow, ObjectItemIsItem
  <2>2. /\ Forest(live \ F, next', prev', child', owner', Free(F, target))
        /\ F \in SUBSET live /\ p # Null /\ r \notin F
        /\ held' = held \ {r} /\ \A x \in F : owner[x] # Null
        /\ \A x \in Nodes : owner'[x] = IF x \in F THEN Null ELSE IF x = r THEN p ELSE owner[x]
    BY <1>1, <1>4, <2>1, ReplacedIs
  <2>3. /\ live' = live \ F /\ target' = Free(F, target)
        /\ strings' = strings - OwnedStrings(F) - (IF OwnsName(r) THEN 1 ELSE 0) + 1
        /\ data' = [m \in Nodes |-> IF m \in F THEN Blank
                                    ELSE IF m = r THEN [data[r] EXCEPT !.name = name, !.const = FALSE]
                                    ELSE data[m]]
    BY <1>4
  <2>. HIDE DEF F
  <2>. DEFINE d1 == [m \in Nodes |-> IF m \in F THEN Blank ELSE data[m]]
  <2>4. \A m \in Nodes : d1[m] = IF m \in F THEN Blank ELSE data[m]
    OBVIOUS
  <2>. HIDE DEF d1
  <2>5. /\ \A m \in Nodes : /\ d1[m] \in Datum
                            /\ d1[m].ref <=> Free(F, target)[m] # Null
                            /\ m \notin live \ F => d1[m] = Blank
        /\ Owned(live \ F, d1) = strings - OwnedStrings(F) /\ OwnedStrings(F) \in Nat
    BY <2>2, <2>4, FreeKeeps
  <2>6. r \in live \ F /\ live \ F \in SUBSET Nodes /\ data[r] \in Datum /\ d1[r] = data[r]
    BY <1>2, <2>2, <2>4, InvNow
  <2>7. /\ data'[r] \in Datum /\ data'[r].name = name /\ data'[r].const = FALSE
        /\ data'[r].kind = data[r].kind /\ data'[r].ref = data[r].ref
    <3>1. data'[r] = [data[r] EXCEPT !.name = name, !.const = FALSE]
      BY <2>3, <2>6
    <3>. QED BY <2>6, <3>1 DEF Datum
  <2>8. \A m \in Nodes : m # r => data'[m] = d1[m]
    BY <2>3, <2>4
  <2>9. data' \in [Nodes -> Datum]
    BY <2>3, <2>5, <2>7, <2>8
  <2>10. Items'
    <3>1. \A m \in Nodes : data'[m].ref <=> target'[m] # Null
      BY <2>3, <2>5, <2>6, <2>7, <2>8
    <3>2. \A m \in Nodes \ live' : data'[m] = Blank
      BY <2>3, <2>5, <2>6, <2>8
    <3>. QED BY <2>9, <3>1, <3>2 DEF Items, Datum
  <2>11. strings' = Owned(live', data')
    <3>1. Owned(live \ F, data') = Owned(live \ F, d1) - NameOf(d1[r]) - TextOf(d1[r])
                                   + NameOf(data'[r]) + TextOf(data'[r])
      <4>1. \A m \in (live \ F) \ {r} : data'[m] = d1[m]
        BY <2>6, <2>8
      <4>. QED BY <2>6, <4>1, OwnedChange
    <3>2. /\ NameOf(d1[r]) = IF OwnsName(r) THEN 1 ELSE 0
          /\ NameOf(data'[r]) = 1
          /\ TextOf(data'[r]) = TextOf(d1[r]) /\ TextOf(d1[r]) \in Nat
      BY <2>6, <2>7, TreeAssumption DEF NameOf, TextOf, OwnsName
    <3>3. strings \in Nat
      BY InvNow
    <3>. QED BY <2>3, <2>5, <3>1, <3>2, <3>3
  <2>12. Roots'
    <3>1. \A m \in live' : data'[m].ref = data[m].ref
      BY <2>3, <2>4, <2>6, <2>7, <2>8
    <3>. QED BY <1>2, <2>2, <2>3, <3>1, ReplacedRoots
  <2>13. Forest(live', next', prev', child', owner', target')
    BY <2>2, <2>3, Zenon
  <2>. QED BY <2>10, <2>11, <2>12, <2>13, InvNext
<1>5. \/ Rename(r, NoName, FALSE) /\ UNCHANGED <<live, links, held, owner, target>>
      \/ Rename(r, name, FALSE) /\ UNCHANGED <<live, links, held, owner, target>>
      \/ \E n \in ObjectItem(p, name, cs) :
           /\ Deletable(Freed(n)) /\ Replace(p, n, r)
           /\ live' = live \ Freed(n) /\ target' = Free(Freed(n), target)
           /\ data' = [m \in Nodes |-> IF m \in Freed(n) THEN Blank
                                      ELSE IF m = r THEN [data[r] EXCEPT !.name = name, !.const = FALSE]
                                      ELSE data[m]]
           /\ strings' = strings - OwnedStrings(Freed(n)) - (IF OwnsName(r) THEN 1 ELSE 0) + 1
  BY Zenon DEF ReplaceItemInObject
<1>. QED BY <1>3, <1>4, <1>5

--------------------------------------------------------------------------------
(* Several items are created at once *)

\* cJSON_CreateIntArray and its like
LEMMA CreateArrayOfKeeps ==
  ASSUME JsonInv, NEW n, NEW kind \in Scalars, NEW T \in SUBSET (Nodes \ live), NEW ns \in SetToSeqs(T),
         CreateArrayOf(n, ns, kind)
  PROVE  JsonInv'
<1>. DEFINE S == ToSet(ns)
            place(m) == CHOOSE i \in DOMAIN ns : ns[i] = m
            last == Len(ns)
<1>1. /\ n \in Nodes /\ n \notin live /\ S \cap (live \cup {n}) = {}
      /\ live' = live \cup S \cup {n} /\ held' = held \cup {n}
      /\ data' = [m \in Nodes |-> IF m \in S THEN Item(kind) ELSE IF m = n THEN Item("Array") ELSE data[m]]
      /\ strings' = strings + (IF kind \in Texts THEN last ELSE 0)
      /\ child' = [child EXCEPT ![n] = IF last = 0 THEN Null ELSE ns[1]]
      /\ next' = [m \in Nodes |-> IF m \in S /\ place(m) < last THEN ns[place(m) + 1] ELSE next[m]]
      /\ prev' = [m \in Nodes |-> IF m \notin S THEN prev[m]
                                  ELSE IF place(m) = 1 THEN ns[last] ELSE ns[place(m) - 1]]
      /\ owner' = [m \in Nodes |-> IF m \in S THEN n ELSE owner[m]] /\ target' = target
  BY Zenon DEF CreateArrayOf, Allocated
<1>2. /\ last \in Nat /\ DOMAIN ns = 1 .. last /\ \A i \in 1 .. last : ns[i] \in Nodes
      /\ \A i, j \in 1 .. last : ns[i] = ns[j] => i = j
  <2>1. IsFiniteSet(T)
    BY FS_Subset, TreeAssumption
  <2>2. Cardinality(T) \in Nat
    BY <2>1, FS_CardinalityType
  <2>. DEFINE k == Cardinality(T)
  <2>3. ns \in [1 .. k -> T] /\ \A i, j \in 1 .. k : i # j => ns[i] # ns[j]
    BY DEF SetToSeqs
  <2>. HIDE DEF k
  <2>4. k \in Nat
    BY <2>2 DEF k
  <2>5. ns \in Seq(T)
    BY <2>3, <2>4
  <2>6. Len(ns) \in Nat /\ DOMAIN ns = 1 .. Len(ns)
    BY <2>5
  <2>7. \A i \in DOMAIN ns : ns[i] \in Nodes
    BY <2>3
  <2>8. \A i, j \in DOMAIN ns : ns[i] = ns[j] => i = j
    BY <2>3
  <2>. QED BY <2>6, <2>7, <2>8
<1>3. S = {ns[i] : i \in 1 .. last}
  BY <1>2 DEF ToSet
<1>4. ASSUME NEW m \in S PROVE place(m) \in 1 .. last /\ ns[place(m)] = m
  <2>1. \E i \in DOMAIN ns : ns[i] = m
    BY <1>2, <1>3
  <2>2. place(m) \in DOMAIN ns /\ ns[place(m)] = m
    BY <2>1
  <2>. QED BY <1>2, <2>2
<1>. HIDE DEF S, place, last
<1>. DEFINE pl == [m \in S |-> place(m)]
            lv == live \cup S \cup {n}
<1>5. \A m \in S : pl[m] \in 1 .. last /\ ns[pl[m]] = m /\ pl[m] = place(m)
  BY <1>4
<1>. HIDE DEF pl
<1>6. \A i \in 1 .. last : ns[i] \in S /\ pl[ns[i]] = i
  <2>1. \A i \in 1 .. last : ns[i] \in S
    BY <1>3
  <2>. QED BY <1>2, <1>5, <2>1
<1>7. S \in SUBSET Nodes
  BY <1>2, <1>3
<1>8. /\ next \in [Nodes -> live \cup {Null}] /\ prev \in [Nodes -> live \cup {Null}]
      /\ child \in [Nodes -> live \cup {Null}] /\ owner \in [Nodes -> live \cup {Null}]
      /\ \A y \in Nodes \ live : next[y] = Null /\ owner[y] = Null /\ target[y] = Null
      /\ Null \notin Nodes
  BY LinksTyped, InvNow
<1>9. /\ \A y \in Nodes \ S : next'[y] = next[y] /\ prev'[y] = prev[y] /\ owner'[y] = owner[y]
      /\ \A y \in Nodes \ {n} : child'[y] = child[y]
      /\ child'[n] = IF last = 0 THEN Null ELSE ns[1]
  BY <1>1, <1>8
<1>10. \A m \in S : /\ next'[m] = IF pl[m] < last THEN ns[pl[m] + 1] ELSE Null
                    /\ prev'[m] = IF pl[m] = 1 THEN ns[last] ELSE ns[pl[m] - 1]
                    /\ owner'[m] = n
  BY <1>1, <1>5, <1>7, <1>8
<1>11. ArrayOf(n, S, last, ns, pl, next, prev, child, owner, next', prev', child', owner')
  BY <1>5, <1>6, <1>9, <1>10 DEF ArrayOf
<1>12. /\ next' \in [Nodes -> lv \cup {Null}] /\ prev' \in [Nodes -> lv \cup {Null}]
       /\ child' \in [Nodes -> lv \cup {Null}] /\ owner' \in [Nodes -> lv \cup {Null}]
  <2>1. \A y \in Nodes : /\ next'[y] \in lv \cup {Null} /\ prev'[y] \in lv \cup {Null}
                         /\ child'[y] \in lv \cup {Null} /\ owner'[y] \in lv \cup {Null}
    <3>. SUFFICES ASSUME NEW y \in Nodes
                  PROVE  /\ next'[y] \in lv \cup {Null} /\ prev'[y] \in lv \cup {Null}
                         /\ child'[y] \in lv \cup {Null} /\ owner'[y] \in lv \cup {Null}
      OBVIOUS
    <3>1. child'[y] \in lv \cup {Null}
      <4>1. last # 0 => ns[1] \in S
        BY <1>2, <1>6
      <4>. QED BY <1>8, <1>9, <4>1
    <3>2. y \notin S => next'[y] \in lv \cup {Null} /\ prev'[y] \in lv \cup {Null} /\ owner'[y] \in lv \cup {Null}
      BY <1>8, <1>9
    <3>3. ASSUME y \in S PROVE next'[y] \in S \cup {Null} /\ prev'[y] \in S /\ owner'[y] = n
      <4>1. pl[y] \in 1 .. last
        BY <1>5, <3>3
      <4>2. (pl[y] < last => pl[y] + 1 \in 1 .. last) /\ (pl[y] # 1 => pl[y] - 1 \in 1 .. last) /\ last \in 1 .. last
        BY <1>2, <4>1
      <4>. QED BY <1>6, <1>10, <3>3, <4>2
    <3>. QED BY <3>1, <3>2, <3>3
  <2>. QED BY <1>1, <1>8, <2>1
<1>13. Forest(live \cup S \cup {n}, next', prev', child', owner', target)
  <2>1. next' \in [Nodes -> live \cup S \cup {n} \cup {Null}] /\ prev' \in [Nodes -> live \cup S \cup {n} \cup {Null}]
        /\ child' \in [Nodes -> live \cup S \cup {n} \cup {Null}] /\ owner' \in [Nodes -> live \cup S \cup {n} \cup {Null}]
    BY <1>12
  <2>2. Forest(live, next, prev, child, owner, target)
    BY <1>1, InvNow
  <2>3. n \in Nodes \ live /\ S \cap (live \cup {n}) = {}
    BY <1>1
  <2>. QED BY <1>2, <1>7, <1>11, <2>1, <2>2, <2>3, ArrayKeeps
<1>14. Forest(live', next', prev', child', owner', target')
  BY <1>1, <1>13, Zenon
<1>15. kind \in Kinds /\ "Array" \in Kinds /\ "Array" \notin Texts
  BY TreeAssumption DEF Kinds
<1>16. /\ \A m \in S : data'[m] = Item(kind)
       /\ data'[n] = Item("Array")
       /\ \A m \in Nodes : m \notin S /\ m # n => data'[m] = data[m]
       /\ data' \in [Nodes -> Datum]
  BY <1>1, <1>7, <1>15, ItemIs, InvNow
<1>17. Items'
  <2>1. ASSUME NEW m \in Nodes PROVE data'[m].ref <=> target'[m] # Null
    <3>1. CASE m \in S \/ m = n
      <4>1. Item(kind).ref = FALSE /\ Item("Array").ref = FALSE
        BY <1>15, ItemIs
      <4>2. data'[m].ref = FALSE
        BY <1>16, <3>1, <4>1
      <4>. QED BY <1>1, <1>7, <1>8, <3>1, <4>2
    <3>2. CASE m \notin S /\ m # n
      BY <1>1, <1>16, <3>2 DEF JsonInv, Items
    <3>. QED BY <3>1, <3>2
  <2>2. \A m \in Nodes \ live' : data'[m] = Blank
    BY <1>1, <1>16 DEF JsonInv, Items
  <2>. QED BY <1>16, <2>1, <2>2 DEF Items, Datum
<1>18. Roots'
  <2>1. held' \subseteq live' /\ \A x \in held' : owner'[x] = Null
    BY <1>1, <1>8, <1>9, InvNow DEF Roots
  <2>2. \A x \in live' : owner'[x] = Null /\ ~data'[x].ref => x \in held'
    <3>. SUFFICES ASSUME NEW x \in live', owner'[x] = Null, ~data'[x].ref PROVE x \in held'
      OBVIOUS
    <3>1. x \notin S
      BY <1>1, <1>8, <1>10
    <3>2. CASE x = n
      BY <1>1, <3>2
    <3>3. CASE x # n
      <4>1. x \in live /\ x \in Nodes
        BY <1>1, <3>1, <3>3, InvNow
      <4>2. owner[x] = Null /\ data'[x] = data[x]
        BY <1>9, <1>16, <3>1, <3>3, <4>1
      <4>. QED BY <1>1, <4>1, <4>2 DEF JsonInv, Roots
    <3>. QED BY <3>2, <3>3
  <2>. QED BY <2>1, <2>2 DEF Roots
<1>19. strings' = Owned(live', data')
  <2>1. Owned(live \cup S \cup {n}, data') = Owned(live \cup S, data') + NameOf(data'[n]) + TextOf(data'[n])
    <3>1. live \cup S \in SUBSET Nodes /\ n \in Nodes \ (live \cup S)
      BY <1>1, <1>7, InvNow
    <3>. QED BY <3>1, OwnedAdd
  <2>2. NameOf(data'[n]) = 0 /\ TextOf(data'[n]) = 0
    BY <1>15, <1>16, ItemIs
  <2>3. Owned(live \cup S, data') = Owned(live, data') + Owned(S, data')
    <3>1. live \in SUBSET Nodes /\ live \cap S = {}
      BY <1>1, InvNow
    <3>. QED BY <1>7, <3>1, OwnedUnion
  <2>4. Owned(live, data') = strings /\ strings \in Nat
    <3>1. \A m \in live : data'[m] = data[m]
      BY <1>1, <1>16, InvNow
    <3>2. Owned(live, data') = Owned(live, data)
      BY <3>1, OwnedSame
    <3>. QED BY <3>2, InvNow
  <2>5. Named(S, data') = {} /\ Worded(S, data') = IF kind \in Texts THEN S ELSE {}
    <3>1. /\ Item(kind).const = FALSE /\ Item(kind).ref = FALSE /\ Item(kind).kind = kind
          /\ Item(kind).name = NoName
      BY <1>15 DEF Item, Blank
    <3>2. Named(S, data') = {}
      BY <1>16, <3>1 DEF Named
    <3>3. CASE kind \in Texts
      BY <1>16, <3>1, <3>2, <3>3 DEF Worded
    <3>4. CASE kind \notin Texts
      BY <1>16, <3>1, <3>2, <3>4 DEF Worded
    <3>. QED BY <3>3, <3>4
  <2>6. Cardinality(S) = last
    <3>1. ns \in Bijection(1 .. last, S)
      <4>. DEFINE I == 1 .. last
      <4>1. DOMAIN ns = I /\ ns = [i \in I |-> ns[i]]
        <5>1. ns \in [DOMAIN ns -> Nodes]
          BY <1>2 DEF SetToSeqs
        <5>. QED BY <1>2, <5>1
      <4>2. (\A i \in I : ns[i] \in S) /\ (\A i, j \in I : ns[i] = ns[j] => i = j) /\ \A m \in S : \E i \in I : ns[i] = m
        BY <1>2, <1>3
      <4>. HIDE DEF I
      <4>3. ns \in [I -> S]
        BY <4>1, <4>2
      <4>4. ns \in Bijection(I, S)
        BY <4>1, <4>2, <4>3 DEF Bijection, Injection, Surjection, IsInjective
      <4>. QED BY <4>4 DEF I
    <3>2. ExistsBijection(1 .. last, S)
      BY <3>1 DEF ExistsBijection
    <3>. QED BY <1>2, <3>2, FS_CountingElements
  <2>7. Owned(S, data') = IF kind \in Texts THEN last ELSE 0
    <3>1. Cardinality({}) = 0
      BY FS_EmptySet
    <3>2. CASE kind \in Texts
      BY <1>2, <2>5, <2>6, <3>1, <3>2 DEF Owned
    <3>3. CASE kind \notin Texts
      BY <2>5, <3>1, <3>3 DEF Owned
    <3>. QED BY <3>2, <3>3
  <2>8. strings' = strings + (IF kind \in Texts THEN last ELSE 0) /\ live' = live \cup S \cup {n}
    BY <1>1
  <2>. QED BY <1>2, <2>1, <2>2, <2>3, <2>4, <2>7, <2>8
<1>. QED BY <1>14, <1>17, <1>18, <1>19, InvNext

\* cJSON_Duplicate, with and without what n shows: the copies own copies of the strings.
LEMMA DuplicateKeeps ==
  ASSUME JsonInv, NEW n \in live, NEW D \in {{n}, Shown(n)}, NEW T \in SUBSET (Nodes \ live),
         NEW f \in Bijection(D, T), Duplicate(n, f)
  PROVE  JsonInv'
<1>. DEFINE S == {f[m] : m \in D}
            original(x) == CHOOSE m \in D : f[m] = x
            owning(m) == CHOOSE p \in D : m \in ArrayItems(p)
            copy(p) == IF p \in D THEN f[p] ELSE Null
            inner(x, p) == IF x = f[n] THEN Null ELSE copy(p[original(x)])
<1>1. DOMAIN f = D /\ (\A m \in D : f[m] \in Nodes \ live) /\ \A m, x \in D : f[m] = f[x] => m = x
  BY DEF Bijection, Injection, IsInjective
<1>2. /\ S \cap live = {} /\ \A m, x \in D : m # x => child[m] # child[x] \/ child[m] = Null
      /\ live' = live \cup S /\ held' = held \cup {f[n]}
      /\ data' = [x \in Nodes |-> IF x \in S THEN [data[original(x)] EXCEPT !.ref = FALSE] ELSE data[x]]
      /\ strings' = strings + Cardinality({m \in D : OwnsName(m)}) + Cardinality({m \in D : data[m].kind \in Texts})
      /\ child' = [x \in Nodes |-> IF x \in S THEN copy(child[original(x)]) ELSE child[x]]
      /\ next' = [x \in Nodes |-> IF x \in S THEN inner(x, next) ELSE next[x]]
      /\ prev' = [x \in Nodes |-> IF x \in S THEN inner(x, prev) ELSE prev[x]]
      /\ owner' = [x \in Nodes |-> IF x \in S /\ x # f[n] THEN f[owning(original(x))] ELSE owner[x]]
      /\ target' = target
  <2>. HIDE DEF original, copy, inner, owning
  <2>. QED BY <1>1 DEF Duplicate, original, copy, inner, owning
<1>3. \A m \in D : original(f[m]) = m
  BY <1>1
<1>4. /\ n \in D /\ D \in SUBSET live /\ live \subseteq Nodes
      /\ D # {n} => D = Shown(n)
  BY ShownIs, InvNow
<1>. HIDE DEF original, owning
<1>5. /\ next \in [Nodes -> live \cup {Null}] /\ prev \in [Nodes -> live \cup {Null}]
      /\ child \in [Nodes -> live \cup {Null}] /\ owner \in [Nodes -> live \cup {Null}]
      /\ target \in [Nodes -> live \cup {Null}]
      /\ \A y \in Nodes \ live : next[y] = Null /\ prev[y] = Null /\ child[y] = Null
                                 /\ owner[y] = Null /\ target[y] = Null
      /\ Null \notin Nodes
  BY LinksTyped, InvNow
\* What is below n has its place there.
<1>6. D = Shown(n) => \A m \in D \ {n} : /\ owner[m] # Null /\ owning(m) \in D
                                         /\ Shows(owning(m), m, owner, target)
  <2>. SUFFICES ASSUME D = Shown(n), NEW m \in D \ {n}
                PROVE  owner[m] # Null /\ owning(m) \in D /\ Shows(owning(m), m, owner, target)
    OBVIOUS
  <2>1. PICK q \in D : owner[m] # Null /\ Shows(q, m, owner, target)
    BY ShownIs, InvNow
  <2>2. m \in ArrayItems(q)
    BY <1>4, <2>1, ItemsAre, InvNow
  <2>3. owning(m) \in D /\ m \in ArrayItems(owning(m))
    BY <2>2 DEF owning
  <2>. QED BY <1>4, <2>1, <2>3, ItemsAre, InvNow
<1>7. /\ \A y \in Nodes \ S : next'[y] = next[y] /\ prev'[y] = prev[y] /\ child'[y] = child[y] /\ owner'[y] = owner[y]
      /\ \A m \in D : /\ next'[f[m]] = IF m = n \/ next[m] \notin D THEN Null ELSE f[next[m]]
                      /\ prev'[f[m]] = IF m = n \/ prev[m] \notin D THEN Null ELSE f[prev[m]]
                      /\ child'[f[m]] = IF child[m] \notin D THEN Null ELSE f[child[m]]
                      /\ owner'[f[m]] = IF m = n THEN Null ELSE f[owning(m)]
  <2>1. \A y \in Nodes \ S : next'[y] = next[y] /\ prev'[y] = prev[y] /\ child'[y] = child[y] /\ owner'[y] = owner[y]
    <3>. HIDE DEF S
    <3>1. f[n] \in S
      BY <1>4 DEF S
    <3>. QED BY <1>2, <3>1
  <2>2. ASSUME NEW m \in D
        PROVE  /\ next'[f[m]] = IF m = n \/ next[m] \notin D THEN Null ELSE f[next[m]]
               /\ prev'[f[m]] = IF m = n \/ prev[m] \notin D THEN Null ELSE f[prev[m]]
               /\ child'[f[m]] = IF child[m] \notin D THEN Null ELSE f[child[m]]
               /\ owner'[f[m]] = IF m = n THEN Null ELSE f[owning(m)]
    <3>1. f[m] \in Nodes /\ f[m] \in S /\ original(f[m]) = m /\ (f[m] = f[n] <=> m = n)
      BY <1>1, <1>3, <1>4
    <3>2. owner[f[n]] = Null
      BY <1>1, <1>4, <1>5
    <3>. HIDE DEF S
    <3>. QED BY <1>2, <3>1, <3>2
  <2>. QED BY <2>1, <2>2
<1>8. Forest(live \cup S, next', prev', child', owner', target)
  <2>0. Forest(live, next, prev, child, owner, target)
    BY InvNow
  <2>1. CASE D = Shown(n)
    <3>. DEFINE h == [m \in D |-> owning(m)]
    <3>1. \A m \in D : h[m] = owning(m)
      OBVIOUS
    <3>. HIDE DEF h
    <3>2. Copyable(D, n, h, live, next, child, owner, target)
      <4>1. /\ \A m \in D : /\ child[m] # Null => child[m] \in D
                            /\ m # n /\ next[m] # Null => next[m] \in D
            /\ owner[n] # Null => \A q \in D : ~Shows(q, n, owner, target)
            /\ \A q \in D, x \in live : owner[x] # Null /\ Shows(q, x, owner, target) => x \in D
        BY <2>1, ShownIs, InvNow
      <4>2. \A m \in D \ {n} : owner[m] # Null /\ h[m] \in D /\ Shows(h[m], m, owner, target)
        BY <1>6, <2>1, <3>1
      <4>3. \A m, x \in D : m # x => child[m] # child[x] \/ child[m] = Null
        BY <1>2
      <4>. QED BY <4>1, <4>2, <4>3 DEF Copyable
    <3>3. CopyOf(D, n, h, f, S, live, next, prev, child, owner, next', prev', child', owner')
      BY <1>1, <1>7, <3>1 DEF CopyOf
    <3>4. \A m \in D \ {n} : owning(m) \in D
      BY <1>6, <2>1
    <3>5. \A m \in D : f[m] \in S
      OBVIOUS
    <3>6. S \in SUBSET Nodes
      BY <1>1
    <3>7. \A y \in S : \E m \in D : y = f[m]
      OBVIOUS
    <3>. HIDE DEF S
    <3>. DEFINE R == live \cup S \cup {Null}
    <3>8. \A y \in Nodes : next'[y] \in R /\ prev'[y] \in R /\ child'[y] \in R /\ owner'[y] \in R
      <4>1. ASSUME NEW m \in D PROVE next'[f[m]] \in R /\ prev'[f[m]] \in R /\ child'[f[m]] \in R /\ owner'[f[m]] \in R
        BY <1>7, <3>4, <3>5
      <4>2. ASSUME NEW y \in Nodes \ S PROVE next'[y] \in R /\ prev'[y] \in R /\ child'[y] \in R /\ owner'[y] \in R
        BY <1>5, <1>7
      <4>. QED BY <3>7, <4>1, <4>2
    <3>9. /\ next' \in [Nodes -> R] /\ prev' \in [Nodes -> R] /\ child' \in [Nodes -> R] /\ owner' \in [Nodes -> R]
      BY <1>2, <3>8
    <3>10. /\ next' \in [Nodes -> live \cup S \cup {Null}] /\ prev' \in [Nodes -> live \cup S \cup {Null}]
           /\ child' \in [Nodes -> live \cup S \cup {Null}] /\ owner' \in [Nodes -> live \cup S \cup {Null}]
      BY <3>9
    <3>. QED BY <1>4, <2>0, <3>2, <3>3, <3>10, CopyKeeps
  <2>2. CASE D = {n}
    <3>1. S = {f[n]} /\ f[n] \in Nodes \ live
      BY <1>1, <2>2
    <3>2. child[n] # n
      <4>. SUFFICES ASSUME child[n] = n PROVE FALSE
        OBVIOUS
      <4>. DEFINE C == {n}
      <4>1. owner[n] # Null /\ Shows(n, n, owner, target)
        <5>1. LinkedAt(n, next, prev, child, owner, target) /\ n # Null
          BY <1>4, <1>5, <2>0 DEF Forest, Linked
        <5>2. CASE target[n] = Null
          BY <5>1, <5>2 DEF LinkedAt, Shows
        <5>3. CASE target[n] # Null
          <6>1. target[n] \in live /\ target[target[n]] = Null /\ child[target[n]] = n
            BY <1>4, <1>5, <2>0, <5>3 DEF Forest, References
          <6>2. owner[n] = target[n]
            BY <2>0, <5>1, <6>1 DEF Forest, Linked, LinkedAt
          <6>. QED BY <5>3, <6>2 DEF Shows
        <5>. QED BY <5>2, <5>3
      <4>2. C \in SUBSET live /\ \A x \in C : owner[x] # Null /\ \E q \in C : Shows(q, x, owner, target)
        BY <4>1
      <4>. QED BY <2>0, <4>2 DEF Forest, NoCycle
    <3>3. next' = next /\ prev' = prev /\ child' = child /\ owner' = owner
      <4>1. \A y \in Nodes : /\ next'[y] = next[y] /\ prev'[y] = prev[y]
                             /\ child'[y] = child[y] /\ owner'[y] = owner[y]
        <5>. SUFFICES ASSUME NEW y \in Nodes
                      PROVE  /\ next'[y] = next[y] /\ prev'[y] = prev[y]
                             /\ child'[y] = child[y] /\ owner'[y] = owner[y]
          OBVIOUS
        <5>1. CASE y = f[n]
          BY <1>4, <1>5, <1>7, <2>2, <3>1, <3>2, <5>1
        <5>2. CASE y # f[n]
          BY <1>7, <3>1, <5>2
        <5>. QED BY <5>1, <5>2
      <4>. HIDE DEF S
      <4>. QED BY <1>2, <1>5, <4>1
    <3>. DEFINE x == f[n]
    <3>4. x \in Nodes \ live /\ S = {x}
      BY <3>1
    <3>. HIDE DEF x, S
    <3>5. target = [target EXCEPT ![x] = Null] /\ child = [child EXCEPT ![x] = Null]
      BY <1>5, <3>4
    <3>6. Forest(live \cup {x}, next, prev, child, owner, target)
      BY <2>0, <3>4, <3>5, RootKeeps
    <3>. QED BY <3>3, <3>4, <3>6, Zenon
  <2>. QED BY <1>4, <2>1, <2>2
<1>9. Forest(live', next', prev', child', owner', target')
  BY <1>2, <1>8, Zenon
<1>10. S \in SUBSET Nodes /\ f[n] \in S
  BY <1>1, <1>4
<1>11. ASSUME NEW m \in D
       PROVE  /\ f[m] \in S /\ f[m] \in Nodes /\ data'[f[m]] \in Datum /\ data'[f[m]].ref = FALSE
              /\ data'[f[m]].kind = data[m].kind /\ data'[f[m]].name = data[m].name
              /\ data'[f[m]].const = data[m].const
  <2>1. f[m] \in S /\ f[m] \in Nodes /\ original(f[m]) = m
    BY <1>1, <1>3
  <2>2. data[m] \in Datum
    BY <1>4, InvNow
  <2>. HIDE DEF S
  <2>3. data'[f[m]] = [data[m] EXCEPT !.ref = FALSE]
    BY <1>2, <2>1
  <2>. QED BY <2>1, <2>2, <2>3 DEF Datum
<1>12. \A x \in S : \E m \in D : x = f[m]
  OBVIOUS
<1>. HIDE DEF S
<1>13. \A x \in Nodes \ S : data'[x] = data[x]
  BY <1>2
<1>14. ASSUME NEW x \in S PROVE data'[x] \in Datum /\ data'[x].ref = FALSE
  <2>1. PICK m \in D : x = f[m]
    BY <1>12
  <2>. QED BY <1>11, <2>1
<1>15. Items'
  <2>1. data' \in [Nodes -> Datum]
    <3>1. \A x \in Nodes : data'[x] \in Datum
      BY <1>13, <1>14, InvNow
    <3>. QED BY <1>2, <3>1
  <2>2. \A x \in Nodes : data'[x].ref <=> target'[x] # Null
    <3>. SUFFICES ASSUME NEW x \in Nodes PROVE data'[x].ref <=> target'[x] # Null
      OBVIOUS
    <3>1. CASE x \in S
      BY <1>2, <1>5, <1>14, <3>1
    <3>2. CASE x \notin S
      BY <1>2, <1>13, <3>2 DEF JsonInv, Items
    <3>. QED BY <3>1, <3>2
  <2>3. \A x \in Nodes \ live' : data'[x] = Blank
    BY <1>2, <1>13 DEF JsonInv, Items
  <2>. QED BY <2>1, <2>2, <2>3 DEF Items, Datum
<1>16. Roots'
  <2>1. owner'[f[n]] = Null
    BY <1>4, <1>7
  <2>2. \A x \in held : x \in live /\ owner'[x] = Null
    <3>. SUFFICES ASSUME NEW x \in held PROVE x \in live /\ owner'[x] = Null
      OBVIOUS
    <3>1. x \in live /\ owner[x] = Null
      BY DEF JsonInv, Roots
    <3>. QED BY <1>2, <1>4, <1>7, <3>1
  <2>3. held' \subseteq live' /\ \A x \in held' : owner'[x] = Null
    BY <1>2, <1>10, <2>1, <2>2
  <2>4. ASSUME NEW x \in live', owner'[x] = Null, ~data'[x].ref PROVE x \in held'
    <3>1. CASE x \in S
      <4>1. PICK m \in D : x = f[m]
        BY <1>12, <3>1
      <4>2. m # n => owner'[x] = f[owning(m)] /\ owning(m) \in D
        BY <1>4, <1>6, <1>7, <4>1
      <4>3. m # n => owner'[x] # Null
        BY <1>1, <1>5, <4>2
      <4>. QED BY <1>2, <2>4, <4>1, <4>3
    <3>2. CASE x \notin S
      <4>1. x \in live /\ x \in Nodes
        BY <1>2, <1>4, <3>2
      <4>2. owner[x] = Null /\ data'[x] = data[x]
        BY <1>7, <1>13, <2>4, <3>2, <4>1
      <4>. QED BY <1>2, <2>4, <4>1, <4>2 DEF JsonInv, Roots
    <3>. QED BY <3>1, <3>2
  <2>. QED BY <2>3, <2>4 DEF Roots
<1>17. strings' = Owned(live', data')
  <2>. DEFINE A == {m \in D : OwnsName(m)}
              B == {m \in D : data[m].kind \in Texts}
  <2>1. A \in SUBSET Nodes /\ B \in SUBSET Nodes /\ A \subseteq D /\ B \subseteq D
    BY <1>4
  <2>2. Cardinality(Named(S, data')) = Cardinality(A)
    <3>1. \A a \in A : f[a] \in Named(S, data')
      BY <1>11 DEF Named, OwnsName
    <3>2. ASSUME NEW b \in Named(S, data') PROVE \E a \in A : b = f[a]
      <4>1. b \in S /\ data'[b].name # NoName /\ ~data'[b].const
        BY DEF Named
      <4>2. PICK m \in D : b = f[m]
        BY <1>12, <4>1
      <4>3. m \in A
        BY <1>11, <4>1, <4>2 DEF OwnsName
      <4>. QED BY <4>2, <4>3
    <3>3. \A a, b \in A : f[a] = f[b] => a = b
      BY <1>1
    <3>. HIDE DEF A
    <3>. QED BY <2>1, <3>1, <3>2, <3>3, SameSize
  <2>3. Cardinality(Worded(S, data')) = Cardinality(B)
    <3>1. \A a \in B : f[a] \in Worded(S, data')
      BY <1>11 DEF Worded
    <3>2. ASSUME NEW b \in Worded(S, data') PROVE \E a \in B : b = f[a]
      <4>1. b \in S /\ data'[b].kind \in Texts
        BY DEF Worded
      <4>2. PICK m \in D : b = f[m]
        BY <1>12, <4>1
      <4>3. m \in B
        BY <1>11, <4>1, <4>2
      <4>. QED BY <4>2, <4>3
    <3>3. \A a, b \in B : f[a] = f[b] => a = b
      BY <1>1
    <3>. HIDE DEF B
    <3>. QED BY <2>1, <3>1, <3>2, <3>3, SameSize
  <2>4. Owned(live \cup S, data') = Owned(live, data') + Owned(S, data')
    <3>1. live \in SUBSET Nodes /\ live \cap S = {}
      BY <1>2, <1>4
    <3>. QED BY <1>10, <3>1, OwnedUnion
  <2>5. Owned(live, data') = strings /\ strings \in Nat
    <3>1. \A m \in live : data'[m] = data[m]
      BY <1>2, <1>4, <1>13
    <3>2. Owned(live, data') = Owned(live, data)
      BY <3>1, OwnedSame
    <3>. QED BY <3>2, InvNow
  <2>6. Owned(S, data') = Cardinality(A) + Cardinality(B)
    BY <2>2, <2>3 DEF Owned
  <2>7. Cardinality(A) \in Nat /\ Cardinality(B) \in Nat
    <3>1. IsFiniteSet(A) /\ IsFiniteSet(B)
      BY <2>1, FS_Subset, TreeAssumption
    <3>. QED BY <3>1, FS_CardinalityType
  <2>8. strings' = strings + Cardinality(A) + Cardinality(B) /\ live' = live \cup S
    BY <1>2
  <2>. HIDE DEF A, B
  <2>. QED BY <2>4, <2>5, <2>6, <2>7, <2>8
<1>. QED BY <1>9, <1>15, <1>16, <1>17, InvNext

--------------------------------------------------------------------------------
(* The invariant of the specification, and what it gives *)

\* Nothing is allocated at first.
LEMMA JsonInit == Init => JsonInv
<1>. SUFFICES ASSUME Init PROVE JsonInv
  OBVIOUS
<1>1. /\ live = {} /\ strings = 0 /\ held = {} /\ data = [n \in Nodes |-> Blank]
      /\ next = [n \in Nodes |-> Null] /\ prev = next /\ child = next /\ owner = next /\ target = next
  BY DEF Init
<1>2. Links
  <2>1. Typed(live, next, prev, child, owner, target)
    BY <1>1 DEF Typed
  <2>2. References(live, child, owner, target) /\ Linked(live, next, prev, child, owner, target)
    BY <1>1 DEF References, Linked
  <2>3. NoLoop(live, prev, child, owner) /\ NoCycle(live, owner, target)
    BY <1>1 DEF NoLoop, NoCycle
  <2>. QED BY <2>1, <2>2, <2>3 DEF Links, Forest
<1>3. Items
  <2>1. data \in [Nodes -> Datum]
    BY <1>1, BlankIs
  <2>2. \A n \in Nodes : data[n] = Blank /\ target[n] = Null
    BY <1>1
  <2>. QED BY <2>1, <2>2, BlankIs DEF Items, Datum
<1>4. Roots
  BY <1>1 DEF Roots
<1>5. Strings
  <2>1. {n \in live : OwnsName(n)} = {} /\ {n \in live : OwnsText(n)} = {}
    BY <1>1
  <2>2. Cardinality({}) = 0
    BY FS_EmptySet
  <2>. QED BY <1>1, <2>1, <2>2 DEF Strings, OwnedStrings
<1>. QED BY <1>2, <1>3, <1>4, <1>5 DEF JsonInv

\* Each call keeps the invariant.
LEMMA JsonNext == JsonInv /\ [Next /\ Bounded']_vars => JsonInv'
<1>. SUFFICES ASSUME JsonInv, [Next]_vars PROVE JsonInv'
  OBVIOUS
<1>1. ASSUME NEW n \in Nodes \ live, NEW kind \in Kinds, Create(n, kind) PROVE JsonInv'
  BY <1>1, CreateKeeps
<1>2. ASSUME NEW n \in Nodes \ live, NEW kind \in Scalars, NEW S \in SUBSET (Nodes \ live),
             NEW ns \in SetToSeqs(S), CreateArrayOf(n, ns, kind)
      PROVE  JsonInv'
  BY <1>2, CreateArrayOfKeeps
<1>3. ASSUME NEW n \in Nodes \ live, NEW m \in live, CreateReference(n, m) \/ LoseReference(n, m)
      PROVE  JsonInv'
  BY <1>3, CreateReferenceKeeps, LoseReferenceKeeps
<1>4. ASSUME NEW n \in Nodes \ live, NEW p \in live, NEW name \in Names, NEW kind \in Kinds,
             AddNewToObject(p, n, name, kind)
      PROVE  JsonInv'
  BY <1>4, AddNewToObjectKeeps
<1>5. ASSUME NEW n \in Nodes \ live, NEW p \in live, NEW name \in Names \cup {NoName}, NEW m \in live,
             AddItemReference(p, n, name, m)
      PROVE  JsonInv'
  BY <1>5, AddItemReferenceKeeps
<1>6. ASSUME NEW n \in live, NEW D \in {{n}, Shown(n)}, NEW S \in SUBSET (Nodes \ live),
             NEW f \in Bijection(D, S), Duplicate(n, f)
      PROVE  JsonInv'
  BY <1>6, DuplicateKeeps
<1>7. ASSUME NEW p \in live, NEW r \in held, AddItemToArray(p, r) PROVE JsonInv'
  BY <1>7, AddItemToArrayKeeps
<1>8. ASSUME NEW p \in live, NEW r \in held, NEW n \in ArrayItems(p),
             InsertItemInArray(p, n, r) \/ ReplaceItem(p, n, r)
      PROVE  JsonInv'
  BY <1>8, InsertItemInArrayKeeps, ReplaceItemKeeps
<1>9. ASSUME NEW p \in live, NEW r \in held, NEW name \in Names, NEW b \in BOOLEAN,
             AddItemToObject(p, name, r, b) \/ ReplaceItemInObject(p, name, r, b)
      PROVE  JsonInv'
  BY <1>9, AddItemToObjectKeeps, ReplaceItemInObjectKeeps
<1>10. ASSUME NEW p \in live, NEW n \in ArrayItems(p), Detach(p, n) \/ DeleteItem(p, n) PROVE JsonInv'
  BY <1>10, DetachItemKeeps, DeleteItemKeeps
<1>11. ASSUME NEW p \in live, NEW name \in Names, NEW b \in BOOLEAN,
              DetachItemFromObject(p, name, b) \/ DeleteItemFromObject(p, name, b)
       PROVE  JsonInv'
  BY <1>11, DetachItemFromObjectKeeps, DeleteItemFromObjectKeeps
<1>12. ASSUME NEW n \in held, Delete(n) PROVE JsonInv'
  BY <1>12, DeleteKeeps
<1>13. ASSUME NEW n \in live, NEW text \in Texts, SetValuestring(n, text) PROVE JsonInv'
  BY <1>13, SetValuestringKeeps
<1>14. CASE UNCHANGED vars
  <2>1. /\ live' = live /\ next' = next /\ prev' = prev /\ child' = child /\ data' = data
        /\ strings' = strings /\ held' = held /\ owner' = owner /\ target' = target
    BY <1>14 DEF vars
  <2>2. Forest(live', next', prev', child', owner', target') /\ strings' = Owned(live', data')
    BY <2>1, InvNow
  <2>3. Items' /\ Roots'
    BY <2>1 DEF JsonInv, Items, Roots
  <2>. QED BY <2>2, <2>3, InvNext
<1>15. CASE Next
  BY <1>1, <1>2, <1>3, <1>4, <1>5, <1>6, <1>7, <1>8, <1>9, <1>10, <1>11, <1>12, <1>13, <1>15, Zenon DEF Next
<1>. QED BY <1>14, <1>15

\* The invariant holds after any calls.
LEMMA JsonInvariant == Spec => []JsonInv
BY JsonInit, JsonNext, PTL DEF Spec

\* The links lead to items that exist, and the counted strings are never fewer than none: no
\* call of cJSON.c follows or frees a pointer to freed memory, or frees a string twice.
THEOREM TreeTypeCorrect == Spec => []TypeOK
<1>1. JsonInv => TypeOK
  <2>. SUFFICES ASSUME JsonInv PROVE TypeOK
    OBVIOUS
  <2>1. /\ next \in [Nodes -> live \cup {Null}] /\ prev \in [Nodes -> live \cup {Null}]
        /\ child \in [Nodes -> live \cup {Null}] /\ owner \in [Nodes -> live \cup {Null}]
        /\ target \in [Nodes -> live \cup {Null}]
    BY InvNow, LinksTyped
  <2>. QED BY <2>1, InvNow DEF TypeOK, Datum
<1>. QED BY <1>1, JsonInvariant, PTL

\* Whatever the calls of cJSON.c and their order, every list is linked both ways, its first
\* item leads to its last, and an item is in no list but the one it was put in.
THEOREM ListsStayLinked == Spec => []ListsLinked
<1>1. JsonInv => ListsLinked
  <2>. SUFFICES ASSUME JsonInv, NEW n \in live
                PROVE  /\ next[n] # Null => prev[next[n]] = n /\ owner[next[n]] = owner[n]
                       /\ IF owner[n] = Null THEN next[n] = Null /\ prev[n] = Null
                          ELSE /\ n # child[owner[n]] => next[prev[n]] = n
                               /\ n = child[owner[n]] => next[prev[n]] = Null
                               /\ next[n] = Null => prev[child[owner[n]]] = n
                       /\ child[n] # Null /\ ~data[n].ref => owner[child[n]] = n
    BY DEF ListsLinked
  <2>1. LinkedAt(n, next, prev, child, owner, target)
    BY InvNow DEF Forest, Linked
  <2>2. ~data[n].ref => target[n] = Null
    BY InvNow DEF Items
  <2>. QED BY <2>1, <2>2 DEF LinkedAt
<1>. QED BY <1>1, JsonInvariant, PTL

\* Nothing is freed twice or never, for any calls in any order: the strings allocated are those
\* the items own, and each item but the references is freed with a root that the caller holds.
THEOREM MemoryIsAccounted == Spec => []MemoryAccounted
<1>1. JsonInv => MemoryAccounted
  <2>. SUFFICES ASSUME JsonInv PROVE MemoryAccounted
    OBVIOUS
  <2>. DEFINE C == {x \in live : ~data[x].ref /\ \A r \in held : x \notin Freed(r)}
  <2>1. ASSUME NEW x \in C PROVE owner[x] # Null /\ \E q \in C : Shows(q, x, owner, target)
    <3>1. x \in live /\ ~data[x].ref /\ \A r \in held : x \notin Freed(r)
      OBVIOUS
    <3>2. x \notin held
      BY <3>1, FreedIs, InvNow DEF Subtree
    <3>3. owner[x] # Null
      BY <3>1, <3>2, InvNow DEF Roots
    <3>4. owner[x] \in live /\ target[owner[x]] = Null
      BY <3>1, <3>3, InvNow, LinksTyped DEF Forest, References
    <3>5. ~data[owner[x]].ref
      BY <3>4, InvNow DEF Items
    <3>6. ASSUME NEW r \in held PROVE owner[x] \notin Freed(r)
      <4>1. r \in live
        BY InvNow
      <4>2. \A y \in live : owner[y] \in Freed(r) => y \in Freed(r)
        BY <4>1, FreedIs, InvNow DEF Subtree
      <4>. QED BY <3>1, <4>2
    <3>7. owner[x] \in C
      BY <3>4, <3>5, <3>6
    <3>8. Shows(owner[x], x, owner, target)
      BY DEF Shows
    <3>. QED BY <3>3, <3>7, <3>8
  <2>2. C \in SUBSET live
    OBVIOUS
  <2>3. C = {}
    <3>. HIDE DEF C
    <3>. QED BY <2>1, <2>2, InvNow DEF Forest, NoCycle
  <2>4. \A n \in live : data[n].ref \/ \E r \in held : n \in Freed(r)
    BY <2>3
  <2>. QED BY <2>4 DEF MemoryAccounted, JsonInv, Strings
<1>. QED BY <1>1, JsonInvariant, PTL
=============================================================================
