------------------------------ MODULE ItemLists ------------------------------
(* What the tree functions of cJSON promise (cJSON/cJSON.h 119-272): every item
   has a list of items, an item is in at most one list, and the functions that
   add, insert, detach, replace and delete do to these lists what their names
   say and leave every other list alone. A reference shows the list of another
   item and owns nothing.                                                     *)
EXTENDS Integers, Sequences, SequencesExt

CONSTANT Nodes

VARIABLES
  kids,     \* the items there are, and the list that each owns
  shows     \* the item whose list each shows, itself unless it is a reference

lists == <<kids, shows>>

Items == DOMAIN kids

IsRoot(n) == n \in Items /\ \A m \in Items : n \notin ToSet(kids[m])

\* The items one reaches from n, through the lists that sub gives: those of every set that
\* n is in and that has what is in the lists of its items.
Below(n, sub) ==
  {m \in Items : \A S \in SUBSET Items :
                   n \in S /\ (\A x \in S : ToSet(sub[x]) \subseteq S) => m \in S}

Tree(n) == Below(n, kids)
Shown(n) == Below(n, [m \in Items |-> kids[shows[m]]])

Init == kids = << >> /\ shows = << >>

\* The items of the next state that there were not.
Made == Items' \ Items

\* Items come to be, with lists of their own; no other list changes.
New(ks, sh) ==
  /\ Made = DOMAIN ks /\ Items \subseteq Items'
  /\ kids' = [m \in Items' |-> IF m \in Items THEN kids[m] ELSE ks[m]]
  /\ shows' = [m \in Items' |-> IF m \in Items THEN shows[m] ELSE sh[m]]

Itself(S) == [m \in S |-> m]

NewArray(n, s) == New([m \in ToSet(s) \cup {n} |-> IF m = n THEN s ELSE << >>],
                      Itself(ToSet(s) \cup {n}))

NewReference(n, m) == m \in Items /\ New([x \in {n} |-> << >>], [x \in {n} |-> shows[m]])

\* A copy of n, or of all that n shows: a new item f[x] for each item x.
Copy(n, f) ==
  LET original(m) == CHOOSE x \in DOMAIN f : f[x] = m
      list(m) == kids[shows[original(m)]]
  IN New([m \in Made |-> IF DOMAIN f = {n} THEN << >> ELSE [i \in DOMAIN list(m) |-> f[list(m)[i]]]],
         Itself(Made))

NewIn(p, n, m) ==
  /\ Made = {n} /\ Items \subseteq Items'
  /\ kids' = [x \in Items' |-> IF x = n THEN << >> ELSE IF x = p THEN Append(kids[p], n) ELSE kids[x]]
  /\ shows' = [x \in Items' |-> IF x # n THEN shows[x] ELSE IF m = n THEN n ELSE shows[m]]

\* The root m becomes the i-th item of p.
Insert(p, i, m) ==
  /\ Items' = Items /\ IsRoot(m) /\ p \notin Tree(m) /\ i \in 1..Len(kids[p]) + 1
  /\ kids' = [kids EXCEPT ![p] = InsertAt(@, i, m)]
  /\ UNCHANGED shows

Detach(p, i) ==
  /\ Items' = Items /\ i \in DOMAIN kids[p]
  /\ kids' = [kids EXCEPT ![p] = RemoveAt(@, i)]
  /\ UNCHANGED shows

\* The lists are ks, but for those of the items of S, which are no more.
Lose(S, ks) ==
  /\ Items' = Items \ S
  /\ kids' = Restrict(ks, Items \ S)
  /\ shows' = Restrict(shows, Items \ S)

Delete(n) == IsRoot(n) /\ Lose(Tree(n), kids)

DeleteAt(p, i) ==
  i \in DOMAIN kids[p] /\ Lose(Tree(kids[p][i]), [kids EXCEPT ![p] = RemoveAt(@, i)])

PutAt(p, i, m) ==
  /\ i \in DOMAIN kids[p] /\ IsRoot(m) /\ p \notin Tree(m)
  /\ Lose(Tree(kids[p][i]), [kids EXCEPT ![p][i] = m])

Next ==
  \/ /\ Made # {}
     /\ \/ \E n \in Made : \/ \E s \in SetToSeqs(Made \ {n}) : NewArray(n, s)
                           \/ \E m \in Items : NewReference(n, m)
                           \/ \E p \in Items, m \in Items \cup {n} : NewIn(p, n, m)
        \/ \E n \in Items : \E D \in {{n}, Shown(n)} : \E f \in Bijection(D, Made) : Copy(n, f)
  \/ /\ Items' = Items
     /\ \E p \in Items : \E i \in 1..Len(kids[p]) + 1 : Detach(p, i) \/ \E m \in Items : Insert(p, i, m)
  \/ /\ Items' # Items /\ Made = {}
     /\ \E p \in Items : \/ Delete(p)
                         \/ \E i \in DOMAIN kids[p] : DeleteAt(p, i) \/ \E m \in Items : PutAt(p, i, m)

Spec == Init /\ [][Next]_lists
===============================================================================
