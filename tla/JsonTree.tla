------------------------------ MODULE JsonTree ------------------------------
(* The trees of cJSON (cJSON/cJSON.c) and the calls that build, change, copy,
   compare and delete them. An item has the pointers next, prev and child; child
   is the first of the item's list, and the prev of the first is the last, so
   that an item is appended without a walk over the list. One call is one step:
   a tree belongs to one thread.

   The caller keeps to the rules of cJSON.h: what it adds is the root of a tree
   that it holds and that the new place is not in, what it detaches or replaces
   is in the list it names, and what a reference shows is neither changed nor
   deleted while the reference exists.                                        *)
EXTENDS Integers, Sequences, SequencesExt

CONSTANTS
  Nodes,      \* the items that can be allocated
  Null,
  Scalars,    \* null, booleans, numbers, strings and raw text
  Texts,      \* the strings and the raw text, which have an allocated valuestring
  Names, NoName,
  MaxNamedItems,
  Lower       \* Lower[k] is the name k in lower case

ASSUME TreeAssumption == IsFiniteSet(Nodes) /\ Null \notin Nodes /\ NoName \notin Names
                         /\ Texts \subseteq Scalars /\ Scalars \cap {"Array", "Object"} = {}

VARIABLES
  live,       \* the items allocated
  next, prev, child,
  data,       \* kind, whether cJSON_IsReference, the name, whether it is cJSON_StringIsConst
  strings,    \* the strings allocated and not freed
  held,       \* the roots the caller has a pointer to
  owner,      \* history: the item in whose list the caller put each item
  target      \* history: the item each reference was made of

links == <<next, prev, child>>
vars == <<live, next, prev, child, data, strings, held, owner, target>>

Kinds == Scalars \cup {"Array", "Object"}
Blank == [kind |-> "Object", ref |-> FALSE, name |-> NoName, const |-> FALSE]

--------------------------------------------------------------------------------
\* Walks over the pointers.

\* The items one reaches from those of start, succ[n] being the items n leads to: those
\* of every set that has what its items lead to.
Reached(start, succ) ==
  {n \in Nodes : \A S \in SUBSET Nodes :
                   start \subseteq S /\ (\A m \in S : succ[m] \subseteq S) => n \in S}

NonNull(n) == {n} \ {Null}

\* cJSON_GetArrayItem for each index: the items of the list of p.
ArrayItems(p) == Reached(NonNull(child[p]), [n \in Nodes |-> NonNull(next[n])])

\* What cJSON_Delete frees when it is given n and n has no next.
Freed(n) ==
  Reached({n}, [m \in Nodes |-> (IF data[m].ref THEN {} ELSE NonNull(child[m]))
                                \cup (IF m = n THEN {} ELSE NonNull(next[m]))])

\* What one sees from n, through references too.
Shown(n) ==
  Reached({n}, [m \in Nodes |-> NonNull(child[m]) \cup (IF m = n THEN {} ELSE NonNull(next[m]))])

IsNamed(n, name, caseSensitive) ==
  /\ data[n].name # NoName
  /\ IF caseSensitive THEN data[n].name = name ELSE Lower[data[n].name] = Lower[name]

\* The list of p, in order, as one meets it by next.
ArrayList(p) ==
  LET from[rank \in 0..Cardinality(Nodes) + 1] ==
        [n \in Nodes \cup {Null} |->
           IF n = Null \/ rank = 0 THEN << >> ELSE <<n>> \o from[rank - 1][next[n]]]
  IN from[Cardinality(Nodes) + 1][child[p]]

\* get_object_item: the first item of that name, as a set, empty for NULL. The walk
\* that is case sensitive ends at an item without a name.
ObjectItem(p, name, caseSensitive) ==
  LET passed(n) == ~IsNamed(n, name, caseSensitive) /\ (caseSensitive => data[n].name # NoName)
  IN {n \in Reached(NonNull(child[p]), [n \in Nodes |-> IF passed(n) THEN NonNull(next[n]) ELSE {}]) :
        IsNamed(n, name, caseSensitive)}

OwnsName(n) == data[n].name # NoName /\ ~data[n].const
OwnsText(n) == data[n].kind \in Texts /\ ~data[n].ref

OwnedStrings(S) == Cardinality({n \in S : OwnsName(n)}) + Cardinality({n \in S : OwnsText(n)})

--------------------------------------------------------------------------------
\* The rules the caller keeps to.

Frozen(n) == \E r \in live : target[r] # Null /\ n \in Shown(target[r])

Changeable(p) == p \in live /\ ~data[p].ref /\ data[p].kind \in {"Array", "Object"} /\ ~Frozen(p)

\* No reference that stays shows what is about to be freed.
Deletable(S) == \A r \in live \ S : target[r] \notin S

CanAdd(p, n) == Changeable(p) /\ n \in held /\ p \notin Shown(n)

--------------------------------------------------------------------------------
\* The helpers. Each gives the new value of one variable.

\* cJSON_New_Item, and the copying of type and value into it
Allocated(n) == n \in Nodes \ live
Item(kind) == [Blank EXCEPT !.kind = kind]

\* free of the items of S, of their values and of their names
Free(S, f) == [n \in Nodes |-> IF n \in S THEN Null ELSE f[n]]
FreeItems(S) ==
  /\ live' = live \ S
  /\ data' = [n \in Nodes |-> IF n \in S THEN Blank ELSE data[n]]
  /\ target' = Free(S, target)
  /\ strings' = strings - OwnedStrings(S)

\* add_item_to_array and suffix_object, for an item n without next and prev; ch is child
\* with the children of items created by the same call.
AppendItem(p, n, ch) ==
  LET first == ch[p] IN
  IF first = Null
  THEN /\ child' = [ch EXCEPT ![p] = n]
       /\ prev' = [prev EXCEPT ![n] = n]
       /\ UNCHANGED next
  ELSE /\ child' = ch
       /\ prev' = [prev EXCEPT ![n] = prev[first], ![first] = n]
       /\ next' = [next EXCEPT ![prev[first]] = n]

\* The bug that NotRelinked would be: the item before a detached one still leads to it.
NotRelinked(p, n) == [next EXCEPT ![n] = Null]

\* cJSON_DetachItemViaPointer: next, prev and child
NextDetached(p, n) ==
  IF n = child[p] THEN [next EXCEPT ![n] = Null] ELSE [next EXCEPT ![prev[n]] = next[n], ![n] = Null]

\* The bug that LastForgotten would be: detaching the last item leaves the first pointing to it.
LastForgotten(p, n) ==
  IF next[n] # Null THEN [prev EXCEPT ![next[n]] = prev[n], ![n] = Null] ELSE [prev EXCEPT ![n] = Null]

PrevDetached(p, n) ==
  [prev EXCEPT ![IF next[n] # Null THEN next[n] ELSE child[p]] = prev[n], ![n] = Null]

ChildDetached(p, n) == IF n = child[p] THEN [child EXCEPT ![p] = next[n]] ELSE child

\* The bug that OldNameKept would be: the name an item had is not freed.
OldNameKept(n, name, const) ==
  /\ data' = [data EXCEPT ![n].name = name, ![n].const = const]
  /\ strings' = strings + (IF const \/ name = NoName THEN 0 ELSE 1)

\* The name of n becomes name.
Rename(n, name, const) ==
  /\ data' = [data EXCEPT ![n].name = name, ![n].const = const]
  /\ strings' = strings - (IF OwnsName(n) THEN 1 ELSE 0) + (IF const \/ name = NoName THEN 0 ELSE 1)

--------------------------------------------------------------------------------
\* Items are created.

Create(n, kind) ==
  /\ Allocated(n)
  /\ live' = live \cup {n} /\ held' = held \cup {n}
  /\ data' = [data EXCEPT ![n] = Item(kind)]
  /\ strings' = strings + (IF kind \in Texts THEN 1 ELSE 0)
  /\ UNCHANGED <<next, prev, child, owner, target>>

\* cJSON_CreateIntArray and its like: an array n of the items ns.
CreateArrayOf(n, ns, kind) ==
  LET S == ToSet(ns)
      place(m) == CHOOSE i \in DOMAIN ns : ns[i] = m
      last == Len(ns)
  IN /\ Allocated(n) /\ S \cap (live \cup {n}) = {}
     /\ live' = live \cup S \cup {n} /\ held' = held \cup {n}
     /\ data' = [m \in Nodes |-> IF m \in S THEN Item(kind) ELSE IF m = n THEN Item("Array") ELSE data[m]]
     /\ strings' = strings + (IF kind \in Texts THEN last ELSE 0)
     /\ child' = [child EXCEPT ![n] = IF last = 0 THEN Null ELSE ns[1]]
     /\ next' = [m \in Nodes |-> IF m \in S /\ place(m) < last THEN ns[place(m) + 1] ELSE next[m]]
     /\ prev' = [m \in Nodes |-> IF m \notin S THEN prev[m]
                                 ELSE IF place(m) = 1 THEN ns[last] ELSE ns[place(m) - 1]]
     /\ owner' = [m \in Nodes |-> IF m \in S THEN n ELSE owner[m]]
     /\ UNCHANGED target

\* The item whose list or string a reference to m shows.
Origin(m) == IF data[m].ref THEN target[m] ELSE m

\* create_reference; the name is not copied, the child pointer is.
Reference(m) == [data[m] EXCEPT !.ref = TRUE, !.name = NoName, !.const = FALSE]

\* cJSON_CreateStringReference, cJSON_CreateArrayReference and cJSON_CreateObjectReference
\* of the string or of the list of m
CreateReference(n, m) ==
  /\ Allocated(n) /\ m \in live /\ data[m].kind \in Texts \cup {"Array", "Object"}
  /\ live' = live \cup {n} /\ held' = held \cup {n}
  /\ data' = [data EXCEPT ![n] = Reference(m)]
  /\ child' = [child EXCEPT ![n] = child[m]]
  /\ target' = [target EXCEPT ![n] = Origin(m)]
  /\ UNCHANGED <<next, prev, strings, owner>>

\* cJSON_Duplicate of n, f giving the new item for each one copied. A failure frees what
\* has been made. No item is seen twice from n: an item shown by two references would be
\* copied twice.
Duplicate(n, f) ==
  LET D == DOMAIN f
      S == {f[m] : m \in D}
      original(x) == CHOOSE m \in D : f[m] = x
      copy(p) == IF p \in D THEN f[p] ELSE Null
      inner(x, p) == IF x = f[n] THEN Null ELSE copy(p[original(x)])
  IN /\ S \cap live = {} /\ \A m, x \in D : m # x => child[m] # child[x] \/ child[m] = Null
     /\ live' = live \cup S /\ held' = held \cup {f[n]}
     /\ data' = [x \in Nodes |-> IF x \in S THEN [data[original(x)] EXCEPT !.ref = FALSE] ELSE data[x]]
     /\ strings' = strings + Cardinality({m \in D : OwnsName(m)}) + Cardinality({m \in D : data[m].kind \in Texts})
     /\ child' = [x \in Nodes |-> IF x \in S THEN copy(child[original(x)]) ELSE child[x]]
     /\ next' = [x \in Nodes |-> IF x \in S THEN inner(x, next) ELSE next[x]]
     /\ prev' = [x \in Nodes |-> IF x \in S THEN inner(x, prev) ELSE prev[x]]
     /\ owner' = [x \in Nodes |-> IF x \in S /\ x # f[n]
                                  THEN f[CHOOSE p \in D : original(x) \in ArrayItems(p)] ELSE owner[x]]
     /\ UNCHANGED target

--------------------------------------------------------------------------------
\* Items are added.

\* n is in the list of p from now on.
Given(p, n) == held' = held \ {n} /\ owner' = [owner EXCEPT ![n] = p]

AddItemToArray(p, n) ==
  /\ CanAdd(p, n)
  /\ AppendItem(p, n, child) /\ Given(p, n)
  /\ UNCHANGED <<live, data, strings, target>>

\* cJSON_AddItemToObject and cJSON_AddItemToObjectCS
AddItemToObject(p, name, n, const) ==
  /\ CanAdd(p, n)
  /\ AppendItem(p, n, child) /\ Rename(n, name, const) /\ Given(p, n)
  /\ UNCHANGED <<live, target>>

\* The bug that PredecessorUnlinked would be: the item before the new one still leads past it.
PredecessorUnlinked(p, after, n) ==
  /\ CanAdd(p, n) /\ after \in ArrayItems(p)
  /\ next' = [next EXCEPT ![n] = after]
  /\ prev' = [prev EXCEPT ![n] = prev[after], ![after] = n]
  /\ child' = IF after = child[p] THEN [child EXCEPT ![p] = n] ELSE child
  /\ Given(p, n)
  /\ UNCHANGED <<live, data, strings, target>>

\* cJSON_InsertItemInArray before the item after; past the end it is AddItemToArray
InsertItemInArray(p, after, n) ==
  /\ CanAdd(p, n) /\ after \in ArrayItems(p)
  /\ next' = IF after = child[p] THEN [next EXCEPT ![n] = after]
             ELSE [next EXCEPT ![n] = after, ![prev[after]] = n]
  /\ prev' = [prev EXCEPT ![n] = prev[after], ![after] = n]
  /\ child' = IF after = child[p] THEN [child EXCEPT ![p] = n] ELSE child
  /\ Given(p, n)
  /\ UNCHANGED <<live, data, strings, target>>

\* A new item n appended to p, with the data d, the name, the child c and the origin m.
AddNew(p, n, d, name, c, m) ==
  /\ Allocated(n) /\ Changeable(p)
  /\ live' = live \cup {n}
  /\ data' = [data EXCEPT ![n] = [d EXCEPT !.name = name]]
  /\ strings' = strings + (IF name = NoName THEN 0 ELSE 1)
                        + (IF d.kind \in Texts /\ ~d.ref THEN 1 ELSE 0)
  /\ AppendItem(p, n, [child EXCEPT ![n] = c])
  /\ owner' = [owner EXCEPT ![n] = p]
  /\ target' = [target EXCEPT ![n] = m]
  /\ UNCHANGED held

\* cJSON_AddNullToObject and its like; when the name cannot be copied the item is deleted
AddNewToObject(p, n, name, kind) == AddNew(p, n, Item(kind), name, Null, Null)

\* cJSON_AddItemReferenceToArray, and ToObject with a name
AddItemReference(p, n, name, m) ==
  /\ m \in live /\ p \notin Shown(m)
  /\ AddNew(p, n, Reference(m), name, child[m], Origin(m))

\* cJSON_AddItemReferenceToObject when the name cannot be copied: nobody deletes the reference.
LoseReference(n, m) ==
  /\ Allocated(n) /\ m \in live
  /\ live' = live \cup {n}
  /\ data' = [data EXCEPT ![n] = Reference(m)]
  /\ child' = [child EXCEPT ![n] = child[m]]
  /\ target' = [target EXCEPT ![n] = Origin(m)]
  /\ UNCHANGED <<next, prev, strings, held, owner>>

--------------------------------------------------------------------------------
\* Items are taken out, replaced and deleted.

\* cJSON_DetachItemViaPointer, and FromArray, where n is the item at some index
Detach(p, n) ==
  /\ Changeable(p) /\ n \in ArrayItems(p)
  /\ next' = NextDetached(p, n) /\ prev' = PrevDetached(p, n) /\ child' = ChildDetached(p, n)
  /\ held' = held \cup {n} /\ owner' = [owner EXCEPT ![n] = Null]
  /\ UNCHANGED <<live, data, strings, target>>

DetachItemFromObject(p, name, caseSensitive) ==
  \E n \in ObjectItem(p, name, caseSensitive) : Detach(p, n)

\* cJSON_DeleteItemFromArray: detach and delete
DeleteItem(p, n) ==
  LET freed == Freed(n)
  IN /\ Changeable(p) /\ n \in ArrayItems(p) /\ Deletable(freed)
     /\ next' = Free(freed, NextDetached(p, n))
     /\ prev' = Free(freed, PrevDetached(p, n))
     /\ child' = Free(freed, ChildDetached(p, n))
     /\ owner' = Free(freed, owner)
     /\ FreeItems(freed)
     /\ UNCHANGED held

DeleteItemFromObject(p, name, caseSensitive) ==
  \E n \in ObjectItem(p, name, caseSensitive) : DeleteItem(p, n)

Delete(n) ==
  LET freed == Freed(n)
  IN /\ n \in held /\ Deletable(freed)
     /\ next' = Free(freed, next) /\ prev' = Free(freed, prev) /\ child' = Free(freed, child)
     /\ owner' = Free(freed, owner)
     /\ FreeItems(freed)
     /\ held' = held \ {n}

\* cJSON_ReplaceItemViaPointer: r takes the place of n, which is deleted.
Replace(p, n, r) ==
  LET freed == Freed(n)
      next1 == [next EXCEPT ![r] = next[n]]
      prev1 == [prev EXCEPT ![IF next[n] # Null THEN next[n] ELSE child[p]] = r]
  IN /\ next' = Free(freed, IF child[p] = n THEN next1 ELSE [next1 EXCEPT ![prev[n]] = r])
     /\ prev' = Free(freed, [prev1 EXCEPT ![r] = IF prev[n] = n THEN r ELSE prev[n]])
     /\ child' = Free(freed, IF child[p] = n THEN [child EXCEPT ![p] = r] ELSE child)
     /\ owner' = Free(freed, [owner EXCEPT ![r] = p])
     /\ held' = held \ {r}

\* cJSON_ReplaceItemViaPointer, and InArray, where n is the item at some index
ReplaceItem(p, n, r) ==
  /\ CanAdd(p, r) /\ n \in ArrayItems(p) /\ Deletable(Freed(n))
  /\ Replace(p, n, r) /\ FreeItems(Freed(n))

\* replace_item_in_object: the replacement gets the name even if there is nothing to replace;
\* if the name cannot be copied it is left without one.
ReplaceItemInObject(p, name, r, caseSensitive) ==
  /\ CanAdd(p, r)
  /\ \/ /\ Rename(r, NoName, FALSE) /\ data[r].name # NoName
        /\ UNCHANGED <<live, links, held, owner, target>>
     \/ /\ ObjectItem(p, name, caseSensitive) = {}
        /\ Rename(r, name, FALSE)
        /\ UNCHANGED <<live, links, held, owner, target>>
     \/ \E n \in ObjectItem(p, name, caseSensitive) :
          /\ Deletable(Freed(n))
          /\ Replace(p, n, r)
          /\ live' = live \ Freed(n) /\ target' = Free(Freed(n), target)
          /\ data' = [m \in Nodes |-> IF m \in Freed(n) THEN Blank
                                      ELSE IF m = r THEN [data[r] EXCEPT !.name = name, !.const = FALSE]
                                      ELSE data[m]]
          /\ strings' = strings - OwnedStrings(Freed(n)) - (IF OwnsName(r) THEN 1 ELSE 0) + 1

\* cJSON_SetValuestring, in place or in a new string
SetValuestring(n, text) ==
  /\ n \in live /\ OwnsText(n) /\ \A r \in live : target[r] # n
  /\ data' = [data EXCEPT ![n].kind = text]
  /\ UNCHANGED <<live, links, strings, held, owner, target>>

--------------------------------------------------------------------------------
Init ==
  /\ live = {} /\ strings = 0 /\ held = {}
  /\ next = [n \in Nodes |-> Null] /\ prev = next /\ child = next /\ owner = next /\ target = next
  /\ data = [n \in Nodes |-> Blank]

\* How many items there may be while some have names.
Bounded == (\E n \in live : data[n].name # NoName) => Cardinality(live) <= MaxNamedItems

Next ==
  \/ \E n \in Nodes \ live :
       \/ \E kind \in Kinds : Create(n, kind)
       \/ \E kind \in Scalars, S \in SUBSET (Nodes \ live) : \E ns \in SetToSeqs(S) : CreateArrayOf(n, ns, kind)
       \/ \E m \in live : CreateReference(n, m) \/ LoseReference(n, m)
       \/ \E p \in live : \/ \E name \in Names, kind \in Kinds : AddNewToObject(p, n, name, kind)
                          \/ \E name \in Names \cup {NoName}, m \in live : AddItemReference(p, n, name, m)
  \/ \E n \in live : \E D \in {{n}, Shown(n)} : \E S \in SUBSET (Nodes \ live) :
       \E f \in Bijection(D, S) : Duplicate(n, f)
  \/ \E p \in live, r \in held :
       \/ AddItemToArray(p, r)
       \/ \E n \in ArrayItems(p) : InsertItemInArray(p, n, r) \/ ReplaceItem(p, n, r)
       \/ \E name \in Names, b \in BOOLEAN : AddItemToObject(p, name, r, b) \/ ReplaceItemInObject(p, name, r, b)
  \/ \E p \in live :
       \/ \E n \in ArrayItems(p) : Detach(p, n) \/ DeleteItem(p, n)
       \/ \E name \in Names, b \in BOOLEAN : DetachItemFromObject(p, name, b) \/ DeleteItemFromObject(p, name, b)
  \/ \E n \in held : Delete(n)
  \/ \E n \in live, text \in Texts : SetValuestring(n, text)

Spec == Init /\ [][Next /\ Bounded']_vars

--------------------------------------------------------------------------------
\* The bug that CaseForgotten would be: keys are looked for without case, whatever is asked for.
CaseForgotten(same, x, y, caseSensitive) ==
  LET xs == ArrayList(x)  ys == ArrayList(y)
      within(ms, q) == \A i \in DOMAIN ms : data[ms[i]].name # NoName
        /\ \E n \in ObjectItem(q, data[ms[i]].name, FALSE) : same[ms[i]][n]
  IN /\ data[x].kind = data[y].kind
     /\ \/ x = y
        \/ data[x].kind \in Scalars
        \/ /\ data[x].kind = "Array" /\ Len(xs) = Len(ys)
           /\ \A i \in DOMAIN xs : same[xs[i]][ys[i]]
        \/ data[x].kind = "Object" /\ within(xs, y) /\ within(ys, x)

\* What cJSON_Compare asks of x and y, if same tells which of their items compare as equal.
Matches(same, x, y, caseSensitive) ==
  LET xs == ArrayList(x)  ys == ArrayList(y)
      within(ms, q) == \A i \in DOMAIN ms : data[ms[i]].name # NoName
        /\ \E n \in ObjectItem(q, data[ms[i]].name, caseSensitive) : same[ms[i]][n]
  IN /\ data[x].kind = data[y].kind
     /\ \/ x = y
        \/ data[x].kind \in Scalars
        \/ /\ data[x].kind = "Array" /\ Len(xs) = Len(ys)
           /\ \A i \in DOMAIN xs : same[xs[i]][ys[i]]
        \/ data[x].kind = "Object" /\ within(xs, y) /\ within(ys, x)

\* cJSON_Compare. rank bounds how deep it goes: no item is below itself.
Compare(a, b, caseSensitive) ==
  LET cmp[rank \in 0..Cardinality(Nodes)] ==
        [x \in Nodes |-> [y \in Nodes |-> rank > 0 /\ Matches(cmp[rank - 1], x, y, caseSensitive)]]
  IN cmp[Cardinality(Nodes)][a][b]

--------------------------------------------------------------------------------
TypeOK ==
  /\ live \subseteq Nodes /\ held \subseteq live /\ strings \in Nat
  /\ {next, prev, child, owner, target} \subseteq [Nodes -> live \cup {Null}]
  /\ data \in [Nodes -> [kind : Kinds, ref : BOOLEAN, name : Names \cup {NoName}, const : BOOLEAN]]

\* Every list is linked both ways, its first item leads to its last, and an item is in no
\* other list than the one the caller put it in: what suffix_object, the two ends of
\* cJSON_DetachItemViaPointer and of cJSON_ReplaceItemViaPointer have to keep.
ListsLinked ==
  \A n \in live :
    /\ next[n] # Null => prev[next[n]] = n /\ owner[next[n]] = owner[n]
    /\ IF owner[n] = Null THEN next[n] = Null /\ prev[n] = Null
       ELSE /\ n # child[owner[n]] => next[prev[n]] = n
            /\ n = child[owner[n]] => next[prev[n]] = Null
            /\ next[n] = Null => prev[child[owner[n]]] = n
    /\ child[n] # Null /\ ~data[n].ref => owner[child[n]] = n

\* Nothing is freed twice or never: the strings counted are those that items own, and every
\* item is in the tree of a root that the caller holds, except the references that
\* cJSON_AddItemReferenceToObject makes and drops.
MemoryAccounted ==
  /\ strings = OwnedStrings(live)
  /\ \A n \in live : data[n].ref \/ \E r \in held : n \in Freed(r)

\* The value of an item as cJSON_Compare means it, if inner gives those of its items: the
\* order of an object does not count.
Valued(inner, n, caseSensitive) ==
  LET items == ArrayList(n)
      values == [i \in DOMAIN items |-> inner[items[i]]]
      key(m) == IF caseSensitive THEN data[m].name ELSE Lower[data[m].name]
  IN CASE data[n].kind \in Scalars -> <<data[n].kind>>
       [] data[n].kind = "Array" -> <<"Array", values>>
       [] OTHER -> <<"Object", {<<key(items[i]), values[i]>> : i \in DOMAIN items}>>

Value(a, caseSensitive) ==
  LET val[rank \in 0..Cardinality(Nodes)] ==
        [n \in Nodes |-> IF rank = 0 THEN << >> ELSE Valued(val[rank - 1], n, caseSensitive)]
  IN val[Cardinality(Nodes)][a]

KeysDiffer(a, caseSensitive) ==
  \A p \in Shown(a) : data[p].kind = "Object" =>
    \A m \in ArrayItems(p) : /\ data[m].name # NoName
                             /\ \A n \in ArrayItems(p) \ {m} : ~IsNamed(n, data[m].name, caseSensitive)

\* Two items compare as equal exactly if they have the same value, provided that the keys of
\* each object differ; with a key that occurs twice an object is not even equal to its copy.
CompareTellsValues ==
  \A a, b \in live, caseSensitive \in BOOLEAN :
    KeysDiffer(a, caseSensitive) /\ KeysDiffer(b, caseSensitive) =>
      (Compare(a, b, caseSensitive) <=> Value(a, caseSensitive) = Value(b, caseSensitive))

\* The lists that the pointers make are the lists the caller asked for.
Lists == INSTANCE ItemLists WITH
  kids <- [n \in live |-> IF data[n].ref THEN << >> ELSE ArrayList(n)],
  shows <- [n \in live |-> IF target[n] = Null THEN n ELSE target[n]]
ImplementsItemLists == Lists!Spec
================================================================================
