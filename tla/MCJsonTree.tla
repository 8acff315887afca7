----------------------------- MODULE MCJsonTree -----------------------------
(* JsonTree for TLC: names of which two may differ in case, and numbers or strings. *)
EXTENDS JsonTree

MCLower == [k \in Names |-> IF k = "A" THEN "a" ELSE k]
Symmetry == Permutations(Nodes)

(* Two objects with a member each take more items than all calls together allow
   while some have names.  They get their last member here, to be compared; from
   there on the calls that leave fewer items are possible.                     *)
Pair ==
  /\ Cardinality(held) = 2 /\ Cardinality(live) = 3 /\ \A r \in held : data[r].kind = "Object"
  /\ \E p \in {r \in held : Shown(r) = {r}}, n \in Nodes \ live, name \in Names, kind \in Kinds \ Texts :
       AddNewToObject(p, n, name, kind)

PairSpec == Init /\ [][(Next /\ Bounded') \/ Pair]_vars
=============================================================================
