----------------------------- MODULE ConfigTree -----------------------------
(***************************************************************************)
(* What libconfig promises of a configuration: a tree whose nodes are      *)
(* reached by paths of indices, counted from 1 here.  A new setting comes  *)
(* last among its siblings; removing one removes all that is below it and  *)
(* moves the siblings behind it up.                                        *)
(***************************************************************************)
EXTENDS Naturals, Sequences

CONSTANTS Names, Types, Nil

VARIABLE tree   \* [a set of paths -> [name, type]]

Top == [p \in {<< >>} |-> [name |-> Nil, type |-> "GROUP"]]

\* q is p or lies below it.
Within(q, p) == Len(q) >= Len(p) /\ \A k \in 1..Len(p) : q[k] = p[k]

\* q is, or lies below, a sibling of p that comes after p.
Behind(q, p) ==
  /\ Len(q) >= Len(p) /\ q[Len(p)] > p[Len(p)]
  /\ \A k \in 1..(Len(p) - 1) : q[k] = p[k]

Children(t, p) == {q \in DOMAIN t : Len(q) = Len(p) + 1 /\ Within(q, p)}

Init == tree = Top

Put(t, p, node) == [q \in DOMAIN t \cup {p} |-> IF q = p THEN node ELSE t[q]]

\* p gets a new child, its i-th and last, whose name it had not.
Add(p, i) ==
  LET new == Append(p, i) IN
    /\ new \in DOMAIN tree' /\ tree'[new] \in [name: Names \cup {Nil}, type: Types]
    /\ tree' = Put(tree, new, tree'[new])
    /\ \A q \in Children(tree, p) :
         q[Len(q)] < i /\ (tree[q].name # Nil => tree[q].name # tree'[new].name)

\* A setting without a type gets one with its first value.
SetType(p, type) ==
  /\ tree[p].type = "NONE"
  /\ tree' = [tree EXCEPT ![p].type = type]

Without(t, p) ==
  LET kept == {q \in DOMAIN t : ~ Within(q, p)}
      moved(q) == IF Behind(q, p) THEN [q EXCEPT ![Len(p)] = @ - 1] ELSE q
  IN [r \in {moved(q) : q \in kept} |-> t[CHOOSE q \in kept : moved(q) = r]]

\* p goes, and all below it.
Delete(p) == tree' = Without(tree, p)

Clear == tree' = Top

Next ==
  \/ \E p \in DOMAIN tree :
       \/ \E i \in {1} \cup {q[Len(q)] + 1 : q \in Children(tree, p)} : Add(p, i)
       \/ \E t \in Types : SetType(p, t)
       \/ p # << >> /\ Delete(p)
  \/ Clear

Spec == Init /\ [][Next]_tree
=============================================================================
