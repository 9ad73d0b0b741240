---------------------------- MODULE SettingsProofs ----------------------------
(***************************************************************************)
(* Theorems about Settings: for any number of addresses, names and hooks   *)
(* and any chunk, the heap is a tree of settings, vectors have room, names *)
(* are unique and hooks are disposed of once; and the heap implements the  *)
(* tree of paths of ConfigTree.  On the shape of that heap rest those      *)
(* about CppWrapper: the C++ objects and the settings match, and a path    *)
(* leads back to its setting.                                              *)
(***************************************************************************)
EXTENDS CppWrapper, SequenceTheorems, WellFoundedInduction, TLAPS

\* What is left of a sequence when its i-th element is removed.
LEMMA RemovedElem ==
  ASSUME NEW S, NEW s \in Seq(S), NEW i \in DOMAIN s
  PROVE  /\ RemoveAt(s, i) \in Seq(S)
         /\ Len(RemoveAt(s, i)) = Len(s) - 1
         /\ \A j \in 1..(Len(s) - 1) :
              RemoveAt(s, i)[j] = IF j < i THEN s[j] ELSE s[j + 1]
<1> DEFINE front == SubSeq(s, 1, i - 1)
           back == SubSeq(s, i + 1, Len(s))
<1>1. i \in 1..Len(s) /\ Len(s) \in Nat
  OBVIOUS
<1>2. front \in Seq(S) /\ Len(front) = i - 1 /\ \A j \in 1..(i - 1) : front[j] = s[j]
  BY <1>1
<1>3. back \in Seq(S) /\ Len(back) = Len(s) - i /\ \A j \in 1..(Len(s) - i) : back[j] = s[i + j]
  <2>1. CASE i < Len(s)
    BY <1>1, <2>1
  <2>2. CASE i = Len(s)
    BY <1>1, <2>2
  <2> QED
    BY <1>1, <2>1, <2>2
<1>4. RemoveAt(s, i) = front \o back
  BY DEF RemoveAt
<1> HIDE DEF front, back
<1>5. ASSUME NEW j \in 1..(Len(s) - 1)
      PROVE  (front \o back)[j] = IF j < i THEN s[j] ELSE s[j + 1]
  <2>1. CASE j < i
    BY <1>1, <1>2, <1>3, <2>1
  <2>2. CASE ~ (j < i)
    <3>1. (front \o back)[j] = back[j - (i - 1)]
      BY <1>1, <1>2, <1>3, <2>2, ConcatProperties
    <3>2. back[j - (i - 1)] = s[i + (j - (i - 1))] /\ i + (j - (i - 1)) = j + 1
      BY <1>1, <1>3, <2>2
    <3> QED
      BY <2>2, <3>1, <3>2
  <2> QED
    BY <2>1, <2>2
<1> QED
  BY <1>1, <1>2, <1>3, <1>4, <1>5

\* A vector that grows when its length is a multiple of the chunk has a multiple of
\* the chunk as its size.
LEMMA Multiples ==
  ASSUME NEW c \in Nat \ {0}, NEW len \in Nat, NEW cap \in Nat,
         len <= cap, cap % c = 0
  PROVE  /\ len % c = 0 => (len + c) % c = 0
         /\ len % c # 0 => len < cap
<1>1. len % c # 0 => len # cap
  OBVIOUS
<1>2. (len + c) % c = len % c
  <2> DEFINE q == len \div c
             r == len % c
  <2>1. q \in Int /\ r \in 0..(c - 1)
    OBVIOUS
  <2>2. len = c * q + r
    OBVIOUS
  <2>3. len + c = c * (q + 1) + r
    BY <2>1, <2>2
  <2>4. ASSUME NEW k \in Int, NEW x \in 0..(c - 1) PROVE (c * k + x) % c = x
    OBVIOUS
  <2> QED
    BY <2>1, <2>3, <2>4
<1> QED
  BY <1>1, <1>2

-----------------------------------------------------------------------------
(* What holds of every heap h, in parts.                                   *)

Record == [name: Names \cup {Nil}, type: Types, parent: Nodes \cup {Nil}, elems: Seq(Nodes),
           cap: Nat, hook: Hooks \cup {Nil}]

Typed(h) == /\ Root \in DOMAIN h /\ DOMAIN h \subseteq Nodes
            /\ h \in [DOMAIN h -> Record]

\* The size of a vector is a multiple of the chunk.
Roomy(h) == \A n \in DOMAIN h : Len(h[n].elems) <= h[n].cap /\ h[n].cap % Chunk = 0

Rooted(h) == h[Root].parent = Nil /\ h[Root].type = "GROUP"

\* Elements exist and point back, ...
Down(h) ==
  \A n \in DOMAIN h : \A i \in DOMAIN h[n].elems :
    h[n].elems[i] \in DOMAIN h /\ h[h[n].elems[i]].parent = n

\* ... parents have their children, ...
Up(h) ==
  \A n \in DOMAIN h \ {Root} :
    /\ h[n].parent \in DOMAIN h
    /\ \E i \in DOMAIN h[h[n].parent].elems : h[h[n].parent].elems[i] = n

\* ... and none twice.
Once(h) ==
  \A n \in DOMAIN h : \A i, j \in DOMAIN h[n].elems : h[n].elems[i] = h[n].elems[j] => i = j

\* Scalars have no elements.
Leaves(h) == \A n \in DOMAIN h : h[n].elems # << >> => h[n].type \in Aggregates

Named(h) ==
  \A p \in DOMAIN h : \A i, j \in DOMAIN h[p].elems :
    /\ (h[h[p].elems[i]].name # Nil) <=> (h[p].type = "GROUP")
    /\ i # j /\ h[h[p].elems[i]].name # Nil => h[h[p].elems[i]].name # h[h[p].elems[j]].name

Shaped(h) == Typed(h) /\ Roomy(h) /\ Rooted(h) /\ Down(h) /\ Up(h) /\ Once(h)
               /\ Leaves(h) /\ Named(h)

\* A new configuration has this shape.
LEMMA RootAlone == Shaped([n \in {Root} |-> Setting(Nil, "GROUP", Nil)])
<1> DEFINE h == [n \in {Root} |-> Setting(Nil, "GROUP", Nil)]
<1>1. h[Root] = Setting(Nil, "GROUP", Nil) /\ DOMAIN h = {Root}
  OBVIOUS
<1>2. Typed(h)
  BY <1>1, NodesAssumption DEF Typed, Record, Setting, Types, Aggregates
<1>3. 0 % Chunk = 0
  BY ChunkAssumption
<1> HIDE DEF h
<1>4. Roomy(h) /\ Rooted(h) /\ Down(h) /\ Up(h) /\ Once(h) /\ Leaves(h) /\ Named(h)
  BY <1>1, <1>3 DEF Setting, Roomy, Rooted, Down, Up, Once, Leaves, Named
<1> QED
  BY <1>2, <1>4 DEF h, Shaped

\* What a vector is after an element was added.
LEMMA ListAdded ==
  ASSUME NEW s \in Record, NEW n \in Nodes,
         Len(s.elems) <= s.cap, s.cap % Chunk = 0
  PROVE  /\ ListAdd(s, n) \in Record
         /\ \A f \in {"name", "type", "parent", "hook"} : ListAdd(s, n)[f] = s[f]
         /\ ListAdd(s, n).elems = Append(s.elems, n)
         /\ Len(ListAdd(s, n).elems) <= ListAdd(s, n).cap
         /\ ListAdd(s, n).cap % Chunk = 0
<1> DEFINE t == ListAdd(s, n)
<1>1. Len(s.elems) \in Nat /\ s.cap \in Nat /\ Chunk \in Nat \ {0} /\ s.elems \in Seq(Nodes)
  BY ChunkAssumption DEF Record
<1>2. t.elems = Append(s.elems, n) /\ Len(t.elems) = Len(s.elems) + 1 /\ t.elems \in Seq(Nodes)
  BY <1>1 DEF ListAdd, Record
<1>3. t.cap = IF Len(s.elems) % Chunk = 0 THEN Len(s.elems) + Chunk ELSE s.cap
  BY <1>1 DEF ListAdd, Record
<1>4. t.cap % Chunk = 0 /\ Len(s.elems) + 1 <= t.cap /\ t.cap \in Nat
  <2> DEFINE len == Len(s.elems)
             room == t.cap
             old == s.cap
  <2>1. len \in Nat /\ old \in Nat /\ len <= old /\ old % Chunk = 0
    BY <1>1
  <2>2. room = IF len % Chunk = 0 THEN len + Chunk ELSE old
    BY <1>3
  <2> HIDE DEF t, len, room, old
  <2>3. /\ len % Chunk = 0 => (len + Chunk) % Chunk = 0
        /\ len % Chunk # 0 => len < old
    BY <1>1, <2>1, Multiples
  <2>4. room % Chunk = 0 /\ len + 1 <= room /\ room \in Nat
    BY <1>1, <2>1, <2>2, <2>3
  <2> QED
    BY <2>4 DEF len, room
<1>5. t \in Record /\ \A f \in {"name", "type", "parent", "hook"} : t[f] = s[f]
  BY <1>2, <1>4 DEF ListAdd, Record
<1> QED
  BY <1>2, <1>4, <1>5

\* Settings that are created keep the shape, if their name suits their parent.
LEMMA CreatedKeeps ==
  ASSUME Shaped(heap), NEW p \in Live, NEW n \in Nodes \ Live,
         NEW name \in Names \cup {Nil}, NEW type \in Types,
         heap[p].type \in Aggregates,
         name # Nil <=> heap[p].type = "GROUP",
         \A i \in DOMAIN heap[p].elems : name # Nil => heap[heap[p].elems[i]].name # name
  PROVE  Shaped(Created(p, n, name, type))
<1> DEFINE h == Created(p, n, name, type)
           e == heap[p].elems
<1> USE DEF Shaped, Live
<1>1. /\ DOMAIN h = Live \cup {n} /\ h[n] = Setting(name, type, p)
      /\ h[p] = ListAdd(heap[p], n)
      /\ \A m \in Live \ {p} : h[m] = heap[m]
  BY DEF Created
<1>2. \A m \in Live : heap[m] \in Record /\ Len(heap[m].elems) <= heap[m].cap
                      /\ heap[m].cap % Chunk = 0
  BY DEF Typed, Roomy
<1>3. /\ h[p] \in Record
      /\ \A f \in {"name", "type", "parent", "hook"} : h[p][f] = heap[p][f]
      /\ h[p].elems = Append(e, n)
      /\ Len(h[p].elems) <= h[p].cap /\ h[p].cap % Chunk = 0
  BY <1>1, <1>2, ListAdded
<1>4. /\ h[n] \in Record /\ h[n].name = name /\ h[n].type = type /\ h[n].parent = p
      /\ h[n].elems = << >> /\ h[n].cap = 0
  BY <1>1, NodesAssumption DEF Setting, Record, Typed
<1>5. \A m \in Live : /\ h[m].name = heap[m].name /\ h[m].type = heap[m].type
                      /\ h[m].parent = heap[m].parent
                      /\ h[m].elems = IF m = p THEN Append(e, n) ELSE heap[m].elems
  BY <1>1, <1>3
<1>6. e \in Seq(Nodes) /\ DOMAIN e = 1..Len(e) /\ Len(e) \in Nat
  BY <1>2 DEF Record
<1>7. /\ DOMAIN Append(e, n) = DOMAIN e \cup {Len(e) + 1} /\ Len(e) + 1 \notin DOMAIN e
      /\ \A i \in DOMAIN e : Append(e, n)[i] = e[i]
      /\ Append(e, n)[Len(e) + 1] = n
  BY <1>6
<1>8. \A m \in Live : \A i \in DOMAIN heap[m].elems :
        heap[m].elems[i] \in Live /\ heap[heap[m].elems[i]].parent = m
  BY DEF Down
<1>9. Root \in Live /\ Live \subseteq Nodes /\ n \notin Live
  BY DEF Typed
<1> HIDE DEF h
<1>10. Typed(h)
  <2>1. h = [m \in DOMAIN h |-> h[m]]
    BY DEF h, Created
  <2>2. \A m \in DOMAIN h : h[m] \in Record
    BY <1>1, <1>2, <1>3, <1>4
  <2> QED
    BY <1>1, <1>9, <2>1, <2>2 DEF Typed
<1>11. Roomy(h)
  <2>1. 0 % Chunk = 0 /\ Len(<< >>) = 0
    BY ChunkAssumption
  <2> QED
    BY <1>1, <1>2, <1>3, <1>4, <2>1 DEF Roomy
<1>12. Rooted(h) /\ Leaves(h)
  BY <1>1, <1>4, <1>5, <1>9 DEF Rooted, Leaves
<1>13. Down(h)
  <2> SUFFICES ASSUME NEW m \in DOMAIN h, NEW i \in DOMAIN h[m].elems
               PROVE  h[m].elems[i] \in DOMAIN h /\ h[h[m].elems[i]].parent = m
    BY DEF Down
  <2>1. CASE m = n
    BY <1>4, <2>1
  <2>2. CASE m \in Live \ {p}
    BY <1>1, <1>5, <1>8, <2>2
  <2>3. CASE m = p
    <3>1. h[m].elems = Append(e, n)
      BY <1>5, <2>3
    <3>2. CASE i \in DOMAIN e
      <4>1. h[m].elems[i] = e[i] /\ e[i] \in Live /\ heap[e[i]].parent = m
        BY <1>7, <1>8, <2>3, <3>1, <3>2
      <4> QED
        BY <1>1, <1>5, <4>1
    <3>3. CASE i = Len(e) + 1
      BY <1>1, <1>4, <1>7, <2>3, <3>1, <3>3
    <3> QED
      BY <1>7, <3>1, <3>2, <3>3
  <2> QED
    BY <1>1, <2>1, <2>2, <2>3
<1>14. Up(h)
  <2> SUFFICES ASSUME NEW m \in DOMAIN h \ {Root}
               PROVE  /\ h[m].parent \in DOMAIN h
                      /\ \E i \in DOMAIN h[h[m].parent].elems : h[h[m].parent].elems[i] = m
    BY DEF Up
  <2>1. CASE m = n
    BY <1>1, <1>4, <1>5, <1>7, <2>1
  <2>2. CASE m \in Live
    <3>1. /\ heap[m].parent \in Live
          /\ \E i \in DOMAIN heap[heap[m].parent].elems : heap[heap[m].parent].elems[i] = m
      BY <2>2 DEF Up
    <3>2. h[m].parent = heap[m].parent
      BY <1>5, <2>2
    <3>3. PICK i \in DOMAIN heap[heap[m].parent].elems : heap[heap[m].parent].elems[i] = m
      BY <3>1
    <3>4. i \in DOMAIN h[heap[m].parent].elems /\ h[heap[m].parent].elems[i] = m
      BY <1>5, <1>7, <3>1, <3>3
    <3> QED
      BY <1>1, <3>1, <3>2, <3>4
  <2> QED
    BY <1>1, <2>1, <2>2
<1>15. Once(h)
  <2>1. \A i \in DOMAIN e : e[i] # n
    BY <1>8, <1>9
  <2>2. \A i, j \in DOMAIN Append(e, n) : Append(e, n)[i] = Append(e, n)[j] => i = j
    BY <1>7, <2>1 DEF Once
  <2> SUFFICES ASSUME NEW m \in DOMAIN h
               PROVE  \A i, j \in DOMAIN h[m].elems : h[m].elems[i] = h[m].elems[j] => i = j
    BY DEF Once
  <2>3. CASE m = n
    BY <1>4, <2>3
  <2>4. CASE m = p
    BY <1>5, <2>2, <2>4
  <2>5. CASE m \in Live \ {p}
    <3>1. h[m].elems = heap[m].elems
      BY <1>5, <2>5
    <3> QED
      BY <2>5, <3>1 DEF Once
  <2> QED
    BY <1>1, <2>3, <2>4, <2>5
<1>16. Named(h)
  <2> SUFFICES ASSUME NEW q \in DOMAIN h, NEW i \in DOMAIN h[q].elems, NEW j \in DOMAIN h[q].elems
               PROVE  /\ (h[h[q].elems[i]].name # Nil) <=> (h[q].type = "GROUP")
                      /\ i # j /\ h[h[q].elems[i]].name # Nil
                           => h[h[q].elems[i]].name # h[h[q].elems[j]].name
    BY DEF Named
  <2>1. CASE q = n
    BY <1>4, <2>1
  <2>2. CASE q \in Live \ {p}
    <3>1. h[q].elems = heap[q].elems /\ h[q].type = heap[q].type
      BY <1>5, <2>2
    <3>2. h[h[q].elems[i]].name = heap[heap[q].elems[i]].name
            /\ h[h[q].elems[j]].name = heap[heap[q].elems[j]].name
      BY <1>5, <1>8, <2>2, <3>1
    <3> QED
      BY <2>2, <3>1, <3>2 DEF Named
  <2>3. CASE q = p
    <3>1. h[q].elems = Append(e, n) /\ h[q].type = heap[p].type
      BY <1>5, <2>3
    <3>2. \A k \in DOMAIN e : h[Append(e, n)[k]].name = heap[e[k]].name
      BY <1>5, <1>7, <1>8
    <3>3. h[Append(e, n)[Len(e) + 1]].name = name
      BY <1>4, <1>7
    <3>4. \A k, l \in DOMAIN e :
            /\ (heap[e[k]].name # Nil) <=> (heap[p].type = "GROUP")
            /\ k # l /\ heap[e[k]].name # Nil => heap[e[k]].name # heap[e[l]].name
      BY DEF Named
    <3>5. \A k \in DOMAIN e : name # Nil => heap[e[k]].name # name
      OBVIOUS
    <3>6. CASE i \in DOMAIN e /\ j \in DOMAIN e
      BY <3>1, <3>2, <3>4, <3>6
    <3>7. CASE i \in DOMAIN e /\ j = Len(e) + 1
      BY <3>1, <3>2, <3>3, <3>4, <3>5, <3>7
    <3>8. CASE i = Len(e) + 1 /\ j \in DOMAIN e
      BY <3>1, <3>2, <3>3, <3>4, <3>5, <3>8
    <3>9. CASE i = Len(e) + 1 /\ j = Len(e) + 1
      BY <3>1, <3>3, <3>9
    <3> QED
      BY <1>7, <3>1, <3>6, <3>7, <3>8, <3>9
  <2> QED
    BY <1>1, <2>1, <2>2, <2>3
<1> QED
  BY <1>10, <1>11, <1>12, <1>13, <1>14, <1>15, <1>16 DEF h

-----------------------------------------------------------------------------
\* What is destroyed with a setting: it and, of everything else that goes, the parent;
\* the elements of all that goes; never the root.
LEMMA SubtreeClosed ==
  ASSUME Shaped(heap), NEW c \in Live \ {Root}
  PROVE  /\ Subtree(c) \subseteq Live /\ c \in Subtree(c) /\ Root \notin Subtree(c)
         /\ \A m \in Subtree(c) : \A i \in DOMAIN heap[m].elems : heap[m].elems[i] \in Subtree(c)
         /\ \A m \in Subtree(c) \ {c} : heap[m].parent \in Subtree(c)
<1> DEFINE D == Subtree(c)
<1> USE DEF Shaped
<1>1. D \subseteq Live /\ c \in D
  BY DEF Subtree
<1>2. \A m \in Live : \A i \in DOMAIN heap[m].elems :
        heap[m].elems[i] \in Live /\ heap[heap[m].elems[i]].parent = m
  BY DEF Down, Live
<1>3. ASSUME NEW m \in D, NEW i \in DOMAIN heap[m].elems PROVE heap[m].elems[i] \in D
  <2>1. heap[m].elems[i] \in Live
    BY <1>1, <1>2
  <2>2. ASSUME NEW set \in SUBSET Live, c \in set, Closed(set) PROVE heap[m].elems[i] \in set
    <3>1. m \in set
      BY <2>2 DEF Subtree
    <3> QED
      BY <2>2, <3>1 DEF Closed, ToSet
  <2> QED
    BY <2>1, <2>2 DEF Subtree
<1>4. ASSUME NEW m \in D \ {c} PROVE heap[m].parent \in D
  <2> DEFINE set == {c} \cup {x \in D : heap[x].parent \in D}
  <2>1. set \in SUBSET Live
    BY <1>1
  <2>2. Closed(set)
    <3> SUFFICES ASSUME NEW x \in set, NEW i \in DOMAIN heap[x].elems
                 PROVE  heap[x].elems[i] \in set
      BY DEF Closed, ToSet
    <3>1. x \in D
      BY <1>1
    <3> QED
      BY <1>1, <1>2, <1>3, <3>1
  <2>3. m \in set
    BY <2>1, <2>2 DEF Subtree
  <2> QED
    BY <2>3
<1>5. Root \notin D
  <2>1. heap[Root].parent = Nil /\ Nil \notin Live
    BY NodesAssumption DEF Rooted, Typed, Live
  <2> QED
    BY <1>1, <1>4, <2>1
<1> QED
  BY <1>1, <1>3, <1>4, <1>5

\* Removing an element and destroying it with all below it keeps the shape.
LEMMA RemovedKeeps ==
  ASSUME Shaped(heap), NEW p \in Live, NEW i \in DOMAIN heap[p].elems
  PROVE  Shaped([m \in Live \ Subtree(heap[p].elems[i]) |-> ListRemove(p, i)[m]])
<1> DEFINE c == heap[p].elems[i]
           D == Subtree(c)
           e == heap[p].elems
           h == [m \in Live \ D |-> ListRemove(p, i)[m]]
           old(m, j) == IF m = p /\ ~ (j < i) THEN j + 1 ELSE j
<1> USE DEF Shaped, Live
<1>1. \A m \in Live : heap[m] \in Record /\ Len(heap[m].elems) <= heap[m].cap
                      /\ heap[m].cap % Chunk = 0
  BY DEF Typed, Roomy
<1>2. \A m \in Live : \A j \in DOMAIN heap[m].elems :
        heap[m].elems[j] \in Live /\ heap[heap[m].elems[j]].parent = m
  BY DEF Down
<1>3. Root \in Live /\ Live \subseteq Nodes /\ heap[Root].parent = Nil /\ Nil \notin Live
  BY NodesAssumption DEF Typed, Rooted
<1>4. c \in Live \ {Root} /\ heap[c].parent = p
  BY <1>2, <1>3
<1>5. /\ D \subseteq Live /\ c \in D /\ Root \notin D
      /\ \A m \in D : \A j \in DOMAIN heap[m].elems : heap[m].elems[j] \in D
      /\ \A m \in D \ {c} : heap[m].parent \in D
  BY <1>4, SubtreeClosed
<1>6. /\ RemoveAt(e, i) \in Seq(Nodes) /\ Len(RemoveAt(e, i)) = Len(e) - 1
      /\ \A j \in 1..(Len(e) - 1) : RemoveAt(e, i)[j] = IF j < i THEN e[j] ELSE e[j + 1]
      /\ Len(e) \in Nat /\ i \in 1..Len(e) /\ DOMAIN e = 1..Len(e)
  <2>1. e \in Seq(Nodes) /\ i \in DOMAIN e
    BY <1>1 DEF Record
  <2> HIDE DEF Shaped, Live, h, D, c, e
  <2>2. Len(e) \in Nat /\ i \in 1..Len(e) /\ DOMAIN e = 1..Len(e)
    BY <2>1
  <2>3. /\ RemoveAt(e, i) \in Seq(Nodes) /\ Len(RemoveAt(e, i)) = Len(e) - 1
        /\ \A j \in 1..(Len(e) - 1) : RemoveAt(e, i)[j] = IF j < i THEN e[j] ELSE e[j + 1]
    BY <2>1, RemovedElem
  <2> QED
    BY <2>2, <2>3
<1>7. /\ DOMAIN h = Live \ D
      /\ \A m \in DOMAIN h : h[m] = IF m = p THEN [heap[p] EXCEPT !.elems = RemoveAt(e, i)]
                                            ELSE heap[m]
  BY DEF ListRemove
<1> HIDE DEF h, D, c
<1>8. \A m \in DOMAIN h :
        /\ h[m] \in Record /\ h[m].name = heap[m].name /\ h[m].type = heap[m].type
        /\ h[m].parent = heap[m].parent /\ h[m].cap = heap[m].cap
        /\ h[m].elems = IF m = p THEN RemoveAt(e, i) ELSE heap[m].elems
  <2> DEFINE left == RemoveAt(e, i)
             g == [heap[p] EXCEPT !.elems = left]
  <2>1. left \in Seq(Nodes) /\ heap[p] \in Record
    BY <1>1, <1>6
  <2> HIDE DEF left
  <2>2. /\ g \in Record /\ g.name = heap[p].name /\ g.type = heap[p].type
        /\ g.parent = heap[p].parent /\ g.cap = heap[p].cap /\ g.elems = left
    BY <2>1 DEF Record
  <2>3. \A m \in DOMAIN h : h[m] = IF m = p THEN g ELSE heap[m]
    BY <1>7 DEF left
  <2> HIDE DEF g
  <2> QED
    BY <1>1, <1>7, <2>2, <2>3 DEF left
\* Where an element that is left was
<1>9. \A m \in DOMAIN h : \A j \in DOMAIN h[m].elems :
        /\ old(m, j) \in DOMAIN heap[m].elems
        /\ h[m].elems[j] = heap[m].elems[old(m, j)]
        /\ m = p => old(m, j) # i
  <2> SUFFICES ASSUME NEW m \in DOMAIN h, NEW j \in DOMAIN h[m].elems
               PROVE  /\ old(m, j) \in DOMAIN heap[m].elems
                      /\ h[m].elems[j] = heap[m].elems[old(m, j)]
                      /\ m = p => old(m, j) # i
    OBVIOUS
  <2>1. CASE m = p
    <3>1. h[m].elems = RemoveAt(e, i) /\ j \in 1..(Len(e) - 1)
      BY <1>6, <1>8, <2>1
    <3> QED
      BY <1>6, <2>1, <3>1
  <2>2. CASE m # p
    BY <1>8, <2>2
  <2> QED
    BY <2>1, <2>2
<1>10. \A m \in DOMAIN h : \A j, k \in DOMAIN h[m].elems : old(m, j) = old(m, k) => j = k
  <2> SUFFICES ASSUME NEW m \in DOMAIN h, NEW j \in DOMAIN h[m].elems,
                      NEW k \in DOMAIN h[m].elems, old(m, j) = old(m, k)
               PROVE  j = k
    OBVIOUS
  <2>1. CASE m = p
    <3>1. j \in Int /\ k \in Int /\ i \in Int
      BY <1>6, <1>8, <2>1
    <3> QED
      BY <2>1, <3>1
  <2>2. CASE m # p
    BY <2>2
  <2> QED
    BY <2>1, <2>2
<1> HIDE DEF old
<1>11. Typed(h)
  <2>1. h = [m \in DOMAIN h |-> h[m]]
    BY DEF h
  <2> QED
    BY <1>3, <1>5, <1>7, <1>8, <2>1 DEF Typed
<1>12. Roomy(h)
  <2> SUFFICES ASSUME NEW m \in DOMAIN h
               PROVE  Len(h[m].elems) <= h[m].cap /\ h[m].cap % Chunk = 0
    BY DEF Roomy
  <2>1. heap[m].cap \in Nat
    BY <1>1, <1>7 DEF Record
  <2>2. CASE m = p
    BY <1>1, <1>6, <1>8, <2>1, <2>2
  <2>3. CASE m # p
    BY <1>1, <1>7, <1>8, <2>3
  <2> QED
    BY <2>2, <2>3
<1>13. Rooted(h)
  BY <1>3, <1>5, <1>7, <1>8 DEF Rooted
<1>14. Leaves(h)
  <2> SUFFICES ASSUME NEW m \in DOMAIN h, h[m].elems # << >> PROVE h[m].type \in Aggregates
    BY DEF Leaves
  <2>1. CASE m = p
    <3>1. e # << >>
      BY <1>6
    <3> QED
      BY <1>8, <2>1, <3>1 DEF Leaves
  <2>2. CASE m # p
    BY <1>7, <1>8, <2>2 DEF Leaves
  <2> QED
    BY <2>1, <2>2
<1>15. \A m \in DOMAIN h : \A j \in DOMAIN h[m].elems :
         h[m].elems[j] \in DOMAIN h /\ heap[h[m].elems[j]].parent = m
  <2> SUFFICES ASSUME NEW m \in DOMAIN h, NEW j \in DOMAIN h[m].elems
               PROVE  h[m].elems[j] \in DOMAIN h /\ heap[h[m].elems[j]].parent = m
    OBVIOUS
  <2> DEFINE x == h[m].elems[j]
             k == old(m, j)
  <2>1. k \in DOMAIN heap[m].elems /\ x = heap[m].elems[k] /\ (m = p => k # i)
    BY <1>9
  <2>2. x \in Live /\ heap[x].parent = m /\ m \in Live \ D
    BY <1>2, <1>7, <2>1
  <2>3. x # c
    BY <1>4, <2>1, <2>2 DEF Once, c
  <2> QED
    BY <1>5, <1>7, <2>2, <2>3
<1>16. Down(h)
  BY <1>8, <1>15 DEF Down
<1>17. Up(h)
  <2> SUFFICES ASSUME NEW m \in DOMAIN h \ {Root}
               PROVE  /\ h[m].parent \in DOMAIN h
                      /\ \E j \in DOMAIN h[h[m].parent].elems : h[h[m].parent].elems[j] = m
    BY DEF Up
  <2> DEFINE q == heap[m].parent
  <2>1. q \in Live /\ h[m].parent = q /\ m \in Live \ D
    BY <1>7, <1>8 DEF Up
  <2>2. PICK k \in DOMAIN heap[q].elems : heap[q].elems[k] = m
    BY <1>7 DEF Up
  <2>3. q \in DOMAIN h
    BY <1>5, <1>7, <2>1, <2>2
  <2>4. CASE q = p
    <3>1. k # i /\ k \in 1..Len(e)
      BY <1>5, <1>6, <2>1, <2>2, <2>4 DEF c
    <3>2. CASE k < i
      <4>1. k \in 1..(Len(e) - 1) /\ RemoveAt(e, i)[k] = e[k]
        BY <1>6, <3>1, <3>2
      <4> QED
        BY <1>6, <1>8, <2>1, <2>2, <2>3, <2>4, <4>1
    <3>3. CASE ~ (k < i)
      <4>1. k - 1 \in 1..(Len(e) - 1) /\ RemoveAt(e, i)[k - 1] = e[k]
        BY <1>6, <3>1, <3>3
      <4> QED
        BY <1>6, <1>8, <2>1, <2>2, <2>3, <2>4, <4>1
    <3> QED
      BY <3>2, <3>3
  <2>5. CASE q # p
    BY <1>8, <2>1, <2>2, <2>3, <2>5
  <2> QED
    BY <2>4, <2>5
<1>18. Once(h)
  <2> SUFFICES ASSUME NEW m \in DOMAIN h, NEW j \in DOMAIN h[m].elems,
                      NEW k \in DOMAIN h[m].elems, h[m].elems[j] = h[m].elems[k]
               PROVE  j = k
    BY DEF Once
  <2>1. old(m, j) = old(m, k)
    BY <1>7, <1>9 DEF Once
  <2> QED
    BY <1>10, <2>1
<1>19. Named(h)
  <2> SUFFICES ASSUME NEW q \in DOMAIN h, NEW j \in DOMAIN h[q].elems, NEW k \in DOMAIN h[q].elems
               PROVE  /\ (h[h[q].elems[j]].name # Nil) <=> (h[q].type = "GROUP")
                      /\ j # k /\ h[h[q].elems[j]].name # Nil
                           => h[h[q].elems[j]].name # h[h[q].elems[k]].name
    BY DEF Named
  <2> DEFINE name(x) == heap[heap[q].elems[x]].name
  <2>1. h[h[q].elems[j]].name = name(old(q, j)) /\ h[h[q].elems[k]].name = name(old(q, k))
    BY <1>8, <1>9, <1>15
  <2>2. j # k => old(q, j) # old(q, k)
    BY <1>10
  <2>3. /\ (name(old(q, j)) # Nil) <=> (heap[q].type = "GROUP")
        /\ old(q, j) # old(q, k) /\ name(old(q, j)) # Nil => name(old(q, j)) # name(old(q, k))
    BY <1>7, <1>9 DEF Named
  <2> QED
    BY <1>8, <2>1, <2>2, <2>3
<1> QED
  BY <1>11, <1>12, <1>13, <1>14, <1>16, <1>17, <1>18, <1>19 DEF h, D, c

\* A hook that is attached, or the first value of a setting without a type, changes
\* nothing of the shape.
LEMMA RetypedKeeps ==
  ASSUME NEW h, Shaped(h), NEW g, g \in [DOMAIN h -> Record],
         \A n \in DOMAIN h :
           /\ g[n].name = h[n].name /\ g[n].parent = h[n].parent
           /\ g[n].elems = h[n].elems /\ g[n].cap = h[n].cap
           /\ g[n].type = h[n].type \/ (h[n].type = "NONE" /\ g[n].type \in Scalars)
  PROVE  Shaped(g)
<1> USE DEF Shaped
<1>1. DOMAIN g = DOMAIN h
  OBVIOUS
<1>2. \A n \in DOMAIN h : /\ g[n].type = "GROUP" <=> h[n].type = "GROUP"
                          /\ h[n].type \in Aggregates => g[n].type = h[n].type
  BY NodesAssumption DEF Aggregates
<1>3. Typed(g) /\ Roomy(g)
  BY <1>1 DEF Typed, Roomy
<1>4. Rooted(g)
  BY <1>1, <1>2 DEF Rooted, Typed
<1>5. Down(g) /\ Once(g)
  BY <1>1 DEF Down, Once
<1>6. Up(g)
  BY <1>1 DEF Up
<1>7. Leaves(g)
  BY <1>1, <1>2 DEF Leaves
<1>8. Named(g)
  BY <1>1, <1>2 DEF Named, Down
<1> QED
  BY <1>3, <1>4, <1>5, <1>6, <1>7, <1>8

-----------------------------------------------------------------------------
(* The invariant.  Settings share no hook, so none is still attached when  *)
(* it is disposed of with another setting.                                 *)

HooksApart == \A m, n \in Live : heap[m].hook = heap[n].hook /\ heap[m].hook # Nil => m = n

IInv ==
  /\ Shaped(heap)
  /\ HooksApart /\ HooksAlive
  /\ destructor \in BOOLEAN /\ disposed \subseteq Hooks

LEMMA IInit == Init => IInv
<1> SUFFICES ASSUME Init PROVE IInv
  OBVIOUS
<1>1. Shaped(heap) /\ destructor \in BOOLEAN /\ disposed = {}
  BY RootAlone DEF Init
<1>2. Live = {Root}
  BY DEF Init, Live
<1> QED
  BY <1>1, <1>2 DEF IInv, HooksApart, HooksAlive

\* Creating a setting, in config_setting_add and in the functions that set elements
LEMMA CreateStep ==
  ASSUME IInv, NEW p \in Live, NEW name \in Names \cup {Nil}, NEW type \in Types,
         heap[p].type \in Aggregates,
         name # Nil <=> heap[p].type = "GROUP",
         \A i \in DOMAIN heap[p].elems : name # Nil => heap[heap[p].elems[i]].name # name,
         Create(p, name, type), UNCHANGED <<destructor, disposed>>
  PROVE  IInv'
<1>1. PICK n \in Nodes \ Live : heap' = Created(p, n, name, type)
  BY DEF Create
<1>2. Shaped(heap')
  BY <1>1, CreatedKeeps DEF IInv
<1>3. /\ Live' = Live \cup {n} /\ heap'[n].hook = Nil
      /\ \A m \in Live : heap'[m].hook = heap[m].hook
  <2>1. heap'[p] = ListAdd(heap[p], n) /\ heap[p] \in Record
    BY <1>1 DEF Created, IInv, Shaped, Typed, Live
  <2>2. ListAdd(heap[p], n).hook = heap[p].hook
    BY <2>1 DEF ListAdd, Record
  <2> QED
    BY <1>1, <2>1, <2>2 DEF Created, Live, Setting
<1>4. HooksApart'
  BY <1>3 DEF HooksApart, IInv
<1>5. HooksAlive'
  BY <1>3, NodesAssumption DEF HooksAlive, IInv
<1> QED
  BY <1>2, <1>4, <1>5 DEF IInv

\* Destroying some settings: the hooks of those that stay are not the ones disposed of.
LEMMA DestroyStep ==
  ASSUME IInv, NEW dead \in SUBSET Live, NEW rest, Destroy(dead, rest),
         Shaped(heap'), \A m \in Live \ dead : rest[m].hook = heap[m].hook
  PROVE  IInv'
<1>1. /\ Live' = Live \ dead /\ \A m \in Live' : heap'[m].hook = heap[m].hook
      /\ destructor' = destructor
  BY DEF Destroy, Live
<1>2. {heap[m].hook : m \in dead} \ {Nil} \subseteq Hooks
  BY DEF IInv, Shaped, Typed, Record, Live
<1>3. disposed' \subseteq disposed \cup ({heap[m].hook : m \in dead} \ {Nil})
  BY DEF Destroy
<1>4. HooksApart'
  BY <1>1 DEF HooksApart, IInv
<1>5. HooksAlive'
  <2> SUFFICES ASSUME NEW n \in Live', heap'[n].hook \in disposed' PROVE FALSE
    BY DEF HooksAlive
  <2>1. heap[n].hook \notin disposed /\ n \in Live \ dead
    BY <1>1 DEF HooksAlive, IInv
  <2>2. PICK m \in dead : heap[m].hook = heap[n].hook /\ heap[m].hook # Nil
    BY <1>1, <1>3, <2>1
  <2> QED
    BY <2>1, <2>2 DEF HooksApart, IInv
<1> QED
  BY <1>1, <1>2, <1>3, <1>4, <1>5 DEF IInv

LEMMA RemoveStep ==
  ASSUME IInv, NEW p \in Live, NEW i, RemoveElem(p, i)
  PROVE  IInv'
<1> DEFINE c == heap[p].elems[i]
           dead == Subtree(c)
           rest == ListRemove(p, i)
<1>1. i \in DOMAIN heap[p].elems /\ Destroy(dead, rest)
  BY DEF RemoveElem
<1>2. Shaped(heap')
  <2>1. heap' = [m \in Live \ dead |-> rest[m]]
    BY <1>1 DEF Destroy
  <2> QED
    BY <1>1, <2>1, RemovedKeeps DEF IInv
<1>3. \A m \in Live \ dead : rest[m].hook = heap[m].hook
  <2>1. heap[p] \in Record
    BY DEF IInv, Shaped, Typed, Live
  <2> QED
    BY <2>1 DEF ListRemove, Live, Record
<1>4. dead \in SUBSET Live
  BY DEF Subtree
<1> HIDE DEF dead, rest
<1> QED
  BY <1>1, <1>2, <1>3, <1>4, DestroyStep

LEMMA AddStep ==
  ASSUME IInv, NEW p \in Live, NEW name \in Names, NEW type \in Types, Add(p, name, type)
  PROVE  IInv'
<1> DEFINE own == IF heap[p].type = "GROUP" THEN name ELSE Nil
<1>1. own \in Names \cup {Nil} /\ (own # Nil <=> heap[p].type = "GROUP")
  BY NodesAssumption
<1>2. \A i \in DOMAIN heap[p].elems : own # Nil => heap[heap[p].elems[i]].name # own
  BY NodesAssumption DEF Add, MemberOf
<1>3. heap[p].type \in Aggregates /\ Create(p, own, type) /\ UNCHANGED <<destructor, disposed>>
  BY DEF Add
<1> HIDE DEF own
<1> QED
  BY <1>1, <1>2, <1>3, CreateStep

LEMMA AppendStep ==
  ASSUME IInv, NEW p \in Live, NEW type \in Scalars, AppendElem(p, type)
  PROVE  IInv'
<1>1. heap[p].type \in Aggregates /\ heap[p].type # "GROUP" /\ type \in Types
  BY DEF AppendElem, Aggregates, Types
<1>2. Create(p, Nil, type) /\ UNCHANGED <<destructor, disposed>>
  BY DEF AppendElem
<1> QED
  BY <1>1, <1>2, CreateStep

LEMMA SetValueStep ==
  ASSUME IInv, NEW n \in Live, NEW type \in Scalars, SetValue(n, type)
  PROVE  IInv'
<1> USE DEF Live
<1>1. Shaped(heap) /\ heap \in [Live -> Record] /\ heap[n].type = "NONE"
  BY DEF IInv, Shaped, Typed, SetValue
<1>2. heap' = [heap EXCEPT ![n].type = type]
  BY DEF SetValue
<1>3. /\ heap' \in [Live -> Record]
      /\ \A m \in Live :
           /\ heap'[m].name = heap[m].name /\ heap'[m].parent = heap[m].parent
           /\ heap'[m].elems = heap[m].elems /\ heap'[m].cap = heap[m].cap
           /\ heap'[m].hook = heap[m].hook
           /\ heap'[m].type = heap[m].type \/ (heap[m].type = "NONE" /\ heap'[m].type \in Scalars)
  BY <1>1, <1>2 DEF Record, Types
<1>4. Shaped(heap')
  BY <1>1, <1>3, RetypedKeeps
<1>5. HooksApart' /\ HooksAlive'
  BY <1>3 DEF HooksApart, HooksAlive, IInv, SetValue
<1> QED
  BY <1>4, <1>5 DEF IInv, SetValue

LEMMA SetHookStep ==
  ASSUME IInv, NEW n \in Live, NEW h \in Hooks, Unused(h), SetHook(n, h)
  PROVE  IInv'
<1> USE DEF Live
<1>1. Shaped(heap) /\ heap \in [Live -> Record]
  BY DEF IInv, Shaped, Typed
<1>2. heap' = [heap EXCEPT ![n].hook = h]
  BY DEF SetHook
<1>3. /\ heap' \in [Live -> Record]
      /\ \A m \in Live :
           /\ heap'[m].name = heap[m].name /\ heap'[m].parent = heap[m].parent
           /\ heap'[m].elems = heap[m].elems /\ heap'[m].cap = heap[m].cap
           /\ heap'[m].type = heap[m].type
           /\ heap'[m].hook = IF m = n THEN h ELSE heap[m].hook
  BY <1>1, <1>2 DEF Record
<1>4. Shaped(heap')
  BY <1>1, <1>3, RetypedKeeps
<1>5. HooksApart' /\ HooksAlive'
  BY <1>3 DEF HooksApart, HooksAlive, IInv, Unused, SetHook
<1> QED
  BY <1>4, <1>5 DEF IInv, SetHook

LEMMA ReinitialiseStep ==
  ASSUME IInv, Reinitialise
  PROVE  IInv'
<1>1. Shaped(heap')
  BY RootAlone DEF Reinitialise
<1>2. {heap[m].hook : m \in Live} \ {Nil} \subseteq Hooks
  BY DEF IInv, Shaped, Typed, Record, Live
<1>3. disposed' \subseteq Hooks /\ destructor' \in BOOLEAN
  BY <1>2 DEF Reinitialise, IInv
<1>4. Live' = {Root} /\ heap'[Root].hook = Nil
  BY DEF Reinitialise, Live, Setting
<1>5. HooksApart' /\ HooksAlive'
  BY <1>3, <1>4, NodesAssumption DEF HooksApart, HooksAlive
<1> QED
  BY <1>1, <1>3, <1>5 DEF IInv

LEMMA INext == IInv /\ [Next]_vars => IInv'
<1> SUFFICES ASSUME IInv, [Next]_vars PROVE IInv'
  OBVIOUS
<1>1. ASSUME NEW p \in Live, NEW name \in Names, NEW type \in Types, Add(p, name, type)
      PROVE  IInv'
  BY <1>1, AddStep
<1>2. ASSUME NEW p \in Live, NEW type \in Scalars, AppendElem(p, type) PROVE IInv'
  BY <1>2, AppendStep
<1>3. ASSUME NEW p \in Live, NEW type \in Scalars, SetValue(p, type) PROVE IInv'
  BY <1>3, SetValueStep
<1>4. ASSUME NEW p \in Live, NEW path \in Paths, RemoveMember(p, path) PROVE IInv'
  <2>1. PICK i : RemoveElem(p, i)
    BY <1>4 DEF RemoveMember
  <2> QED
    BY <2>1, RemoveStep
<1>5. ASSUME NEW p \in Live, NEW i, RemoveElem(p, i) PROVE IInv'
  BY <1>5, RemoveStep
<1>6. ASSUME NEW p \in Live, NEW h \in Hooks, Unused(h), SetHook(p, h) PROVE IInv'
  BY <1>6, SetHookStep
<1>7. CASE SetDestructor
  BY <1>7 DEF SetDestructor, IInv, HooksApart, HooksAlive, Live
<1>8. CASE Reinitialise
  BY <1>8, ReinitialiseStep
<1>9. CASE UNCHANGED vars
  BY <1>9 DEF vars, IInv, HooksApart, HooksAlive, Live
<1> QED
  BY <1>1, <1>2, <1>3, <1>4, <1>5, <1>6, <1>7, <1>8, <1>9 DEF Next

LEMMA IInvariant == Spec => []IInv
  BY IInit, INext, PTL DEF Spec

-----------------------------------------------------------------------------
(* The properties the runs check, of any heap of that shape and for good.  *)

LEMMA ShapedTyped ==
  ASSUME Shaped(heap), destructor \in BOOLEAN, disposed \subseteq Hooks PROVE TypeOK
<1> USE DEF Shaped, Live
<1>1. Root \in Live /\ Live \subseteq Nodes
  BY DEF Typed
<1>2. ASSUME NEW n \in Live
      PROVE  /\ heap[n].name \in Names \cup {Nil} /\ heap[n].type \in Types
             /\ heap[n].parent \in Live \cup {Nil} /\ heap[n].elems \in Seq(Live)
             /\ heap[n].cap \in Nat /\ heap[n].hook \in Hooks \cup {Nil}
  <2>1. heap[n] \in Record
    BY DEF Typed
  <2>2. heap[n].parent \in Live \cup {Nil}
    BY DEF Up, Rooted
  <2>3. heap[n].elems \in Seq(Live)
    BY <2>1 DEF Down, Record
  <2> QED
    BY <2>1, <2>2, <2>3 DEF Record
<1> QED
  BY <1>1, <1>2 DEF TypeOK

LEMMA ShapedTree == ASSUME Shaped(heap) PROVE Tree
<1> USE DEF Shaped, Live
<1>1. ASSUME NEW n \in Live \ {Root}
      PROVE  /\ heap[n].parent \in Live
             /\ \E i \in DOMAIN heap[heap[n].parent].elems :
                  \A j \in DOMAIN heap[heap[n].parent].elems :
                    heap[heap[n].parent].elems[j] = n <=> j = i
  BY DEF Up, Once
<1> QED
  BY <1>1 DEF Tree, Rooted, Down

\* A heap is well formed whatever was added, removed and read: settings have the
\* parents and the elements their types allow, and those exist.
THEOREM SettingTypes == Spec => []TypeOK
<1>1. IInv => TypeOK
  BY ShapedTyped DEF IInv
<1> QED
  BY <1>1, IInvariant, PTL

\* realloc has made room for every element, for every chunk size (__config_list_add).
THEOREM VectorsHaveRoom == Spec => []RoomForAll
<1>1. IInv => RoomForAll
  BY DEF IInv, Shaped, Roomy, RoomForAll, Live
<1> QED
  BY <1>1, IInvariant, PTL

\* The settings are a tree: config_setting_remove and config_destroy free all that is
\* below a setting and nothing that is still an element of another.
THEOREM SettingsAreATree == Spec => []Tree
<1>1. IInv => Tree
  BY ShapedTree DEF IInv
<1> QED
  BY <1>1, IInvariant, PTL

\* The members of a group have different names, and only they have names.
THEOREM NamesAreUnique == Spec => []NamesUnique
<1>1. IInv => NamesUnique
  BY DEF IInv, Shaped, Named, NamesUnique, Live
<1> QED
  BY <1>1, IInvariant, PTL

\* No setting has a hook the destructor was called for.
THEOREM HooksStayAlive == Spec => []HooksAlive
<1>1. IInv => HooksAlive
  BY DEF IInv
<1> QED
  BY <1>1, IInvariant, PTL

-----------------------------------------------------------------------------
(* Induction over the natural numbers, without an operator as a parameter. *)

\* Every set of natural numbers has a least one, ...
LEMMA NatLess == IsWellFoundedOn({p \in Nat \X Nat : p[1] < p[2]}, Nat)
  BY NatLessThanWellFounded DEF OpToRel

\* ... so a set that has 0 and with every number the next has them all.
LEMMA SetInduction ==
  ASSUME NEW S \in SUBSET Nat, 0 \in S, \A n \in S : n + 1 \in S
  PROVE S = Nat
<1> SUFFICES ASSUME S # Nat PROVE FALSE
  OBVIOUS
<1> DEFINE R == {p \in Nat \X Nat : p[1] < p[2]}
           rest == Nat \ S
<1>1. IsWellFoundedOn(R, Nat)
  BY NatLess
<1>2. \A y, x \in rest : <<y, x>> \in R <=> y < x
  OBVIOUS
<1>3. rest \in SUBSET Nat /\ rest # {} /\ 0 \notin rest
  OBVIOUS
<1> HIDE DEF R
<1>4. PICK x \in rest : \A y \in rest : ~ (<<y, x>> \in R)
  <2> HIDE DEF rest
  <2> QED
    BY <1>1, <1>3, WFMin
<1>5. \A y \in rest : ~ (y < x)
  BY <1>2, <1>4
<1>6. x - 1 \in Nat /\ x - 1 < x /\ x - 1 \notin rest /\ (x - 1) + 1 = x
  BY <1>3, <1>4, <1>5
<1> QED
  BY <1>4, <1>6

-----------------------------------------------------------------------------
(* Trails: from the root down to a setting, each the parent of the next.   *)

Trail(h, t) ==
  /\ t \in Seq(DOMAIN h) /\ Len(t) >= 1 /\ t[1] = Root
  /\ \A k \in 1..(Len(t) - 1) : h[t[k + 1]].parent = t[k]

Ends(t) == t[Len(t)]

\* Every setting is at the end of one.
Reached(h) == \A n \in DOMAIN h : \E t : Trail(h, t) /\ Ends(t) = n

Indices(h, t) == [k \in 1..(Len(t) - 1) |-> IndexOf(h, t[k + 1])]

\* The root has no parent, the others have one, and are its elements at their index.
LEMMA Parents ==
  ASSUME NEW h, Shaped(h)
  PROVE  /\ Root \in DOMAIN h /\ h[Root].parent \notin DOMAIN h
         /\ \A n \in DOMAIN h \ {Root} :
              /\ h[n].parent \in DOMAIN h
              /\ IndexOf(h, n) \in DOMAIN h[h[n].parent].elems
              /\ h[h[n].parent].elems[IndexOf(h, n)] = n
         /\ \A m \in DOMAIN h : /\ h[m].elems \in Seq(Nodes)
                                /\ DOMAIN h[m].elems = 1..Len(h[m].elems)
         /\ \A m \in DOMAIN h : \A i \in DOMAIN h[m].elems :
              /\ h[m].elems[i] \in DOMAIN h \ {Root} /\ h[h[m].elems[i]].parent = m
              /\ IndexOf(h, h[m].elems[i]) = i
<1> USE DEF Shaped
<1>1. Root \in DOMAIN h /\ h[Root].parent \notin DOMAIN h
  BY NodesAssumption DEF Typed, Rooted
<1>2. ASSUME NEW n \in DOMAIN h \ {Root}
      PROVE  /\ h[n].parent \in DOMAIN h
             /\ IndexOf(h, n) \in DOMAIN h[h[n].parent].elems
             /\ h[h[n].parent].elems[IndexOf(h, n)] = n
  BY DEF Up, IndexOf
<1>3. ASSUME NEW m \in DOMAIN h
      PROVE  h[m].elems \in Seq(Nodes) /\ DOMAIN h[m].elems = 1..Len(h[m].elems)
  BY DEF Typed, Record
<1>4. ASSUME NEW m \in DOMAIN h, NEW i \in DOMAIN h[m].elems
      PROVE  /\ h[m].elems[i] \in DOMAIN h \ {Root} /\ h[h[m].elems[i]].parent = m
             /\ IndexOf(h, h[m].elems[i]) = i
  <2>1. h[m].elems[i] \in DOMAIN h /\ h[h[m].elems[i]].parent = m
    BY DEF Down
  <2>2. h[m].elems[i] # Root
    BY <1>1, <2>1
  <2>3. IndexOf(h, h[m].elems[i]) \in DOMAIN h[m].elems
        /\ h[m].elems[IndexOf(h, h[m].elems[i])] = h[m].elems[i]
    BY <1>2, <2>1, <2>2
  <2> QED
    BY <2>1, <2>2, <2>3 DEF Once
<1> QED
  BY <1>1, <1>2, <1>3, <1>4

\* The settings of a trail and their places in it.
LEMMA OnTrail ==
  ASSUME NEW h, Shaped(h), NEW t, Trail(h, t)
  PROVE  /\ Len(t) \in Nat \ {0} /\ t = [k \in 1..Len(t) |-> t[k]]
         /\ \A k \in 1..Len(t) : t[k] \in DOMAIN h /\ (t[k] = Root <=> k = 1)
         /\ \A k \in 1..Len(t) : k > 1 => k - 1 \in 1..Len(t) /\ h[t[k]].parent = t[k - 1]
         /\ Ends(t) \in DOMAIN h
<1>1. Len(t) \in Nat \ {0} /\ t = [k \in 1..Len(t) |-> t[k]] /\ t[1] = Root
      /\ \A k \in 1..Len(t) : t[k] \in DOMAIN h
  BY DEF Trail
<1>2. ASSUME NEW k \in 1..Len(t), k > 1
      PROVE  k - 1 \in 1..Len(t) /\ h[t[k]].parent = t[k - 1]
  <2>1. k - 1 \in 1..(Len(t) - 1) /\ (k - 1) + 1 = k
    BY <1>1, <1>2
  <2>2. h[t[(k - 1) + 1]].parent = t[k - 1]
    BY <2>1 DEF Trail
  <2> QED
    BY <2>1, <2>2
<1>3. \A k \in 1..Len(t) : t[k] = Root => k = 1
  BY <1>1, <1>2, Parents
<1> QED
  BY <1>1, <1>2, <1>3 DEF Ends

\* Trails that meet are the same so far.
LEMMA Meet ==
  ASSUME NEW h, Shaped(h), NEW t, Trail(h, t), NEW u, Trail(h, u),
         NEW j \in 1..Len(t), NEW k \in 1..Len(u), t[j] = u[k]
  PROVE  j = k /\ \A l \in 1..j : t[l] = u[l]
<1> DEFINE Same(i) == \A m \in 1..Len(u) :
                        i \in 1..Len(t) /\ t[i] = u[m] => i = m /\ \A l \in 1..i : t[l] = u[l]
           S == {i \in Nat : Same(i)}
<1>0. /\ Len(t) \in Nat /\ Len(u) \in Nat
      /\ \A i \in 1..Len(t) : t[i] = Root <=> i = 1
      /\ \A i \in 1..Len(u) : u[i] = Root <=> i = 1
      /\ \A i \in 1..Len(t) : i > 1 => i - 1 \in 1..Len(t) /\ h[t[i]].parent = t[i - 1]
      /\ \A i \in 1..Len(u) : i > 1 => i - 1 \in 1..Len(u) /\ h[u[i]].parent = u[i - 1]
  BY OnTrail
<1>1. 0 \in S
  OBVIOUS
<1>2. ASSUME NEW n \in S PROVE n + 1 \in S
  <2> SUFFICES ASSUME NEW i \in Nat, i = n + 1, i \in 1..Len(t),
                      NEW m \in 1..Len(u), t[i] = u[m]
               PROVE  i = m /\ \A l \in 1..i : t[l] = u[l]
    OBVIOUS
  <2>1. CASE i = 1
    BY <1>0, <2>1
  <2>2. CASE i > 1
    <3>1. m > 1
      BY <1>0, <2>2
    <3>2. t[i - 1] = u[m - 1] /\ i - 1 = n /\ i - 1 \in 1..Len(t) /\ m - 1 \in 1..Len(u)
      <4>1. i \in Nat /\ m \in Nat /\ m - 1 \in 1..Len(u) /\ i - 1 = n /\ i - 1 \in 1..Len(t)
        BY <1>0, <2>2, <3>1
      <4>2. h[t[i]].parent = t[i - 1] /\ h[u[m]].parent = u[m - 1]
        BY <1>0, <2>2, <3>1
      <4> QED
        BY <4>1, <4>2
    <3>3. n = m - 1 /\ \A l \in 1..n : t[l] = u[l]
      BY <1>2, <3>2
    <3> QED
      BY <1>0, <3>3
  <2> QED
    BY <1>0, <2>1, <2>2
<1>3. S = Nat
  <2>1. S \in SUBSET Nat
    OBVIOUS
  <2> HIDE DEF S
  <2> QED
    BY <1>1, <1>2, <2>1, SetInduction
<1> QED
  <2>1. j \in S
    <3> HIDE DEF S
    <3> QED
      BY <1>0, <1>3
  <2> QED
    BY <2>1

\* Trails with the same indices are the same.
LEMMA Follow ==
  ASSUME NEW h, Shaped(h), NEW t, Trail(h, t), NEW u, Trail(h, u),
         NEW len \in Nat, len <= Len(t), len <= Len(u),
         \A k \in 1..(len - 1) : IndexOf(h, t[k + 1]) = IndexOf(h, u[k + 1])
  PROVE  \A k \in 1..len : t[k] = u[k]
<1> DEFINE S == {i \in Nat : i \in 1..len => t[i] = u[i]}
<1>0. /\ Len(t) \in Nat /\ Len(u) \in Nat
      /\ \A i \in 1..Len(t) : t[i] \in DOMAIN h /\ (t[i] = Root <=> i = 1)
      /\ \A i \in 1..Len(u) : u[i] \in DOMAIN h /\ (u[i] = Root <=> i = 1)
      /\ \A i \in 1..Len(t) : i > 1 => i - 1 \in 1..Len(t) /\ h[t[i]].parent = t[i - 1]
      /\ \A i \in 1..Len(u) : i > 1 => i - 1 \in 1..Len(u) /\ h[u[i]].parent = u[i - 1]
  BY OnTrail
<1>1. 0 \in S
  OBVIOUS
<1>2. ASSUME NEW n \in S PROVE n + 1 \in S
  <2> SUFFICES ASSUME NEW i \in Nat, i = n + 1, i \in 1..len PROVE t[i] = u[i]
    OBVIOUS
  <2>1. i \in 1..Len(t) /\ i \in 1..Len(u)
    BY <1>0
  <2>2. CASE i = 1
    BY <1>0, <2>1, <2>2
  <2>3. CASE i > 1
    <3>1. n \in 1..(len - 1) /\ t[n] = u[n] /\ i - 1 = n
      BY <1>2, <2>3
    <3>2. h[t[i]].parent = t[n] /\ h[u[i]].parent = t[n] /\ t[i] \in DOMAIN h \ {Root}
          /\ u[i] \in DOMAIN h \ {Root}
      BY <1>0, <2>1, <2>3, <3>1
    <3>3. IndexOf(h, t[i]) = IndexOf(h, u[i])
      BY <3>1
    <3>4. h[t[n]].elems[IndexOf(h, t[i])] = t[i] /\ h[t[n]].elems[IndexOf(h, u[i])] = u[i]
      BY <3>2, Parents
    <3> QED
      BY <3>3, <3>4
  <2> QED
    BY <2>1, <2>2, <2>3
<1>3. S = Nat
  <2>1. S \in SUBSET Nat
    OBVIOUS
  <2> HIDE DEF S
  <2> QED
    BY <1>1, <1>2, <2>1, SetInduction
<1> QED
  <2> SUFFICES ASSUME NEW k \in 1..len PROVE t[k] = u[k]
    OBVIOUS
  <2>1. k \in S
    BY <1>3
  <2> QED
    BY <2>1

\* A trail goes on through an element of its last setting.
LEMMA Onward ==
  ASSUME NEW h, Shaped(h), NEW t, Trail(h, t), NEW i \in DOMAIN h[Ends(t)].elems
  PROVE  /\ Trail(h, Append(t, h[Ends(t)].elems[i])) 
         /\ Ends(Append(t, h[Ends(t)].elems[i])) = h[Ends(t)].elems[i]
         /\ Indices(h, Append(t, h[Ends(t)].elems[i])) = Append(Indices(h, t), i)
<1> DEFINE c == h[Ends(t)].elems[i]
           u == Append(t, c)
           n == Len(t)
<1>1. c \in DOMAIN h /\ h[c].parent = Ends(t) /\ IndexOf(h, c) = i
  BY Parents, OnTrail
<1>2. t \in Seq(DOMAIN h) /\ n \in Nat \ {0}
  BY OnTrail DEF Trail
<1>3. /\ u \in Seq(DOMAIN h) /\ Len(u) = n + 1 /\ u[n + 1] = c
      /\ \A k \in 1..n : u[k] = t[k]
  BY <1>1, <1>2
<1> HIDE DEF u, c
<1>4. ASSUME NEW k \in 1..(Len(u) - 1) PROVE h[u[k + 1]].parent = u[k]
  <2>1. CASE k = n
    BY <1>1, <1>2, <1>3, <2>1 DEF Ends
  <2>2. CASE k \in 1..(n - 1)
    <3>1. h[t[k + 1]].parent = t[k]
      BY <2>2 DEF Trail
    <3>2. k + 1 \in 1..n /\ k \in 1..n
      BY <1>2, <2>2
    <3> QED
      BY <1>3, <3>1, <3>2
  <2> QED
    BY <1>2, <1>3, <2>1, <2>2
<1>5. Trail(h, u) /\ Ends(u) = c
  <2>1. u[1] = Root
    BY <1>2, <1>3 DEF Trail
  <2> QED
    BY <1>2, <1>3, <1>4, <2>1 DEF Trail, Ends
<1>6. Indices(h, u) = Append(Indices(h, t), i)
  <2> DEFINE p == Indices(h, t)
             q == Indices(h, u)
  <2>1. p = [k \in 1..(n - 1) |-> IndexOf(h, t[k + 1])] /\ q = [k \in 1..n |-> IndexOf(h, u[k + 1])]
    BY <1>2, <1>3 DEF Indices
  <2> DEFINE X == {IndexOf(h, m) : m \in DOMAIN h} \cup {i}
  <2>2. p \in Seq(X) /\ Len(p) = n - 1
    <3>1. \A k \in 1..(n - 1) : k + 1 \in 1..n /\ t[k + 1] \in DOMAIN h
      BY <1>2
    <3> QED
      BY <1>2, <2>1, <3>1
  <2>3. Append(p, i) = [k \in 1..n |-> IF k = n THEN i ELSE p[k]]
    <3> HIDE DEF p, X
    <3>1. Append(p, i) \in Seq(X) /\ Len(Append(p, i)) = n
          /\ \A k \in 1..n : Append(p, i)[k] = IF k = n THEN i ELSE p[k]
      BY <1>2, <2>2 DEF X
    <3> DEFINE r == Append(p, i)
    <3>2. r \in Seq(X) /\ Len(r) = n
      BY <3>1
    <3>3. r = [k \in 1..n |-> r[k]]
      <4> HIDE DEF r
      <4> QED
        BY <3>2
    <3> QED
      BY <3>1, <3>3
  <2>4. \A k \in 1..n : IndexOf(h, u[k + 1]) = IF k = n THEN i ELSE p[k]
    <3> TAKE k \in 1..n
    <3>1. CASE k = n
      BY <1>1, <1>3, <3>1
    <3>2. CASE k # n
      BY <1>2, <1>3, <2>1, <3>2
    <3> QED
      BY <3>1, <3>2
  <2> HIDE DEF p, q
  <2>5. q = Append(p, i)
    BY <2>1, <2>3, <2>4
  <2> QED
    BY <2>5 DEF p, q
<1> QED
  BY <1>5, <1>6 DEF u, c

\* The trail of the root is the root alone.
LEMMA AtRoot ==
  ASSUME NEW h, Shaped(h), NEW t, Trail(h, t), Ends(t) = Root
  PROVE  Len(t) = 1 /\ Indices(h, t) = << >>
<1>1. Len(t) = 1
  <2>1. Len(t) \in 1..Len(t)
    BY OnTrail
  <2> QED
    BY <2>1, OnTrail DEF Ends
<1>2. 1..(Len(t) - 1) = {}
  BY <1>1
<1>3. Indices(h, t) = [k \in {} |-> IndexOf(h, t[k + 1])]
  BY <1>2 DEF Indices
<1> QED
  BY <1>1, <1>3

\* Every trail but the one that is the root alone is that of a parent, and one more.
LEMMA Inward ==
  ASSUME NEW h, Shaped(h), NEW t, Trail(h, t), Ends(t) # Root
  PROVE  \E u : /\ Trail(h, u) /\ Ends(u) = h[Ends(t)].parent
                /\ Len(t) = Len(u) + 1 /\ \A k \in 1..Len(u) : u[k] = t[k]
<1> DEFINE n == Len(t)
           u == SubSeq(t, 1, n - 1)
<1>1. n \in Nat \ {0} /\ t \in Seq(DOMAIN h) /\ n > 1
  BY OnTrail DEF Trail, Ends
<1>2. u \in Seq(DOMAIN h) /\ Len(u) = n - 1 /\ \A k \in 1..(n - 1) : u[k] = t[k]
  BY <1>1
<1> HIDE DEF u
<1>3. u[1] = Root
  BY <1>1, <1>2 DEF Trail
<1>4. \A k \in 1..(Len(u) - 1) : h[u[k + 1]].parent = u[k]
  BY <1>1, <1>2 DEF Trail
<1>5. Ends(u) = h[Ends(t)].parent
  BY <1>1, <1>2, OnTrail DEF Ends
<1> QED
  BY <1>1, <1>2, <1>3, <1>4, <1>5 DEF Trail

-----------------------------------------------------------------------------
(* PathsOf.  Its equation has a solution where every setting has a trail:  *)
(* the indices of the trail.                                               *)

Body(h, f) ==
  [n \in DOMAIN h |-> IF n = Root THEN << >> ELSE Append(f[h[n].parent], IndexOf(h, n))]

TrailTo(h, n) == CHOOSE t : Trail(h, t) /\ Ends(t) = n

\* There is one trail to each setting.
LEMMA TrailsLead ==
  ASSUME NEW h, Shaped(h), Reached(h), NEW n \in DOMAIN h
  PROVE  /\ Trail(h, TrailTo(h, n)) /\ Ends(TrailTo(h, n)) = n
         /\ \A t : Trail(h, t) /\ Ends(t) = n => t = TrailTo(h, n)
<1> DEFINE u == TrailTo(h, n)
<1>1. Trail(h, u) /\ Ends(u) = n
  BY DEF Reached, TrailTo
<1> HIDE DEF u
<1>2. ASSUME NEW t, Trail(h, t), Ends(t) = n PROVE t = u
  <2> DEFINE j == Len(t)
             k == Len(u)
  <2>1. j \in 1..Len(t) /\ k \in 1..Len(u) /\ t[j] = u[k]
    BY <1>1, <1>2, OnTrail DEF Ends
  <2>2. t = [l \in 1..Len(t) |-> t[l]] /\ u = [l \in 1..Len(u) |-> u[l]]
    BY <1>1, <1>2, OnTrail
  <2> HIDE DEF j, k
  <2>3. j = k /\ \A l \in 1..j : t[l] = u[l]
    BY <1>1, <1>2, <2>1, Meet
  <2> QED
    BY <2>2, <2>3 DEF j, k
<1> QED
  BY <1>1, <1>2 DEF u

\* The equation that defines the paths holds of them.
LEMMA PathsSolve ==
  ASSUME NEW h, Shaped(h), Reached(h)
  PROVE  PathsOf(h) = Body(h, PathsOf(h))
<1> DEFINE G == [n \in DOMAIN h |-> Indices(h, TrailTo(h, n))]
<1>1. ASSUME NEW n \in DOMAIN h
      PROVE  G[n] = IF n = Root THEN << >> ELSE Append(G[h[n].parent], IndexOf(h, n))
  <2> DEFINE t == TrailTo(h, n)
  <2>1. Trail(h, t) /\ Ends(t) = n /\ G[n] = Indices(h, t)
    BY TrailsLead
  <2>2. CASE n = Root
    BY <2>1, <2>2, AtRoot
  <2>3. CASE n # Root
    <3> DEFINE m == h[n].parent
               u == TrailTo(h, m)
    <3>1. m \in DOMAIN h /\ IndexOf(h, n) \in DOMAIN h[m].elems /\ h[m].elems[IndexOf(h, n)] = n
      BY <2>3, Parents
    <3>2. Trail(h, u) /\ Ends(u) = m /\ G[m] = Indices(h, u)
      BY <3>1, TrailsLead
    <3>3. Trail(h, Append(u, n)) /\ Ends(Append(u, n)) = n
          /\ Indices(h, Append(u, n)) = Append(Indices(h, u), IndexOf(h, n))
      BY <3>1, <3>2, Onward
    <3>4. Append(u, n) = t
      BY <3>3, TrailsLead
    <3> QED
      BY <2>1, <2>3, <3>2, <3>3, <3>4
  <2> QED
    BY <2>2, <2>3
<1>2. G = Body(h, G)
  <2>1. DOMAIN G = DOMAIN h /\ G = [n \in DOMAIN h |-> G[n]]
    OBVIOUS
  <2> HIDE DEF G
  <2> QED
    BY <1>1, <2>1 DEF Body
<1>3. PathsOf(h) = CHOOSE f : f = Body(h, f)
  BY DEF PathsOf, Body
<1> HIDE DEF G
<1> QED
  BY <1>2, <1>3

\* The path of a setting is the indices of its trail.
LEMMA PathsAre ==
  ASSUME NEW h, Shaped(h), Reached(h), NEW t, Trail(h, t)
  PROVE  PathsOf(h)[Ends(t)] = Indices(h, t)
<1> DEFINE F == PathsOf(h)
           Same(n) == \A u : Trail(h, u) /\ Len(u) = n => F[Ends(u)] = Indices(h, u)
           S == {n \in Nat : Same(n)}
<1>1. F = Body(h, F)
  BY PathsSolve
<1> HIDE DEF F
<1>2. 0 \in S
  BY OnTrail
<1>3. ASSUME NEW n \in S PROVE n + 1 \in S
  <2> SUFFICES ASSUME NEW u, Trail(h, u), Len(u) = n + 1 PROVE F[Ends(u)] = Indices(h, u)
    OBVIOUS
  <2>1. Ends(u) \in DOMAIN h /\ F[Ends(u)] = IF Ends(u) = Root THEN << >>
                  ELSE Append(F[h[Ends(u)].parent], IndexOf(h, Ends(u)))
    BY <1>1, OnTrail DEF Body
  <2>2. CASE Ends(u) = Root
    BY <2>1, <2>2, AtRoot
  <2>3. CASE Ends(u) # Root
    <3> DEFINE e == Ends(u)
               m == h[e].parent
    <3>1. PICK w : Trail(h, w) /\ Ends(w) = m /\ Len(u) = Len(w) + 1
      BY <2>3, Inward
    <3>2. m \in DOMAIN h /\ IndexOf(h, e) \in DOMAIN h[m].elems /\ h[m].elems[IndexOf(h, e)] = e
      BY <2>1, <2>3, Parents
    <3>3. Trail(h, Append(w, e)) /\ Ends(Append(w, e)) = e
          /\ Indices(h, Append(w, e)) = Append(Indices(h, w), IndexOf(h, e))
      BY <3>1, <3>2, Onward
    <3>4. Append(w, e) = u
      BY <2>1, <3>3, TrailsLead
    <3>5. F[m] = Indices(h, w)
      <4>1. Len(w) = n
        BY <3>1, OnTrail
      <4> QED
        BY <1>3, <3>1, <4>1
    <3> QED
      BY <2>1, <2>3, <3>3, <3>4, <3>5
  <2> QED
    BY <2>2, <2>3
<1>4. S = Nat
  <2>1. S \in SUBSET Nat
    OBVIOUS
  <2> HIDE DEF S
  <2> QED
    BY <1>2, <1>3, <2>1, SetInduction
<1>5. Len(t) \in S
  <2>1. Len(t) \in Nat
    BY OnTrail
  <2> HIDE DEF S
  <2> QED
    BY <1>4, <2>1
<1> QED
  BY <1>5 DEF F

-----------------------------------------------------------------------------
(* TreeOf: one node for each trail, at its indices.                        *)

Node(h, n) == [name |-> h[n].name, type |-> h[n].type]

\* A path is a sequence of indices, one for each setting of the trail after the root.
LEMMA PathTypes ==
  ASSUME NEW h, Shaped(h), NEW t, Trail(h, t)
  PROVE  /\ Indices(h, t) \in Seq(Nat) /\ Len(Indices(h, t)) = Len(t) - 1
         /\ \A k \in 1..(Len(t) - 1) :
              /\ Indices(h, t)[k] = IndexOf(h, t[k + 1])
              /\ t[k] \in DOMAIN h /\ t[k + 1] \in DOMAIN h \ {Root} /\ h[t[k + 1]].parent = t[k]
              /\ IndexOf(h, t[k + 1]) \in DOMAIN h[t[k]].elems
              /\ h[t[k]].elems[IndexOf(h, t[k + 1])] = t[k + 1]
<1> DEFINE n == Len(t) - 1
           p == Indices(h, t)
<1>1. n \in Nat
  BY OnTrail
<1>2. ASSUME NEW k \in 1..n
      PROVE  /\ p[k] = IndexOf(h, t[k + 1]) /\ IndexOf(h, t[k + 1]) \in Nat
             /\ t[k] \in DOMAIN h /\ t[k + 1] \in DOMAIN h \ {Root} /\ h[t[k + 1]].parent = t[k]
             /\ IndexOf(h, t[k + 1]) \in DOMAIN h[t[k]].elems
             /\ h[t[k]].elems[IndexOf(h, t[k + 1])] = t[k + 1]
  <2>1. k \in 1..Len(t) /\ k + 1 \in 1..Len(t) /\ k + 1 > 1 /\ (k + 1) - 1 = k
    BY <1>1
  <2>2. t[k] \in DOMAIN h /\ t[k + 1] \in DOMAIN h \ {Root} /\ h[t[k + 1]].parent = t[k]
    BY <2>1, OnTrail
  <2>3. IndexOf(h, t[k + 1]) \in DOMAIN h[t[k]].elems
        /\ h[t[k]].elems[IndexOf(h, t[k + 1])] = t[k + 1]
    BY <2>2, Parents
  <2>4. IndexOf(h, t[k + 1]) \in Nat
    BY <2>2, <2>3, Parents
  <2>5. p[k] = IndexOf(h, t[k + 1])
    BY DEF Indices
  <2> QED
    BY <2>2, <2>3, <2>4, <2>5
<1>3. p = [k \in 1..n |-> p[k]]
  BY DEF Indices
<1>4. p \in Seq(Nat) /\ Len(p) = n
  <2> HIDE DEF p, n
  <2> QED
    BY <1>1, <1>2, <1>3
<1> QED
  BY <1>2, <1>4

\* Paths tell trails apart.
LEMMA OneTrail ==
  ASSUME NEW h, Shaped(h), NEW t, Trail(h, t), NEW u, Trail(h, u), Indices(h, t) = Indices(h, u)
  PROVE  t = u
<1>1. Len(t) = Len(u) /\ Len(t) \in Nat /\ t = [k \in 1..Len(t) |-> t[k]]
      /\ u = [k \in 1..Len(u) |-> u[k]]
  <2>1. Len(t) - 1 = Len(u) - 1 /\ Len(t) \in Nat /\ Len(u) \in Nat
    BY PathTypes, OnTrail
  <2> QED
    BY <2>1, OnTrail
<1>2. \A k \in 1..(Len(t) - 1) : IndexOf(h, t[k + 1]) = IndexOf(h, u[k + 1])
  <2> TAKE k \in 1..(Len(t) - 1)
  <2>1. IndexOf(h, t[k + 1]) = Indices(h, t)[k]
    BY PathTypes
  <2>2. k \in 1..(Len(u) - 1)
    BY <1>1
  <2>3. IndexOf(h, u[k + 1]) = Indices(h, u)[k]
    BY <2>2, PathTypes
  <2> QED
    BY <2>1, <2>3
<1> DEFINE len == Len(t)
<1>3. len \in Nat /\ len <= Len(t) /\ len <= Len(u)
      /\ \A k \in 1..(len - 1) : IndexOf(h, t[k + 1]) = IndexOf(h, u[k + 1])
  BY <1>1, <1>2
<1> HIDE DEF len
<1>4. \A k \in 1..len : t[k] = u[k]
  BY <1>3, Follow
<1> QED
  BY <1>1, <1>4 DEF len

\* The tree of a heap by its trails
LEMMA TreeIs ==
  ASSUME NEW h, Shaped(h), Reached(h)
  PROVE  /\ TreeOf(h) = [p \in DOMAIN TreeOf(h) |-> TreeOf(h)[p]]
         /\ \A p : p \in DOMAIN TreeOf(h) <=> \E t : Trail(h, t) /\ Indices(h, t) = p
         /\ \A t : Trail(h, t) => TreeOf(h)[Indices(h, t)] = Node(h, Ends(t))
<1> DEFINE F == PathsOf(h)
           at(p) == CHOOSE m \in DOMAIN h : F[m] = p
           X == {F[n] : n \in DOMAIN h}
<1>1. TreeOf(h) = [p \in X |-> Node(h, at(p))]
  BY DEF TreeOf, Node
<1>2. ASSUME NEW t, Trail(h, t) PROVE F[Ends(t)] = Indices(h, t) /\ Ends(t) \in DOMAIN h
  BY <1>2, PathsAre, OnTrail
<1>3. ASSUME NEW n \in DOMAIN h PROVE \E t : Trail(h, t) /\ Indices(h, t) = F[n] /\ Ends(t) = n
  <2>1. Trail(h, TrailTo(h, n)) /\ Ends(TrailTo(h, n)) = n
    BY TrailsLead
  <2> QED
    BY <1>2, <2>1
<1> HIDE DEF F
<1>4. ASSUME NEW p PROVE p \in X <=> \E t : Trail(h, t) /\ Indices(h, t) = p
  <2>1. ASSUME NEW t, Trail(h, t) PROVE Indices(h, t) \in X
    BY <1>2, <2>1
  <2> QED
    BY <1>3, <2>1
<1>5. ASSUME NEW t, Trail(h, t) PROVE at(Indices(h, t)) = Ends(t)
  <2>1. at(Indices(h, t)) \in DOMAIN h /\ F[at(Indices(h, t))] = Indices(h, t)
    BY <1>2, <1>5
  <2>2. PICK u : Trail(h, u) /\ Indices(h, u) = Indices(h, t) /\ Ends(u) = at(Indices(h, t))
    BY <1>3, <2>1
  <2>3. u = t
    BY <1>5, <2>2, OneTrail
  <2> QED
    BY <2>2, <2>3
<1>6. ASSUME NEW t, Trail(h, t) PROVE TreeOf(h)[Indices(h, t)] = Node(h, Ends(t))
  <2>1. Indices(h, t) \in X
    BY <1>4, <1>6
  <2> QED
    BY <1>1, <1>5, <1>6, <2>1
<1>7. DOMAIN TreeOf(h) = X
  BY <1>1
<1> HIDE DEF X, at
<1> QED
  BY <1>1, <1>4, <1>6, <1>7

\* Two heaps with the same trails, indices along them and settings at their ends have
\* the same tree.
LEMMA SameTree ==
  ASSUME NEW h, Shaped(h), Reached(h), NEW T, T = [p \in DOMAIN T |-> T[p]],
         \A p \in DOMAIN T : \E t : Trail(h, t) /\ Indices(h, t) = p,
         \A t : Trail(h, t) =>
           Indices(h, t) \in DOMAIN T /\ T[Indices(h, t)] = Node(h, Ends(t))
  PROVE  TreeOf(h) = T
<1>1. DOMAIN T = DOMAIN TreeOf(h)
  <2>1. ASSUME NEW p \in DOMAIN TreeOf(h) PROVE p \in DOMAIN T
    BY TreeIs
  <2>2. ASSUME NEW p \in DOMAIN T PROVE p \in DOMAIN TreeOf(h)
    BY TreeIs
  <2> QED
    BY <2>1, <2>2
<1>2. ASSUME NEW p \in DOMAIN T PROVE T[p] = TreeOf(h)[p]
  <2>1. PICK t : Trail(h, t) /\ Indices(h, t) = p
    OBVIOUS
  <2> QED
    BY <2>1, TreeIs
<1>3. TreeOf(h) = [p \in DOMAIN TreeOf(h) |-> TreeOf(h)[p]]
  BY TreeIs
<1> QED
  BY <1>1, <1>2, <1>3

\* A new configuration.
LEMMA TopTree ==
  LET h == [n \in {Root} |-> Setting(Nil, "GROUP", Nil)]
  IN  Reached(h) /\ TreeOf(h) = Abstract!Top
<1> DEFINE h == [n \in {Root} |-> Setting(Nil, "GROUP", Nil)]
           t == <<Root>>
           T == Abstract!Top
<1>1. DOMAIN h = {Root} /\ h[Root].name = Nil /\ h[Root].type = "GROUP"
  BY DEF Setting
<1>2. Shaped(h)
  BY RootAlone
<1> HIDE DEF h
<1>3. Trail(h, t) /\ Ends(t) = Root
  BY <1>1 DEF Trail, Ends
<1>4. Reached(h)
  BY <1>1, <1>3 DEF Reached
<1>5. Indices(h, t) = << >>
  BY <1>2, <1>3, AtRoot
<1>6. ASSUME NEW u, Trail(h, u) PROVE Indices(h, u) = << >> /\ Node(h, Ends(u)) = T[<< >>]
  <2>1. Ends(u) = Root
    BY <1>1, <1>2, <1>6, OnTrail
  <2>2. Indices(h, u) = << >>
    BY <1>2, <1>6, <2>1, AtRoot
  <2> QED
    BY <1>1, <2>1, <2>2 DEF Node, Abstract!Top
<1>7. T = [p \in {<< >>} |-> T[p]] /\ DOMAIN T = {<< >>}
  BY DEF Abstract!Top
<1> HIDE DEF T, t
<1>8. TreeOf(h) = T
  BY <1>2, <1>3, <1>4, <1>5, <1>6, <1>7, SameTree
<1> QED
  BY <1>4, <1>8 DEF h, T

-----------------------------------------------------------------------------
(* What creating a setting, giving it a type and removing it do to trails, *)
(* and so to the tree.                                                     *)

\* The children of a path are those of the elements of its setting.
LEMMA ChildrenAre ==
  ASSUME NEW h, Shaped(h), Reached(h), NEW t, Trail(h, t)
  PROVE  LET e == h[Ends(t)].elems
             d == Indices(h, t)
         IN  /\ \A q \in Abstract!Children(TreeOf(h), d) : \E j \in DOMAIN e : q = Append(d, j)
             /\ \A j \in DOMAIN e :
                  /\ Append(d, j) \in Abstract!Children(TreeOf(h), d)
                  /\ Len(Append(d, j)) = Len(t) /\ Append(d, j)[Len(t)] = j
                  /\ TreeOf(h)[Append(d, j)] = Node(h, e[j])
<1> DEFINE e == h[Ends(t)].elems
           d == Indices(h, t)
           T == TreeOf(h)
<1>1. d \in Seq(Nat) /\ Len(d) = Len(t) - 1 /\ Len(t) \in Nat \ {0} /\ Ends(t) \in DOMAIN h
      /\ DOMAIN e = 1..Len(e) /\ e \in Seq(Nodes)
  BY PathTypes, OnTrail, Parents
<1>2. ASSUME NEW j \in DOMAIN e
      PROVE  /\ Append(d, j) \in Abstract!Children(T, d)
             /\ Len(Append(d, j)) = Len(t) /\ Append(d, j)[Len(t)] = j
             /\ T[Append(d, j)] = Node(h, e[j])
  <2> DEFINE u == Append(t, e[j])
             q == Append(d, j)
  <2>1. Trail(h, u) /\ Ends(u) = e[j] /\ Indices(h, u) = q
    BY Onward
  <2>2. q \in DOMAIN T /\ T[q] = Node(h, e[j])
    <3> HIDE DEF q, T, e
    <3> QED
      BY <2>1, TreeIs DEF T
  <2>3. Len(q) = Len(t) /\ q[Len(t)] = j /\ \A k \in 1..Len(d) : q[k] = d[k]
    <3> HIDE DEF d, e
    <3>1. j \in Nat
      BY <1>1
    <3> QED
      BY <1>1, <3>1
  <2> HIDE DEF q, d
  <2>4. Len(q) = Len(d) + 1 /\ Len(q) >= Len(d)
    BY <1>1, <2>3
  <2>5. q \in Abstract!Children(T, d)
    BY <2>2, <2>3, <2>4 DEF Abstract!Children, Abstract!Within
  <2> QED
    BY <2>2, <2>3, <2>5 DEF q, d
<1>3. ASSUME NEW q \in Abstract!Children(T, d) PROVE \E j \in DOMAIN e : q = Append(d, j)
  <2> HIDE DEF d, T, e
  <2>1. q \in DOMAIN T /\ Len(q) = Len(d) + 1 /\ \A k \in 1..Len(d) : q[k] = d[k]
    BY <1>3 DEF Abstract!Children, Abstract!Within
  <2>2. PICK u : Trail(h, u) /\ Indices(h, u) = q
    BY <2>1, TreeIs DEF T
  <2> DEFINE len == Len(t)
  <2>3. Len(u) = len + 1 /\ Len(u) \in Nat
    BY <1>1, <2>1, <2>2, PathTypes, OnTrail
  <2>4. \A k \in 1..(len - 1) : IndexOf(h, t[k + 1]) = IndexOf(h, u[k + 1])
    <3> TAKE k \in 1..(len - 1)
    <3>1. k \in 1..Len(d) /\ k \in 1..(Len(u) - 1) /\ k \in 1..(Len(t) - 1)
      BY <1>1, <2>3
    <3>2. d[k] = IndexOf(h, t[k + 1])
      BY <3>1, PathTypes DEF d
    <3>3. q[k] = IndexOf(h, u[k + 1])
      BY <2>2, <3>1, PathTypes
    <3> QED
      BY <2>1, <3>1, <3>2, <3>3
  <2>5. len \in Nat /\ len <= Len(t) /\ len <= Len(u)
    BY <1>1, <2>3
  <2>6. u[len] = t[len]
    <3>1. len \in 1..len
      BY <1>1
    <3> HIDE DEF len
    <3> QED
      BY <2>2, <2>4, <2>5, <3>1, Follow
  <2> DEFINE x == Ends(u)
             j == IndexOf(h, x)
  <2>7. x \in DOMAIN h \ {Root} /\ h[x].parent = Ends(t)
    <3>1. len + 1 \in 1..Len(u) /\ len + 1 > 1 /\ (len + 1) - 1 = len /\ x = u[len + 1]
      BY <1>1, <2>3 DEF Ends
    <3>2. u[len + 1] \in DOMAIN h \ {Root} /\ h[u[len + 1]].parent = u[len]
      <4> HIDE DEF len
      <4> QED
        BY <2>2, <3>1, OnTrail
    <3> QED
      BY <2>6, <3>1, <3>2 DEF Ends
  <2>8. j \in DOMAIN e /\ e[j] = x
    BY <2>7, Parents DEF e
  <2>9. Trail(h, Append(t, x)) /\ Ends(Append(t, x)) = x /\ Indices(h, Append(t, x)) = Append(d, j)
    <3>1. /\ Trail(h, Append(t, h[Ends(t)].elems[j])) 
          /\ Ends(Append(t, h[Ends(t)].elems[j])) = h[Ends(t)].elems[j]
          /\ Indices(h, Append(t, h[Ends(t)].elems[j])) = Append(Indices(h, t), j)
      <4> HIDE DEF j
      <4> QED
        BY <2>8, Onward DEF e
    <3> QED
      BY <2>8, <3>1 DEF e, d
  <2>10. u = Append(t, x)
    BY <2>2, <2>7, <2>9, TrailsLead
  <2> QED
    BY <2>2, <2>8, <2>9, <2>10
<1> QED
  BY <1>2, <1>3

\* What config_setting_create leaves as it was.
IsCreated(g, p, n, name, type) ==
  /\ DOMAIN g = Live \cup {n} /\ n # p
  /\ g[n].name = name /\ g[n].type = type /\ g[n].parent = p /\ g[n].elems = << >>
  /\ \A m \in Live :
       /\ g[m].name = heap[m].name /\ g[m].type = heap[m].type
       /\ g[m].parent = heap[m].parent
       /\ g[m].elems = IF m = p THEN Append(heap[p].elems, n) ELSE heap[m].elems
  /\ heap[p].elems \in Seq(Nodes)

LEMMA CreatedIs ==
  ASSUME Shaped(heap), NEW p \in Live, NEW n \in Nodes \ Live, NEW name, NEW type
  PROVE  IsCreated(Created(p, n, name, type), p, n, name, type)
<1>1. heap[p] \in Record /\ Len(heap[p].elems) <= heap[p].cap /\ heap[p].cap % Chunk = 0
  BY DEF Shaped, Typed, Roomy, Live
<1>2. /\ \A f \in {"name", "type", "parent", "hook"} : ListAdd(heap[p], n)[f] = heap[p][f]
      /\ ListAdd(heap[p], n).elems = Append(heap[p].elems, n)
  BY <1>1, ListAdded
<1>3. heap[p].elems \in Seq(Nodes)
  BY <1>1 DEF Record
<1> QED
  BY <1>2, <1>3 DEF Created, Setting, IsCreated

\* A setting that is created is put behind the children of its parent's path.
LEMMA CreatedTree ==
  ASSUME Shaped(heap), Reached(heap), NEW p \in Live, NEW n \in Nodes \ Live,
         NEW name \in Names \cup {Nil}, NEW type \in Types,
         Shaped(Created(p, n, name, type)),
         NEW t, Trail(heap, t), Ends(t) = p
  PROVE  LET g == Created(p, n, name, type)
             new == Append(Indices(heap, t), Len(heap[p].elems) + 1)
         IN  /\ Reached(g)
             /\ TreeOf(g) = Abstract!Put(TreeOf(heap), new, [name |-> name, type |-> type])
<1> DEFINE g == Created(p, n, name, type)
           e == heap[p].elems
           i == Len(e) + 1
           d == Indices(heap, t)
           new == Append(d, i)
           v == Append(t, n)
           node == [name |-> name, type |-> type]
           T == Abstract!Put(TreeOf(heap), new, node)
<1>1. /\ DOMAIN g = Live \cup {n} /\ n # p
      /\ g[n].name = name /\ g[n].type = type /\ g[n].parent = p /\ g[n].elems = << >>
      /\ \A m \in Live :
           /\ g[m].name = heap[m].name /\ g[m].type = heap[m].type
           /\ g[m].parent = heap[m].parent
           /\ g[m].elems = IF m = p THEN Append(e, n) ELSE heap[m].elems
      /\ e \in Seq(Nodes)
  <2>1. IsCreated(g, p, n, name, type)
    <3> HIDE DEF g
    <3> QED
      BY CreatedIs DEF g
  <2> HIDE DEF g
  <2> QED
    BY <2>1 DEF IsCreated
<1>2. Shaped(g)
  OBVIOUS
<1> HIDE DEF g
<1>3. /\ DOMAIN Append(e, n) = DOMAIN e \cup {i} /\ Append(e, n)[i] = n
      /\ \A j \in DOMAIN e : Append(e, n)[j] = e[j]
  BY <1>1
<1>4. ASSUME NEW m \in Live \ {Root} PROVE IndexOf(g, m) = IndexOf(heap, m)
  <2> DEFINE q == heap[m].parent
             j == IndexOf(heap, m)
  <2>1. q \in Live /\ j \in DOMAIN heap[q].elems /\ heap[q].elems[j] = m
    BY Parents DEF Live
  <2>2. j \in DOMAIN g[q].elems /\ g[q].elems[j] = m
    BY <1>1, <1>3, <2>1
  <2>3. q \in DOMAIN g
    BY <1>1, <2>1
  <2> HIDE DEF j, q
  <2>4. IndexOf(g, g[q].elems[j]) = j
    BY <1>2, <2>2, <2>3, Parents
  <2> QED
    BY <2>2, <2>4 DEF j
<1>5. ASSUME NEW u, Trail(heap, u)
      PROVE  /\ Trail(g, u) /\ Indices(g, u) = Indices(heap, u) /\ Ends(u) \in Live
             /\ Node(g, Ends(u)) = Node(heap, Ends(u))
  <2>1. /\ Len(u) \in Nat \ {0} /\ u \in Seq(Live) /\ Ends(u) \in Live /\ u[1] = Root
        /\ \A k \in 1..(Len(u) - 1) : /\ u[k] \in Live /\ u[k + 1] \in Live \ {Root}
                                      /\ heap[u[k + 1]].parent = u[k]
    BY <1>5, OnTrail, PathTypes DEF Live, Trail
  <2>2. u \in Seq(DOMAIN g)
    BY <1>1, <2>1
  <2>3. Trail(g, u)
    BY <1>1, <2>1, <2>2 DEF Trail
  <2>4. Indices(g, u) = Indices(heap, u)
    BY <1>4, <2>1 DEF Indices
  <2>5. Node(g, Ends(u)) = Node(heap, Ends(u))
    BY <1>1, <2>1 DEF Node
  <2> QED
    BY <2>1, <2>3, <2>4, <2>5
<1>6. Trail(g, v) /\ Ends(v) = n /\ Indices(g, v) = new /\ Node(g, n) = node
  <2>1. Ends(t) \in DOMAIN g /\ i \in DOMAIN g[Ends(t)].elems /\ g[Ends(t)].elems[i] = n
    BY <1>1, <1>3
  <2>2. Trail(g, t) /\ Indices(g, t) = d
    BY <1>5
  <2> HIDE DEF i, d
  <2>3. /\ Trail(g, Append(t, g[Ends(t)].elems[i]))
        /\ Ends(Append(t, g[Ends(t)].elems[i])) = g[Ends(t)].elems[i]
        /\ Indices(g, Append(t, g[Ends(t)].elems[i])) = Append(Indices(g, t), i)
    BY <1>2, <2>1, <2>2, Onward
  <2> QED
    BY <1>1, <2>1, <2>2, <2>3 DEF Node
<1>7. Reached(g)
  <2>1. ASSUME NEW m \in Live PROVE \E u : Trail(g, u) /\ Ends(u) = m
    <3>1. PICK u : Trail(heap, u) /\ Ends(u) = m
      BY DEF Reached, Live
    <3> QED
      BY <1>5, <3>1
  <2> QED
    BY <1>1, <1>6, <2>1 DEF Reached
<1> HIDE DEF v, node, new
<1>8. ASSUME NEW w, Trail(g, w) PROVE Trail(heap, w) \/ w = v
  <2>1. Ends(w) \in Live \cup {n}
    BY <1>1, <1>2, <1>8, OnTrail
  <2>2. ASSUME Ends(w) = n PROVE w = v
    <3>1. n \in DOMAIN g
      BY <1>1
    <3>2. v = TrailTo(g, n)
      BY <1>2, <1>6, <1>7, <3>1, TrailsLead
    <3>3. w = TrailTo(g, n)
      BY <1>2, <1>7, <1>8, <2>2, <3>1, TrailsLead
    <3> QED
      BY <3>2, <3>3
  <2>3. ASSUME Ends(w) \in Live PROVE Trail(heap, w)
    <3>1. PICK u : Trail(heap, u) /\ Ends(u) = Ends(w)
      BY <2>3 DEF Reached, Live
    <3>2. Trail(g, u) /\ Ends(w) \in DOMAIN g
      BY <1>1, <1>5, <2>3, <3>1
    <3>3. u = w
      BY <1>2, <1>7, <1>8, <3>1, <3>2, TrailsLead
    <3> QED
      BY <3>1, <3>3
  <2>4. CASE Ends(w) = n
    BY <2>2, <2>4
  <2>5. CASE Ends(w) \in Live
    BY <2>3, <2>5
  <2> QED
    BY <2>1, <2>4, <2>5
<1>9. /\ DOMAIN T = DOMAIN TreeOf(heap) \cup {new} /\ T = [q \in DOMAIN T |-> T[q]]
      /\ \A q \in DOMAIN T : T[q] = IF q = new THEN node ELSE TreeOf(heap)[q]
  BY DEF Abstract!Put
<1> HIDE DEF T
<1>10. \A q \in DOMAIN T : \E u : Trail(g, u) /\ Indices(g, u) = q
  BY <1>5, <1>6, <1>9, TreeIs
<1>11. ASSUME NEW u, Trail(g, u)
       PROVE  Indices(g, u) \in DOMAIN T /\ T[Indices(g, u)] = Node(g, Ends(u))
  <2>1. CASE u = v
    BY <1>6, <1>9, <2>1
  <2>2. CASE Trail(heap, u)
    <3>1. Indices(g, u) \in DOMAIN TreeOf(heap)
          /\ TreeOf(heap)[Indices(g, u)] = Node(g, Ends(u))
      BY <1>5, <2>2, TreeIs
    <3>2. Indices(g, u) = new => u = v
      BY <1>2, <1>6, <1>11, OneTrail
    <3> QED
      BY <1>9, <2>1, <3>1, <3>2
  <2> QED
    BY <1>8, <1>11, <2>1, <2>2
<1>12. TreeOf(g) = T
  BY <1>2, <1>7, <1>9, <1>10, <1>11, SameTree
<1> QED
  BY <1>7, <1>12 DEF g, T, new, node

\* The trails of a heap whose settings have other types and hooks than before.
LEMMA SameTrails ==
  ASSUME NEW h, Shaped(h), Reached(h), NEW g, Shaped(g), DOMAIN g = DOMAIN h,
         \A n \in DOMAIN h : g[n].parent = h[n].parent /\ g[n].elems = h[n].elems
  PROVE  /\ Reached(g)
         /\ \A t : Trail(g, t) <=> Trail(h, t)
         /\ \A t : Trail(h, t) => Indices(g, t) = Indices(h, t)
<1>1. ASSUME NEW t PROVE Trail(g, t) <=> Trail(h, t)
  <2>1. ASSUME t \in Seq(DOMAIN h) PROVE \A k \in 1..(Len(t) - 1) : t[k + 1] \in DOMAIN h
    BY <2>1
  <2> QED
    BY <2>1 DEF Trail
<1>2. Reached(g)
  BY <1>1 DEF Reached
<1>3. ASSUME NEW t, Trail(h, t) PROVE Indices(g, t) = Indices(h, t)
  <2>1. ASSUME NEW k \in 1..(Len(t) - 1) PROVE IndexOf(g, t[k + 1]) = IndexOf(h, t[k + 1])
    <3>1. t[k + 1] \in DOMAIN h \ {Root}
      BY <1>3, PathTypes
    <3>2. h[t[k + 1]].parent \in DOMAIN h
      BY <3>1, Parents
    <3> QED
      BY <3>1, <3>2 DEF IndexOf
  <2> QED
    BY <2>1 DEF Indices
<1> QED
  BY <1>1, <1>2, <1>3

\* Hooks are not in the tree.
LEMMA SameNodes ==
  ASSUME NEW h, Shaped(h), Reached(h), NEW g, Shaped(g), DOMAIN g = DOMAIN h,
         \A n \in DOMAIN h : /\ g[n].parent = h[n].parent /\ g[n].elems = h[n].elems
                             /\ Node(g, n) = Node(h, n)
  PROVE  Reached(g) /\ TreeOf(g) = TreeOf(h)
<1>1. /\ Reached(g)
      /\ \A t : Trail(g, t) <=> Trail(h, t)
      /\ \A t : Trail(h, t) => Indices(g, t) = Indices(h, t)
  BY SameTrails
<1> DEFINE T == TreeOf(h)
<1>2. T = [p \in DOMAIN T |-> T[p]]
  BY TreeIs
<1>3. \A p \in DOMAIN T : \E t : Trail(g, t) /\ Indices(g, t) = p
  BY <1>1, TreeIs
<1>4. ASSUME NEW t, Trail(g, t)
      PROVE  Indices(g, t) \in DOMAIN T /\ T[Indices(g, t)] = Node(g, Ends(t))
  <2>1. Ends(t) \in DOMAIN h
    BY <1>1, <1>4, OnTrail
  <2> QED
    BY <1>1, <1>4, <2>1, TreeIs
<1> HIDE DEF T
<1>5. TreeOf(g) = T
  BY <1>1, <1>2, <1>3, <1>4, SameTree
<1> QED
  BY <1>1, <1>5 DEF T

\* The first value of a setting gives its node a type.
LEMMA TypedTree ==
  ASSUME NEW h, Shaped(h), Reached(h), NEW n \in DOMAIN h, NEW type,
         NEW g, Shaped(g), DOMAIN g = DOMAIN h,
         \A m \in DOMAIN h : /\ g[m].parent = h[m].parent /\ g[m].elems = h[m].elems
                             /\ g[m].name = h[m].name
                             /\ g[m].type = IF m = n THEN type ELSE h[m].type
  PROVE  /\ Reached(g)
         /\ TreeOf(g) = [TreeOf(h) EXCEPT ![Indices(h, TrailTo(h, n))].type = type]
<1>1. /\ Reached(g)
      /\ \A t : Trail(g, t) <=> Trail(h, t)
      /\ \A t : Trail(h, t) => Indices(g, t) = Indices(h, t)
  BY SameTrails
<1> DEFINE d == Indices(h, TrailTo(h, n))
           S == TreeOf(h)
           T == [S EXCEPT ![d].type = type]
<1>2. /\ Trail(h, TrailTo(h, n)) /\ Ends(TrailTo(h, n)) = n
      /\ \A t : Trail(h, t) /\ Ends(t) = n => t = TrailTo(h, n)
  BY TrailsLead
<1>3. S = [p \in DOMAIN S |-> S[p]] /\ d \in DOMAIN S /\ S[d] = Node(h, n)
  BY <1>2, TreeIs
<1> HIDE DEF S
<1> DEFINE node == [name |-> h[n].name, type |-> type]
<1> HIDE DEF d
<1>4. /\ T = [p \in DOMAIN T |-> T[p]] /\ DOMAIN T = DOMAIN S
      /\ \A p \in DOMAIN S : p # d => T[p] = S[p]
      /\ T[d] = node
  <2>1. [S[d] EXCEPT !.type = type] = node
    BY <1>3 DEF Node
  <2> QED
    BY <1>3, <2>1
<1> HIDE DEF T, node
<1>5. \A p \in DOMAIN T : \E t : Trail(g, t) /\ Indices(g, t) = p
  BY <1>1, <1>4, TreeIs DEF S
<1>6. ASSUME NEW t, Trail(g, t)
      PROVE  Indices(g, t) \in DOMAIN T /\ T[Indices(g, t)] = Node(g, Ends(t))
  <2>1. /\ Ends(t) \in DOMAIN h /\ Trail(h, t) /\ Indices(g, t) = Indices(h, t)
        /\ Indices(h, t) \in DOMAIN S /\ S[Indices(h, t)] = Node(h, Ends(t))
    BY <1>1, <1>6, OnTrail, TreeIs DEF S
  <2>2. CASE Ends(t) = n
    <3>1. Indices(g, t) = d
      BY <1>2, <2>1, <2>2 DEF d
    <3>2. Node(g, Ends(t)) = node
      BY <2>2 DEF Node, node
    <3> QED
      BY <1>4, <2>1, <3>1, <3>2
  <2>3. CASE Ends(t) # n
    <3>1. Indices(h, t) # d
      BY <1>2, <2>1, <2>3, OneTrail DEF d
    <3>2. Node(g, Ends(t)) = Node(h, Ends(t))
      BY <2>1, <2>3 DEF Node
    <3> QED
      BY <1>4, <2>1, <3>1, <3>2
  <2> QED
    BY <2>2, <2>3
<1>7. TreeOf(g) = T
  BY <1>1, <1>4, <1>5, <1>6, SameTree
<1> QED
  BY <1>1, <1>7 DEF T, S, d

\* What config_setting_remove_elem leaves as it was, and what it takes.
IsRemoved(g, p, i) ==
  LET c == heap[p].elems[i]
      gone == Subtree(c)
  IN  /\ DOMAIN g = Live \ gone /\ gone \subseteq Live /\ c \in gone /\ Root \notin gone
      /\ \A m \in gone : \A j \in DOMAIN heap[m].elems : heap[m].elems[j] \in gone
      /\ \A m \in gone \ {c} : heap[m].parent \in gone
      /\ \A m \in DOMAIN g :
           /\ g[m].name = heap[m].name /\ g[m].type = heap[m].type
           /\ g[m].parent = heap[m].parent
           /\ g[m].elems = IF m = p THEN RemoveAt(heap[p].elems, i) ELSE heap[m].elems

LEMMA RemovedIs ==
  ASSUME Shaped(heap), NEW p \in Live, NEW i \in DOMAIN heap[p].elems
  PROVE  IsRemoved([m \in Live \ Subtree(heap[p].elems[i]) |-> ListRemove(p, i)[m]], p, i)
<1> DEFINE c == heap[p].elems[i]
           gone == Subtree(c)
           g == [m \in Live \ gone |-> ListRemove(p, i)[m]]
           left == RemoveAt(heap[p].elems, i)
<1>1. c \in Live \ {Root}
  BY Parents DEF Live
<1>2. /\ gone \subseteq Live /\ c \in gone /\ Root \notin gone
      /\ \A m \in gone : \A j \in DOMAIN heap[m].elems : heap[m].elems[j] \in gone
      /\ \A m \in gone \ {c} : heap[m].parent \in gone
  BY <1>1, SubtreeClosed
<1> HIDE DEF gone, c
<1>3. DOMAIN g = Live \ gone /\ heap[p] \in Record
  BY DEF Shaped, Typed, Live
<1>4. ASSUME NEW m \in DOMAIN g
      PROVE  /\ g[m].name = heap[m].name /\ g[m].type = heap[m].type
             /\ g[m].parent = heap[m].parent
             /\ g[m].elems = IF m = p THEN left ELSE heap[m].elems
  <2>1. CASE m = p
    <3>1. g[m] = [heap[p] EXCEPT !.elems = left]
      BY <1>4, <2>1 DEF ListRemove, Live
    <3> HIDE DEF g, left
    <3> QED
      BY <1>3, <2>1, <3>1 DEF Record
  <2>2. CASE m # p
    <3>1. g[m] = heap[m]
      BY <1>4, <2>2 DEF ListRemove, Live
    <3> QED
      BY <2>2, <3>1
  <2> QED
    BY <2>1, <2>2
<1> HIDE DEF g
<1> QED
  BY <1>2, <1>3, <1>4 DEF IsRemoved, c, gone, g

\* What is removed of a trail is what comes after the element removed.
LEMMA Doomed ==
  ASSUME Shaped(heap), NEW p \in Live, NEW i \in DOMAIN heap[p].elems,
         NEW g, IsRemoved(g, p, i),
         NEW u, Trail(heap, u), NEW k \in 1..Len(u)
  PROVE  u[k] \in Subtree(heap[p].elems[i]) <=> \E j \in 1..k : u[j] = heap[p].elems[i]
<1> DEFINE c == heap[p].elems[i]
           gone == Subtree(c)
           Same(n) == n \in 1..Len(u) => (u[n] \in gone <=> \E j \in 1..n : u[j] = c)
           S == {n \in Nat : Same(n)}
<1>1. /\ c \in gone /\ Root \notin gone
      /\ \A m \in gone : \A j \in DOMAIN heap[m].elems : heap[m].elems[j] \in gone
      /\ \A m \in gone \ {c} : heap[m].parent \in gone
  BY DEF IsRemoved
<1>2. /\ Len(u) \in Nat
      /\ \A n \in 1..(Len(u) - 1) : /\ heap[u[n + 1]].parent = u[n]
                                    /\ IndexOf(heap, u[n + 1]) \in DOMAIN heap[u[n]].elems
                                    /\ heap[u[n]].elems[IndexOf(heap, u[n + 1])] = u[n + 1]
      /\ u[1] = Root
  BY PathTypes, OnTrail DEF Trail
<1> HIDE DEF gone, c
<1>3. 0 \in S
  OBVIOUS
<1>4. ASSUME NEW n \in S PROVE n + 1 \in S
  <2> SUFFICES ASSUME n + 1 \in 1..Len(u)
               PROVE  u[n + 1] \in gone <=> \E j \in 1..(n + 1) : u[j] = c
    OBVIOUS
  <2>1. CASE n = 0
    <3>1. 1..(n + 1) = {1}
      BY <2>1
    <3> QED
      BY <1>1, <1>2, <2>1, <3>1
  <2>2. CASE n > 0
    <3>1. n \in 1..(Len(u) - 1) /\ n \in 1..Len(u) /\ 1..(n + 1) = 1..n \cup {n + 1}
      BY <1>2, <2>2
    <3>2. u[n] \in gone <=> \E j \in 1..n : u[j] = c
      BY <3>1
    <3>3. u[n + 1] \in gone <=> u[n + 1] = c \/ u[n] \in gone
      BY <1>1, <1>2, <3>1
    <3> QED
      BY <3>1, <3>2, <3>3
  <2> QED
    BY <2>1, <2>2
<1>5. S = Nat
  <2>1. S \in SUBSET Nat
    OBVIOUS
  <2> HIDE DEF S
  <2> QED
    BY <1>3, <1>4, <2>1, SetInduction
<1>6. k \in S
  <2>1. k \in Nat
    BY <1>2
  <2> HIDE DEF S
  <2> QED
    BY <1>5, <2>1
<1> QED
  BY <1>6 DEF gone, c

\* The trail of the element removed leads every trail that goes.
LEMMA Kept ==
  ASSUME Shaped(heap), NEW p \in Live, NEW i \in DOMAIN heap[p].elems,
         NEW g, IsRemoved(g, p, i), NEW t, Trail(heap, t), Ends(t) = p,
         NEW u, Trail(heap, u)
  PROVE  Ends(u) \in Subtree(heap[p].elems[i])
           <=> Abstract!Within(Indices(heap, u), Append(Indices(heap, t), i))
<1> DEFINE c == heap[p].elems[i]
           gone == Subtree(c)
           v == Append(t, c)
           d == Append(Indices(heap, t), i)
           q == Indices(heap, u)
           l == Len(t)
<1>1. Trail(heap, v) /\ Ends(v) = c /\ Indices(heap, v) = d
  BY Onward DEF Live
<1>2. /\ l \in Nat /\ Len(u) \in Nat /\ Len(u) >= 1 /\ Len(v) = l + 1 /\ Len(q) = Len(u) - 1
      /\ v[l + 1] = c
  <2>1. t \in Seq(Live) /\ l \in Nat
    BY DEF Trail, Live
  <2>2. Len(u) \in Nat \ {0} /\ Len(q) = Len(u) - 1
    BY OnTrail, PathTypes
  <2>3. Len(v) = l + 1 /\ v[l + 1] = c
    <3> HIDE DEF c
    <3> QED
      BY <2>1
  <2> QED
    BY <2>1, <2>2, <2>3
<1>3. Len(d) = l
  <2>1. Len(d) = Len(v) - 1
    <3> HIDE DEF v, d
    <3> QED
      BY <1>1, PathTypes
  <2> QED
    BY <1>2, <2>1
<1>4. Ends(u) \in gone <=> \E j \in 1..Len(u) : u[j] = c
  <2> DEFINE k == Len(u)
  <2>1. k \in 1..Len(u)
    BY <1>2
  <2> HIDE DEF k
  <2>2. u[k] \in gone <=> \E j \in 1..k : u[j] = c
    BY <2>1, Doomed
  <2> QED
    BY <2>2 DEF k, Ends
<1> HIDE DEF v, d, q, c, gone
<1>5. \A k \in 1..(Len(u) - 1) : q[k] = IndexOf(heap, u[k + 1])
  BY PathTypes DEF q
<1>6. \A k \in 1..l : d[k] = IndexOf(heap, v[k + 1])
  <2>1. \A k \in 1..(Len(v) - 1) : Indices(heap, v)[k] = IndexOf(heap, v[k + 1])
    BY <1>1, PathTypes
  <2> QED
    BY <1>1, <1>2, <2>1
<1>7. ASSUME NEW j \in 1..Len(u), u[j] = c PROVE Abstract!Within(q, d)
  <2> DEFINE e == l + 1
  <2>1. e \in 1..Len(v) /\ v[e] = u[j]
    BY <1>2, <1>7
  <2>2. e = j /\ \A k \in 1..e : v[k] = u[k]
    <3> HIDE DEF e
    <3> QED
      BY <1>1, <2>1, Meet
  <2>3. Len(q) >= l
    BY <1>2, <2>2
  <2>4. ASSUME NEW k \in 1..l PROVE q[k] = d[k]
    <3>1. k \in 1..(Len(u) - 1) /\ k + 1 \in 1..e
      BY <1>2, <2>2
    <3> QED
      BY <1>5, <1>6, <2>2, <3>1
  <2> QED
    BY <1>3, <2>3, <2>4 DEF Abstract!Within
<1>8. ASSUME Abstract!Within(q, d) PROVE \E j \in 1..Len(u) : u[j] = c
  <2> DEFINE e == l + 1
  <2>1. Len(q) >= l /\ \A k \in 1..l : q[k] = d[k]
    BY <1>3, <1>8 DEF Abstract!Within
  <2>2. e \in Nat /\ e <= Len(u) /\ e <= Len(v)
    BY <1>2, <2>1
  <2>3. \A k \in 1..(e - 1) : IndexOf(heap, u[k + 1]) = IndexOf(heap, v[k + 1])
    <3> TAKE k \in 1..(e - 1)
    <3>1. k \in 1..l /\ k \in 1..(Len(u) - 1)
      BY <1>2, <2>2
    <3> QED
      BY <1>5, <1>6, <2>1, <3>1
  <2>4. u[e] = v[e] /\ e \in 1..Len(u)
    <3>1. e \in 1..e /\ e \in 1..Len(u)
      BY <1>2, <2>2
    <3> HIDE DEF e
    <3> QED
      BY <1>1, <2>2, <2>3, <3>1, Follow
  <2> QED
    BY <1>2, <2>4
<1> QED
  BY <1>4, <1>7, <1>8 DEF c, gone, d, q

\* The trails that are left, ...
LEMMA LeftTrails ==
  ASSUME Shaped(heap), Reached(heap), NEW p \in Live, NEW i \in DOMAIN heap[p].elems,
         NEW g, IsRemoved(g, p, i)
  PROVE  /\ \A u : Trail(g, u) <=> Trail(heap, u) /\ Ends(u) \notin Subtree(heap[p].elems[i])
         /\ Reached(g)
<1> DEFINE c == heap[p].elems[i]
           gone == Subtree(c)
<1>1. /\ DOMAIN g = Live \ gone /\ gone \subseteq Live /\ Root \notin gone
      /\ \A m \in DOMAIN g : g[m].parent = heap[m].parent
  BY DEF IsRemoved
<1>2. ASSUME NEW u, Trail(g, u) PROVE Trail(heap, u) /\ Ends(u) \notin gone
  <2> HIDE DEF gone
  <2>1. /\ u \in Seq(Live \ gone) /\ Len(u) >= 1 /\ u[1] = Root /\ u \in Seq(Live)
        /\ \A k \in 1..(Len(u) - 1) : g[u[k + 1]].parent = u[k]
    BY <1>1, <1>2 DEF Trail
  <2>2. Len(u) \in Nat /\ \A k \in 1..Len(u) : u[k] \in Live \ gone
    BY <2>1
  <2>3. ASSUME NEW k \in 1..(Len(u) - 1) PROVE heap[u[k + 1]].parent = u[k]
    <3>1. k + 1 \in 1..Len(u)
      BY <2>2
    <3> QED
      BY <1>1, <2>1, <2>2, <3>1
  <2> QED
    BY <2>1, <2>2, <2>3 DEF Trail, Ends, Live
<1>3. ASSUME NEW u, Trail(heap, u), Ends(u) \notin gone PROVE Trail(g, u)
  <2> DEFINE n == Len(u)
  <2>1. /\ n \in Nat \ {0} /\ u[1] = Root /\ u = [k \in 1..n |-> u[k]]
        /\ \A k \in 1..n : u[k] \in Live
        /\ \A k \in 1..(n - 1) : heap[u[k + 1]].parent = u[k]
    BY <1>3, OnTrail DEF Trail, Live
  <2>2. ASSUME NEW k \in 1..n, u[k] \in gone PROVE FALSE
    <3>1. PICK j \in 1..k : u[j] = c
      BY <1>3, <2>2, Doomed
    <3>2. n \in 1..Len(u) /\ j \in 1..n
      BY <2>1
    <3> HIDE DEF n
    <3>3. u[n] \in gone
      BY <1>3, <3>1, <3>2, Doomed
    <3> QED
      BY <1>3, <3>3 DEF n, Ends
  <2>3. \A k \in 1..n : u[k] \in DOMAIN g
    BY <1>1, <2>1, <2>2
  <2>4. u \in Seq(DOMAIN g)
    <3> HIDE DEF n
    <3> QED
      BY <2>1, <2>3
  <2>5. \A k \in 1..(n - 1) : k + 1 \in 1..n
    BY <2>1
  <2> QED
    BY <1>1, <2>1, <2>3, <2>4, <2>5 DEF Trail
<1>4. Reached(g)
  <2> SUFFICES ASSUME NEW m \in DOMAIN g PROVE \E u : Trail(g, u) /\ Ends(u) = m
    BY DEF Reached
  <2>1. m \in Live \ gone
    BY <1>1
  <2>2. PICK u : Trail(heap, u) /\ Ends(u) = m
    BY <2>1 DEF Reached, Live
  <2> QED
    BY <1>3, <2>1, <2>2
<1> QED
  BY <1>2, <1>3, <1>4

\* ... where an element that is left has gone, ...
LEMMA LeftIndex ==
  ASSUME Shaped(heap), NEW p \in Live, NEW i \in DOMAIN heap[p].elems,
         NEW g, IsRemoved(g, p, i), Shaped(g), NEW m \in DOMAIN g \ {Root}
  PROVE  LET j == IndexOf(heap, m)
         IN  IndexOf(g, m) = IF heap[m].parent = p /\ j > i THEN j - 1 ELSE j
<1> DEFINE e == heap[p].elems
           q == heap[m].parent
           j == IndexOf(heap, m)
           k == IF q = p /\ j > i THEN j - 1 ELSE j
<1>1. /\ m \in Live \ {Root} /\ m # e[i] /\ g[m].parent = q
      /\ q \in DOMAIN g => g[q].elems = IF q = p THEN RemoveAt(e, i) ELSE heap[q].elems
  BY DEF IsRemoved
<1>2. q \in Live /\ j \in DOMAIN heap[q].elems /\ heap[q].elems[j] = m
  BY <1>1, Parents DEF Live
<1>3. q \in DOMAIN g
  BY <1>1, Parents
<1>4. /\ RemoveAt(e, i) \in Seq(Nodes) /\ Len(RemoveAt(e, i)) = Len(e) - 1
      /\ \A x \in 1..(Len(e) - 1) : RemoveAt(e, i)[x] = IF x < i THEN e[x] ELSE e[x + 1]
      /\ Len(e) \in Nat /\ i \in 1..Len(e) /\ DOMAIN e = 1..Len(e)
  <2>1. e \in Seq(Nodes) /\ i \in DOMAIN e
    BY Parents DEF Live
  <2> HIDE DEF e
  <2> QED
    BY <2>1, RemovedElem
<1> HIDE DEF q, j, e
<1>5. k \in DOMAIN g[q].elems /\ g[q].elems[k] = m
  <2>1. CASE q = p
    <3>1. j \in 1..Len(e) /\ e[j] = m /\ j # i
      BY <1>1, <1>2, <1>4, <2>1 DEF e
    <3>2. k \in 1..(Len(e) - 1) /\ k = IF j > i THEN j - 1 ELSE j
      BY <1>4, <2>1, <3>1
    <3>3. RemoveAt(e, i)[k] = e[j]
      <4> DEFINE left == RemoveAt(e, i)
      <4>1. left[k] = IF k < i THEN e[k] ELSE e[k + 1]
        BY <1>4, <3>2
      <4>2. /\ k \in Nat /\ j \in Nat /\ i \in Nat
            /\ k < i => k = j
            /\ ~ (k < i) => k + 1 = j
        BY <1>4, <3>1, <3>2
      <4> HIDE DEF left, k
      <4> QED
        BY <4>1, <4>2 DEF left
    <3>4. DOMAIN RemoveAt(e, i) = 1..(Len(e) - 1)
      BY <1>4
    <3> QED
      BY <1>1, <1>3, <2>1, <3>1, <3>2, <3>3, <3>4
  <2>2. CASE q # p
    BY <1>1, <1>2, <1>3, <2>2
  <2> QED
    BY <2>1, <2>2
<1> HIDE DEF k
<1>6. IndexOf(g, g[q].elems[k]) = k
  BY <1>3, <1>5, Parents
<1> QED
  BY <1>5, <1>6 DEF k, q, j

Moved(q, d) == IF Abstract!Behind(q, d) THEN [q EXCEPT ![Len(d)] = @ - 1] ELSE q

\* ... and the path it is found at.
LEMMA LeftIndices ==
  ASSUME Shaped(heap), Reached(heap), NEW p \in Live, NEW i \in DOMAIN heap[p].elems,
         NEW g, IsRemoved(g, p, i), Shaped(g), NEW t, Trail(heap, t), Ends(t) = p,
         NEW u, Trail(g, u)
  PROVE  Indices(g, u) = Moved(Indices(heap, u), Append(Indices(heap, t), i))
<1> DEFINE d == Append(Indices(heap, t), i)
           q == Indices(heap, u)
           r == Indices(g, u)
           l == Len(t)
           n == Len(u) - 1
<1>1. Trail(heap, u)
  BY LeftTrails
<1>2. /\ n \in Nat /\ Len(u) \in Nat /\ Len(q) = n /\ q = [k \in 1..n |-> IndexOf(heap, u[k + 1])]
      /\ r = [k \in 1..n |-> IndexOf(g, u[k + 1])]
      /\ \A k \in 1..n : heap[u[k + 1]].parent = u[k] /\ q[k] \in Nat
  <2>1. Len(u) \in Nat \ {0}
    BY <1>1, OnTrail
  <2>2. Len(q) = n /\ \A k \in 1..n : heap[u[k + 1]].parent = u[k]
    BY <1>1, PathTypes
  <2>3. \A k \in 1..n : q[k] \in Nat
    <3> HIDE DEF q, n
    <3>1. q \in Seq(Nat)
      BY <1>1, PathTypes DEF q
    <3> QED
      BY <2>2, <3>1
  <2> QED
    BY <2>1, <2>2, <2>3 DEF Indices
<1>3. \A k \in 1..n : u[k + 1] \in DOMAIN g \ {Root}
  BY PathTypes
<1>4. /\ l \in Nat \ {0} /\ t[l] = p /\ Len(d) = l /\ d[l] = i /\ i \in Nat
      /\ \A k \in 1..(l - 1) : d[k] = IndexOf(heap, t[k + 1])
  <2>1. Indices(heap, t) \in Seq(Nat) /\ Len(Indices(heap, t)) = l - 1 /\ l \in Nat \ {0}
    BY PathTypes, OnTrail
  <2>2. i \in Nat
    BY Parents DEF Live
  <2>3. \A k \in 1..(l - 1) : Indices(heap, t)[k] = IndexOf(heap, t[k + 1])
    BY DEF Indices
  <2>4. t[l] = p
    BY DEF Ends
  <2> DEFINE x == Indices(heap, t)
  <2>5. x \in Seq(Nat) /\ Len(x) = l - 1 /\ \A k \in 1..(l - 1) : x[k] = IndexOf(heap, t[k + 1])
    BY <2>1, <2>3
  <2> HIDE DEF x, l
  <2>6. Len(Append(x, i)) = l /\ Append(x, i)[l] = i /\ \A k \in 1..(l - 1) : Append(x, i)[k] = x[k]
    BY <2>1, <2>2, <2>5
  <2> QED
    BY <2>1, <2>2, <2>4, <2>5, <2>6 DEF x
<1> HIDE DEF d, q, r, l
\* Which settings of the trail are elements of p
<1>5. ASSUME NEW k \in 1..n
      PROVE  u[k] = p <=> (k = l /\ \A x \in 1..(l - 1) : q[x] = d[x])
  <2>1. ASSUME u[k] = p PROVE k = l /\ \A x \in 1..(l - 1) : q[x] = d[x]
    <3>1. k \in 1..Len(u) /\ l \in 1..Len(t) /\ t[l] = u[k]
      BY <1>2, <1>4, <2>1 DEF l
    <3>2. l = k /\ \A x \in 1..l : t[x] = u[x]
      BY <1>1, <3>1, Meet
    <3>3. \A x \in 1..(l - 1) : x \in 1..n /\ x + 1 \in 1..l
      BY <1>2, <1>4, <3>2
    <3> QED
      BY <1>2, <1>4, <3>2, <3>3
  <2>2. ASSUME k = l, \A x \in 1..(l - 1) : q[x] = d[x] PROVE u[k] = p
    <3>1. l \in Nat /\ l <= Len(t) /\ l <= Len(u) /\ l \in 1..l
      BY <1>2, <1>4, <2>2 DEF l
    <3>2. \A x \in 1..(l - 1) : IndexOf(heap, t[x + 1]) = IndexOf(heap, u[x + 1])
      <4> TAKE x \in 1..(l - 1)
      <4>1. x \in 1..n
        BY <1>2, <1>4, <2>2
      <4> QED
        BY <1>2, <1>4, <2>2, <4>1
    <3>3. t[l] = u[l]
      BY <1>1, <3>1, <3>2, Follow
    <3> QED
      BY <1>4, <2>2, <3>3
  <2> QED
    BY <2>1, <2>2
<1>6. ASSUME NEW k \in 1..n PROVE r[k] = IF u[k] = p /\ q[k] > i THEN q[k] - 1 ELSE q[k]
  <2> DEFINE m == u[k + 1]
  <2>1. m \in DOMAIN g \ {Root} /\ heap[m].parent = u[k] /\ q[k] = IndexOf(heap, m)
        /\ r[k] = IndexOf(g, m)
    BY <1>2, <1>3
  <2> HIDE DEF m
  <2> QED
    BY <2>1, LeftIndex
<1>7. CASE Abstract!Behind(q, d)
  <2>1. Len(q) >= l /\ q[l] > i /\ \A x \in 1..(l - 1) : q[x] = d[x]
    BY <1>4, <1>7 DEF Abstract!Behind
  <2>2. l \in 1..n
    BY <1>2, <1>4, <2>1
  <2>3. \A k \in 1..n : r[k] = IF k = l THEN q[k] - 1 ELSE q[k]
    BY <1>5, <1>6, <2>1, <2>2
  <2>4. Moved(q, d) = [q EXCEPT ![l] = q[l] - 1]
    BY <1>4, <1>7 DEF Moved
  <2> HIDE DEF n
  <2>5. [q EXCEPT ![l] = q[l] - 1] = [k \in 1..n |-> IF k = l THEN q[k] - 1 ELSE q[k]]
    BY <1>2, <2>2
  <2>6. r = [k \in 1..n |-> r[k]]
    BY <1>2
  <2> QED
    BY <2>3, <2>4, <2>5, <2>6 DEF d, q, r
<1>8. CASE ~ Abstract!Behind(q, d)
  <2>1. ASSUME NEW k \in 1..n PROVE r[k] = q[k]
    <3>1. ASSUME u[k] = p, q[k] > i PROVE Abstract!Behind(q, d)
      <4>1. k = l /\ \A x \in 1..(l - 1) : q[x] = d[x]
        BY <1>5, <3>1
      <4>2. Len(q) >= l /\ q[l] > d[l]
        BY <1>2, <1>4, <3>1, <4>1
      <4> QED
        BY <1>4, <4>1, <4>2 DEF Abstract!Behind
    <3> QED
      BY <1>6, <1>8, <3>1
  <2> HIDE DEF n
  <2>2. r = [k \in 1..n |-> r[k]] /\ q = [k \in 1..n |-> q[k]]
    BY <1>2
  <2>3. Moved(q, d) = q
    BY <1>8 DEF Moved
  <2> QED
    BY <2>1, <2>2, <2>3 DEF d, q, r
<1> QED
  BY <1>7, <1>8

\* So the node of the element goes, with all below it, and those behind it move up.
LEMMA RemovedTree ==
  ASSUME Shaped(heap), Reached(heap), NEW p \in Live, NEW i \in DOMAIN heap[p].elems,
         NEW g, IsRemoved(g, p, i), Shaped(g), NEW t, Trail(heap, t), Ends(t) = p
  PROVE  /\ Reached(g)
         /\ TreeOf(g) = Abstract!Without(TreeOf(heap), Append(Indices(heap, t), i))
<1> DEFINE d == Append(Indices(heap, t), i)
           gone == Subtree(heap[p].elems[i])
           tree == TreeOf(heap)
           kept == {q \in DOMAIN tree : ~ Abstract!Within(q, d)}
           was(r) == CHOOSE q \in kept : Moved(q, d) = r
           T == [r \in {Moved(q, d) : q \in kept} |-> tree[was(r)]]
<1>1. /\ \A u : Trail(g, u) <=> Trail(heap, u) /\ Ends(u) \notin gone
      /\ Reached(g)
  BY LeftTrails
<1>2. ASSUME NEW u, Trail(g, u)
      PROVE  /\ Indices(heap, u) \in kept /\ tree[Indices(heap, u)] = Node(heap, Ends(u))
             /\ Indices(g, u) = Moved(Indices(heap, u), d)
             /\ Node(g, Ends(u)) = Node(heap, Ends(u))
  <2>1. Trail(heap, u) /\ Ends(u) \notin gone
    BY <1>1, <1>2
  <2>2. ~ Abstract!Within(Indices(heap, u), d)
    BY <2>1, Kept
  <2>3. Indices(heap, u) \in DOMAIN tree /\ tree[Indices(heap, u)] = Node(heap, Ends(u))
    BY <2>1, TreeIs
  <2>4. Indices(g, u) = Moved(Indices(heap, u), d)
    BY <1>2, LeftIndices
  <2>5. Ends(u) \in DOMAIN g
    BY <1>2, OnTrail
  <2> QED
    BY <2>2, <2>3, <2>4, <2>5 DEF Node, IsRemoved
<1>3. ASSUME NEW q \in kept PROVE \E u : Trail(g, u) /\ Indices(heap, u) = q
  <2>1. PICK u : Trail(heap, u) /\ Indices(heap, u) = q
    BY TreeIs
  <2>2. Ends(u) \notin gone
    BY <2>1, Kept
  <2> QED
    BY <1>1, <2>1, <2>2
<1>4. Abstract!Without(tree, d) = T
  BY DEF Abstract!Without, Moved
<1> HIDE DEF kept, tree, d, gone
<1>5. /\ T = [r \in DOMAIN T |-> T[r]] /\ DOMAIN T = {Moved(q, d) : q \in kept}
      /\ \A r \in DOMAIN T : T[r] = tree[was(r)]
  OBVIOUS
<1> HIDE DEF T
<1>6. ASSUME NEW r \in DOMAIN T PROVE \E u : Trail(g, u) /\ Indices(g, u) = r
  <2>1. PICK q \in kept : r = Moved(q, d)
    BY <1>5
  <2>2. PICK u : Trail(g, u) /\ Indices(heap, u) = q
    BY <1>3
  <2> QED
    BY <1>2, <2>1, <2>2
<1>7. ASSUME NEW u, Trail(g, u)
      PROVE  Indices(g, u) \in DOMAIN T /\ T[Indices(g, u)] = Node(g, Ends(u))
  <2> DEFINE q == Indices(heap, u)
             r == Indices(g, u)
  <2>1. q \in kept /\ tree[q] = Node(heap, Ends(u)) /\ r = Moved(q, d)
        /\ Node(g, Ends(u)) = Node(heap, Ends(u))
    BY <1>2, <1>7
  <2> HIDE DEF q, r
  <2>2. was(r) \in kept /\ Moved(was(r), d) = r
    BY <2>1
  <2>3. PICK w : Trail(g, w) /\ Indices(heap, w) = was(r)
    BY <1>3, <2>2
  <2>4. Indices(g, w) = r
    BY <1>2, <2>2, <2>3
  <2>5. w = u
    BY <1>7, <2>3, <2>4, OneTrail DEF r
  <2>6. was(r) = q
    BY <2>3, <2>5 DEF q
  <2>7. r \in DOMAIN T
    BY <1>5, <2>1
  <2> HIDE DEF was
  <2> QED
    BY <1>5, <2>1, <2>6, <2>7 DEF r
<1>8. TreeOf(g) = T
  BY <1>1, <1>5, <1>6, <1>7, SameTree
<1> QED
  BY <1>1, <1>4, <1>8 DEF tree, d

-----------------------------------------------------------------------------
(* The refinement.                                                         *)

\* Creating a setting adds a node.
LEMMA CreateMaps ==
  ASSUME IInv, Reached(heap),
         NEW p \in Live, NEW name \in Names \cup {Nil}, NEW type \in Types,
         heap[p].type \in Aggregates,
         name # Nil <=> heap[p].type = "GROUP",
         \A i \in DOMAIN heap[p].elems : name # Nil => heap[heap[p].elems[i]].name # name,
         Create(p, name, type)
  PROVE  Reached(heap)' /\ Abstract!Next
<1> DEFINE e == heap[p].elems
           tree == TreeOf(heap)
           i == Len(e) + 1
           node == [name |-> name, type |-> type]
<1>1. PICK n \in Nodes \ Live : heap' = Created(p, n, name, type)
  BY DEF Create
<1>2. PICK t : Trail(heap, t) /\ Ends(t) = p
  BY DEF Reached, Live
<1> DEFINE d == Indices(heap, t)
           new == Append(d, i)
<1>3. Shaped(heap) /\ Shaped(Created(p, n, name, type))
  BY CreatedKeeps DEF IInv
<1>4. Reached(heap') /\ TreeOf(heap') = Abstract!Put(tree, new, node)
  BY <1>1, <1>2, <1>3, CreatedTree
<1>5. /\ new \in DOMAIN TreeOf(heap') /\ TreeOf(heap')[new] = node
      /\ node \in [name: Names \cup {Nil}, type: Types] /\ d \in DOMAIN tree
  <2>1. d \in DOMAIN tree
    BY <1>2, <1>3, TreeIs
  <2> HIDE DEF tree, new, node, d
  <2>2. new \in DOMAIN TreeOf(heap') /\ TreeOf(heap')[new] = node
    BY <1>4 DEF Abstract!Put
  <2> QED
    BY <2>1, <2>2 DEF node
<1>6. /\ \A q \in Abstract!Children(tree, d) : \E j \in DOMAIN e : q = Append(d, j)
      /\ \A j \in DOMAIN e : /\ Append(d, j) \in Abstract!Children(tree, d)
                             /\ Append(d, j)[Len(Append(d, j))] = j
                             /\ tree[Append(d, j)] = Node(heap, e[j])
  <2> DEFINE C == Abstract!Children(tree, d)
  <2>1. /\ \A q \in C : \E j \in DOMAIN e : q = Append(d, j)
        /\ \A j \in DOMAIN e : /\ Append(d, j) \in C /\ Len(Append(d, j)) = Len(t)
                               /\ Append(d, j)[Len(t)] = j
                               /\ tree[Append(d, j)] = Node(heap, e[j])
    BY <1>2, <1>3, ChildrenAre
  <2> HIDE DEF C, tree, d, e
  <2>2. \A j \in DOMAIN e : Append(d, j)[Len(Append(d, j))] = j
    BY <2>1
  <2> QED
    BY <2>1, <2>2 DEF C
<1>7. Len(e) \in Nat /\ DOMAIN e = 1..Len(e)
  BY <1>3, Parents DEF Live
<1> HIDE DEF d, tree
<1>8. ASSUME NEW q \in Abstract!Children(tree, d)
      PROVE  q[Len(q)] < i /\ (tree[q].name # Nil => tree[q].name # node.name)
  <2>1. PICK j \in DOMAIN e : q = Append(d, j)
    BY <1>6
  <2>2. q[Len(q)] = j /\ tree[q] = Node(heap, e[j])
    BY <1>6, <2>1
  <2>3. heap[e[j]].name # Nil => heap[e[j]].name # name
    OBVIOUS
  <2>4. tree[q].name = heap[e[j]].name
    BY <2>2 DEF Node
  <2> QED
    BY <1>7, <2>1, <2>2, <2>3, <2>4
<1>9. i \in {1} \cup {q[Len(q)] + 1 : q \in Abstract!Children(tree, d)}
  <2>1. CASE Len(e) = 0
    BY <2>1
  <2>2. CASE Len(e) # 0
    <3> DEFINE j == Len(e)
    <3>1. j \in DOMAIN e
      BY <1>7, <2>2
    <3> HIDE DEF j
    <3>2. Append(d, j) \in Abstract!Children(tree, d) /\ Append(d, j)[Len(Append(d, j))] = j
      BY <1>6, <3>1
    <3> QED
      BY <3>2 DEF j
  <2> QED
    BY <2>1, <2>2
<1> HIDE DEF i, node
<1>10. Abstract!Add(d, i)
  BY <1>4, <1>5, <1>8 DEF Abstract!Add, tree
<1> QED
  BY <1>4, <1>5, <1>9, <1>10 DEF Abstract!Next, tree

\* Removing a setting removes a node and all below it.
LEMMA RemoveMaps ==
  ASSUME IInv, Reached(heap), NEW p \in Live, NEW i, RemoveElem(p, i)
  PROVE  Reached(heap)' /\ Abstract!Next
<1>1. /\ i \in DOMAIN heap[p].elems /\ Shaped(heap)
      /\ heap' = [m \in Live \ Subtree(heap[p].elems[i]) |-> ListRemove(p, i)[m]]
  BY DEF RemoveElem, Destroy, IInv
<1>2. IsRemoved(heap', p, i) /\ Shaped(heap')
  BY <1>1, RemovedIs, RemovedKeeps
<1>3. PICK t : Trail(heap, t) /\ Ends(t) = p
  BY DEF Reached, Live
<1> DEFINE d == Append(Indices(heap, t), i)
<1>4. Reached(heap') /\ TreeOf(heap') = Abstract!Without(TreeOf(heap), d)
  BY <1>1, <1>2, <1>3, RemovedTree
<1>5. d \in DOMAIN TreeOf(heap) /\ d # << >>
  <2>1. d \in Abstract!Children(TreeOf(heap), Indices(heap, t)) /\ Len(d) = Len(t)
    BY <1>1, <1>3, ChildrenAre
  <2>2. Len(t) \in Nat \ {0}
    BY <1>1, <1>3, OnTrail
  <2> HIDE DEF d
  <2> QED
    BY <2>1, <2>2 DEF Abstract!Children
<1> HIDE DEF d
<1> QED
  BY <1>4, <1>5 DEF Abstract!Next, Abstract!Delete

\* A first value gives a node its type.
LEMMA SetValueMaps ==
  ASSUME IInv, IInv', Reached(heap), NEW n \in Live, NEW type \in Scalars, SetValue(n, type)
  PROVE  Reached(heap)' /\ Abstract!Next
<1> DEFINE d == Indices(heap, TrailTo(heap, n))
<1>1. Shaped(heap) /\ Shaped(heap')
  BY DEF IInv
<1>2. /\ DOMAIN heap' = DOMAIN heap
      /\ \A m \in DOMAIN heap :
           /\ heap'[m].parent = heap[m].parent /\ heap'[m].elems = heap[m].elems
           /\ heap'[m].name = heap[m].name
           /\ heap'[m].type = IF m = n THEN type ELSE heap[m].type
  BY DEF SetValue, IInv, Shaped, Typed, Record, Live
<1>3. Reached(heap') /\ TreeOf(heap') = [TreeOf(heap) EXCEPT ![d].type = type]
  <2>1. n \in DOMAIN heap
    BY DEF Live
  <2> DEFINE g == heap'
  <2>2. Shaped(g) /\ DOMAIN g = DOMAIN heap
    BY <1>1, <1>2
  <2>3. \A m \in DOMAIN heap :
           /\ g[m].parent = heap[m].parent /\ g[m].elems = heap[m].elems
           /\ g[m].name = heap[m].name
           /\ g[m].type = IF m = n THEN type ELSE heap[m].type
    BY <1>2
  <2> HIDE DEF g
  <2>4. Reached(g) /\ TreeOf(g) = [TreeOf(heap) EXCEPT ![Indices(heap, TrailTo(heap, n))].type = type]
    BY <1>1, <2>1, <2>2, <2>3, TypedTree
  <2> QED
    BY <2>4 DEF g
<1>4. d \in DOMAIN TreeOf(heap) /\ TreeOf(heap)[d] = Node(heap, n)
  <2>1. Trail(heap, TrailTo(heap, n)) /\ Ends(TrailTo(heap, n)) = n
    BY <1>1, TrailsLead DEF Live
  <2> QED
    BY <1>1, <2>1, TreeIs
<1>5. TreeOf(heap)[d].type = "NONE" /\ type \in Types
  BY <1>4 DEF Node, SetValue, Types
<1> HIDE DEF d
<1> QED
  BY <1>3, <1>4, <1>5 DEF Abstract!Next, Abstract!SetType

\* A hook changes nothing of the tree.
LEMMA SetHookMaps ==
  ASSUME IInv, IInv', Reached(heap), NEW n \in Live, NEW h \in Hooks, SetHook(n, h)
  PROVE  Reached(heap)' /\ TreeOf(heap') = TreeOf(heap)
<1>1. Shaped(heap) /\ Shaped(heap')
  BY DEF IInv
<1>2. /\ DOMAIN heap' = DOMAIN heap
      /\ \A m \in DOMAIN heap :
           /\ heap'[m].parent = heap[m].parent /\ heap'[m].elems = heap[m].elems
           /\ heap'[m].name = heap[m].name /\ heap'[m].type = heap[m].type
  BY DEF SetHook, IInv, Shaped, Typed, Record, Live
<1>3. \A m \in DOMAIN heap : Node(heap', m) = Node(heap, m)
  BY <1>2 DEF Node
<1> QED
  BY <1>1, <1>2, <1>3, SameNodes

\* Every step of the heap is one of the tree, or changes nothing of it.
LEMMA StepMaps ==
  IInv /\ Reached(heap) /\ [Next]_vars => Reached(heap)' /\ [Abstract!Next]_(TreeOf(heap))
<1> SUFFICES ASSUME IInv, Reached(heap), [Next]_vars
             PROVE  Reached(heap)' /\ [Abstract!Next]_(TreeOf(heap))
  OBVIOUS
<1>0. IInv'
  BY INext
<1>1. ASSUME NEW p \in Live, NEW name \in Names, NEW type \in Types, Add(p, name, type)
      PROVE  Reached(heap)' /\ Abstract!Next
  <2> DEFINE own == IF heap[p].type = "GROUP" THEN name ELSE Nil
  <2>1. own \in Names \cup {Nil} /\ (own # Nil <=> heap[p].type = "GROUP")
    BY NodesAssumption
  <2>2. \A i \in DOMAIN heap[p].elems : own # Nil => heap[heap[p].elems[i]].name # own
    BY <1>1, NodesAssumption DEF Add, MemberOf
  <2>3. heap[p].type \in Aggregates /\ Create(p, own, type)
    BY <1>1 DEF Add
  <2> HIDE DEF own
  <2> QED
    BY <2>1, <2>2, <2>3, CreateMaps
<1>2. ASSUME NEW p \in Live, NEW type \in Scalars, AppendElem(p, type)
      PROVE  Reached(heap)' /\ Abstract!Next
  <2>1. heap[p].type \in Aggregates /\ heap[p].type # "GROUP" /\ type \in Types
    BY <1>2 DEF AppendElem, Aggregates, Types
  <2>2. Create(p, Nil, type)
    BY <1>2 DEF AppendElem
  <2> QED
    BY <2>1, <2>2, CreateMaps
<1>3. ASSUME NEW p \in Live, NEW type \in Scalars, SetValue(p, type)
      PROVE  Reached(heap)' /\ Abstract!Next
  BY <1>0, <1>3, SetValueMaps
<1>4. ASSUME NEW p \in Live, NEW path \in Paths, RemoveMember(p, path)
      PROVE  Reached(heap)' /\ Abstract!Next
  BY <1>4, RemoveMaps DEF RemoveMember
<1>5. ASSUME NEW p \in Live, NEW i \in DOMAIN heap[p].elems, RemoveElem(p, i)
      PROVE  Reached(heap)' /\ Abstract!Next
  BY <1>5, RemoveMaps
<1>6. ASSUME NEW p \in Live, NEW h \in Hooks, Unused(h), SetHook(p, h)
      PROVE  Reached(heap)' /\ UNCHANGED TreeOf(heap)
  BY <1>0, <1>6, SetHookMaps
<1>7. ASSUME SetDestructor PROVE Reached(heap)' /\ UNCHANGED TreeOf(heap)
  BY <1>7 DEF SetDestructor
<1>8. ASSUME Reinitialise PROVE Reached(heap)' /\ Abstract!Next
  <2>1. heap' = [n \in {Root} |-> Setting(Nil, "GROUP", Nil)]
    BY <1>8 DEF Reinitialise
  <2>2. Reached(heap') /\ TreeOf(heap') = Abstract!Top
    BY <2>1, TopTree
  <2> QED
    BY <2>2 DEF Abstract!Next, Abstract!Clear
<1>9. ASSUME UNCHANGED vars PROVE Reached(heap)' /\ UNCHANGED TreeOf(heap)
  BY <1>9 DEF vars
<1> QED
  BY <1>1, <1>2, <1>3, <1>4, <1>5, <1>6, <1>7, <1>8, <1>9 DEF Next

\* The heap implements the tree of ConfigTree: whatever is added, typed and removed
\* through the pointers and vectors of libconfig.c, what callers see along paths of
\* indices is a tree in which additions come last and removals move the rest up.
THEOREM HeapImplementsTree == Spec => ImplementsTree
<1>1. Init => Reached(heap) /\ Abstract!Init
  BY TopTree DEF Init, Abstract!Init
<1>2. IInv /\ Reached(heap) /\ [Next]_vars => Reached(heap)' /\ [Abstract!Next]_(TreeOf(heap))
  BY StepMaps
<1> QED
  BY IInit, INext, <1>1, <1>2, PTL DEF Spec, ImplementsTree, Abstract!Spec

-----------------------------------------------------------------------------
(* The C++ objects.                                                        *)

Object == [setting: Nodes, type: Types]

\* The objects wr stand for settings of the heap h, and each hook of h for its object.
Matching(h, wr) ==
  /\ DOMAIN wr \subseteq Hooks /\ wr \in [DOMAIN wr -> Object]
  /\ \A w \in DOMAIN wr :
       /\ wr[w].setting \in DOMAIN h
       /\ h[wr[w].setting].hook = w /\ h[wr[w].setting].type = wr[w].type
  /\ \A n \in DOMAIN h :
       h[n].hook # Nil => h[n].hook \in DOMAIN wr /\ wr[h[n].hook].setting = n

WInv ==
  /\ Shaped(heap) /\ Matching(heap, wrapper)
  /\ destructor \in BOOLEAN /\ disposed \subseteq Hooks
  /\ reading \in BOOLEAN /\ crashed \in BOOLEAN

\* Settings get objects of their own.
LEMMA WrapKeeps ==
  ASSUME NEW h, Shaped(h), Matching(h, wrapper), NEW some \in SUBSET DOMAIN h, WrapIn(h, some)
  PROVE  Shaped(heap') /\ Matching(heap', wrapper')
<1> DEFINE bare == {n \in some : h[n].hook = Nil}
<1>1. PICK made \in Injection(bare, Hooks \ DOMAIN wrapper) :
        /\ heap' = [n \in DOMAIN h |->
                      IF n \in bare THEN [h[n] EXCEPT !.hook = made[n]] ELSE h[n]]
        /\ wrapper' = [w \in DOMAIN wrapper \cup Range(made) |->
                         IF w \in DOMAIN wrapper THEN wrapper[w]
                         ELSE LET n == CHOOSE m \in bare : made[m] = w
                              IN [setting |-> n, type |-> h[n].type]]
  BY DEF WrapIn
<1>2. /\ made \in [bare -> Hooks \ DOMAIN wrapper]
      /\ \A m, n \in bare : made[m] = made[n] => m = n
      /\ Range(made) = {made[n] : n \in bare}
  BY DEF Injection, IsInjective, Range
<1>3. h \in [DOMAIN h -> Record] /\ DOMAIN h \subseteq Nodes
  BY DEF Shaped, Typed
<1>4. /\ heap' \in [DOMAIN h -> Record]
      /\ \A n \in DOMAIN h :
           /\ heap'[n].name = h[n].name /\ heap'[n].parent = h[n].parent
           /\ heap'[n].elems = h[n].elems /\ heap'[n].cap = h[n].cap
           /\ heap'[n].type = h[n].type
           /\ heap'[n].hook = IF n \in bare THEN made[n] ELSE h[n].hook
  <2>1. ASSUME NEW r \in Record, NEW k \in Hooks
        PROVE  LET t == [r EXCEPT !.hook = k] IN
                 /\ t \in Record /\ t.name = r.name /\ t.parent = r.parent /\ t.elems = r.elems
                 /\ t.cap = r.cap /\ t.type = r.type /\ t.hook = k
    BY DEF Record
  <2>2. \A n \in bare : made[n] \in Hooks
    BY <1>2
  <2>3. \A n \in DOMAIN h : h[n] \in Record
    BY <1>3
  <2>4. DOMAIN heap' = DOMAIN h /\ heap' = [n \in DOMAIN h |-> heap'[n]]
    BY <1>1
  <2>5. \A n \in DOMAIN h : heap'[n] = IF n \in bare THEN [h[n] EXCEPT !.hook = made[n]] ELSE h[n]
    BY <1>1
  <2> HIDE DEF bare
  <2> SUFFICES ASSUME NEW n \in DOMAIN h
               PROVE  /\ heap'[n] \in Record
                      /\ heap'[n].name = h[n].name /\ heap'[n].parent = h[n].parent
                      /\ heap'[n].elems = h[n].elems /\ heap'[n].cap = h[n].cap
                      /\ heap'[n].type = h[n].type
                      /\ heap'[n].hook = IF n \in bare THEN made[n] ELSE h[n].hook
    BY <2>4, Zenon
  <2>6. CASE n \in bare
    <3>1. heap'[n] = [h[n] EXCEPT !.hook = made[n]] /\ h[n] \in Record /\ made[n] \in Hooks
      BY <2>2, <2>3, <2>5, <2>6
    <3> QED
      BY <2>1, <2>6, <3>1
  <2>7. CASE n \notin bare
    BY <2>3, <2>5, <2>7
  <2> QED
    BY <2>6, <2>7
<1>5. Shaped(heap')
  BY <1>4, RetypedKeeps
<1>6. /\ DOMAIN wrapper' = DOMAIN wrapper \cup Range(made)
      /\ \A w \in DOMAIN wrapper : wrapper'[w] = wrapper[w]
  BY <1>1
<1>7. \A n \in bare : made[n] \in DOMAIN wrapper' /\ made[n] \in Hooks
                      /\ wrapper'[made[n]] = [setting |-> n, type |-> h[n].type]
  <2> SUFFICES ASSUME NEW n \in bare
               PROVE  /\ made[n] \in DOMAIN wrapper' /\ made[n] \in Hooks
                      /\ wrapper'[made[n]] = [setting |-> n, type |-> h[n].type]
    OBVIOUS
  <2>1. n = CHOOSE m \in bare : made[m] = made[n]
    BY <1>2
  <2>2. made[n] \notin DOMAIN wrapper /\ made[n] \in Range(made) /\ made[n] \in Hooks
    BY <1>2
  <2> QED
    BY <1>1, <2>1, <2>2
<1> HIDE DEF bare
<1>8. bare \subseteq DOMAIN h /\ \A n \in bare : h[n].hook = Nil
  BY DEF bare
<1>9. \A w \in DOMAIN wrapper' :
        /\ w \in Hooks /\ wrapper'[w] \in Object
        /\ wrapper'[w].setting \in DOMAIN heap'
        /\ heap'[wrapper'[w].setting].hook = w
        /\ heap'[wrapper'[w].setting].type = wrapper'[w].type
  <2> SUFFICES ASSUME NEW w \in DOMAIN wrapper'
               PROVE  /\ w \in Hooks /\ wrapper'[w] \in Object
                      /\ wrapper'[w].setting \in DOMAIN heap'
                      /\ heap'[wrapper'[w].setting].hook = w
                      /\ heap'[wrapper'[w].setting].type = wrapper'[w].type
    OBVIOUS
  <2>1. CASE w \in DOMAIN wrapper
    <3>1. w # Nil
      BY <2>1, NodesAssumption DEF Matching
    <3> QED
      BY <1>4, <1>6, <1>8, <2>1, <3>1 DEF Matching
  <2>2. CASE w \in Range(made)
    <3>1. PICK n \in bare : made[n] = w
      BY <1>2, <2>2
    <3>2. h[n].type \in Types /\ n \in Nodes
      BY <1>3, <1>8 DEF Record
    <3>3. wrapper'[w] = [setting |-> n, type |-> h[n].type] /\ w \in Hooks
      BY <1>7, <3>1
    <3>4. n \in DOMAIN heap' /\ heap'[n].hook = w /\ heap'[n].type = h[n].type
      BY <1>4, <1>8, <3>1
    <3> QED
      BY <3>2, <3>3, <3>4 DEF Object
  <2> QED
    BY <1>6, <2>1, <2>2
<1>10. \A n \in DOMAIN heap' :
         heap'[n].hook # Nil => heap'[n].hook \in DOMAIN wrapper' /\ wrapper'[heap'[n].hook].setting = n
  <2> SUFFICES ASSUME NEW n \in DOMAIN h, heap'[n].hook # Nil
               PROVE  heap'[n].hook \in DOMAIN wrapper' /\ wrapper'[heap'[n].hook].setting = n
    BY <1>4
  <2>1. CASE n \in bare
    <3>1. heap'[n].hook = made[n]
      BY <1>4, <2>1
    <3>2. made[n] \in DOMAIN wrapper' /\ wrapper'[made[n]] = [setting |-> n, type |-> h[n].type]
      BY <1>7, <2>1
    <3>3. wrapper'[made[n]].setting = n
      BY <3>2
    <3> QED
      BY <3>1, <3>2, <3>3
  <2>2. CASE n \notin bare
    BY <1>4, <1>6, <2>2 DEF Matching
  <2> QED
    BY <2>1, <2>2
<1>11. wrapper' = [w \in DOMAIN wrapper' |-> wrapper'[w]]
  BY <1>1
<1> QED
  BY <1>5, <1>9, <1>10, <1>11 DEF Matching

\* Objects go with the settings they stand for.
LEMMA DeletedMatch ==
  ASSUME Shaped(heap), Matching(heap, wrapper), NEW dead \in SUBSET Live,
         NEW h, DOMAIN h = Live \ dead,
         \A n \in DOMAIN h : h[n].hook = heap[n].hook /\ h[n].type = heap[n].type
  PROVE  Matching(h, Deleted(dead))
<1> DEFINE wr == Deleted(dead)
<1>1. /\ DOMAIN wr = {v \in DOMAIN wrapper : \A n \in dead : heap[n].hook # v}
      /\ \A w \in DOMAIN wr : wr[w] = wrapper[w]
      /\ wr = [w \in DOMAIN wr |-> wr[w]]
  BY DEF Deleted
<1> HIDE DEF wr
<1>2. \A w \in DOMAIN wr : wr[w].setting \in Live \ dead
  BY <1>1 DEF Matching, Live
<1>3. \A n \in Live \ dead : heap[n].hook # Nil => heap[n].hook \in DOMAIN wr
  <2> SUFFICES ASSUME NEW n \in Live \ dead, heap[n].hook # Nil PROVE heap[n].hook \in DOMAIN wr
    OBVIOUS
  <2>1. \A m \in Live : heap[m].hook = heap[n].hook => m = n
    BY DEF Matching, Live
  <2> QED
    BY <1>1, <2>1 DEF Matching, Live
<1>4. DOMAIN wr \subseteq Hooks /\ wr \in [DOMAIN wr -> Object]
  BY <1>1 DEF Matching
<1> QED
  BY <1>1, <1>2, <1>3, <1>4 DEF Matching, Live, wr

\* A setting is created without an object.
LEMMA CreatedMatch ==
  ASSUME Shaped(heap), Matching(heap, wrapper), NEW p \in Live, NEW n \in Nodes \ Live,
         NEW name, NEW type
  PROVE  Matching(Created(p, n, name, type), wrapper)
<1> DEFINE h == Created(p, n, name, type)
<1>1. heap[p] \in Record
  BY DEF Shaped, Typed, Live
<1>2. ListAdd(heap[p], n).hook = heap[p].hook /\ ListAdd(heap[p], n).type = heap[p].type
  BY <1>1 DEF ListAdd, Record
<1>3. /\ DOMAIN h = Live \cup {n} /\ h[n].hook = Nil
      /\ \A m \in Live : h[m].hook = heap[m].hook /\ h[m].type = heap[m].type
  BY <1>2 DEF Created, Setting
<1> HIDE DEF h
<1> QED
  BY <1>3 DEF Matching, Live, h

-----------------------------------------------------------------------------

LEMMA WInitial == WInit => WInv
<1> SUFFICES ASSUME WInit PROVE WInv
  OBVIOUS
<1>1. heap = [n \in {Root} |-> Setting(Nil, "GROUP", Nil)] /\ wrapper = << >>
  BY DEF WInit, Init
<1>2. Shaped(heap)
  BY <1>1, RootAlone
<1>3. Matching(heap, wrapper)
  BY <1>1 DEF Matching, Setting
<1> QED
  BY <1>2, <1>3 DEF WInit, Init, WInv

LEMMA WrapStep ==
  ASSUME WInv, NEW some \in SUBSET Live, Wrap(some)
  PROVE  WInv'
<1>1. Shaped(heap') /\ Matching(heap', wrapper')
  BY WrapKeeps DEF WInv, Wrap, Live
<1> QED
  BY <1>1 DEF WInv, Wrap

\* The setting an object stands for, and its elements, exist.
LEMMA ObjectsLive ==
  ASSUME WInv, NEW w \in DOMAIN wrapper
  PROVE  /\ SettingOf(w) \in Live /\ heap[SettingOf(w)].type = TypeOf(w)
         /\ \A i \in DOMAIN heap[SettingOf(w)].elems : heap[SettingOf(w)].elems[i] \in Live
         /\ SettingOf(w) # Root => heap[SettingOf(w)].parent \in Live
BY DEF WInv, Matching, Shaped, Down, Up, SettingOf, TypeOf, Live

LEMMA AddMemberStep ==
  ASSUME WInv, NEW w \in DOMAIN wrapper, NEW name \in Names, NEW type \in Types,
         AddMember(w, name, type)
  PROVE  WInv'
<1> DEFINE p == SettingOf(w)
<1>1. p \in Live /\ heap[p].type = "GROUP"
  BY ObjectsLive DEF AddMember
<1>2. PICK n \in Nodes \ Live : WrapIn(Created(p, n, name, type), {n})
  BY DEF AddMember
<1>3. \A i \in DOMAIN heap[p].elems : heap[heap[p].elems[i]].name # name
  BY <1>1, NodesAssumption DEF AddMember, MemberOf
<1>4. name # Nil /\ heap[p].type \in Aggregates
  BY <1>1, NodesAssumption DEF Aggregates
<1> HIDE DEF p
<1>5. Shaped(Created(p, n, name, type))
  BY <1>1, <1>3, <1>4, CreatedKeeps DEF WInv
<1>6. Matching(Created(p, n, name, type), wrapper)
  BY <1>1, CreatedMatch DEF WInv
<1>7. {n} \in SUBSET DOMAIN Created(p, n, name, type)
  BY DEF Created
<1>8. Shaped(heap') /\ Matching(heap', wrapper')
  BY <1>2, <1>5, <1>6, <1>7, WrapKeeps
<1> QED
  BY <1>8 DEF WInv, AddMember

LEMMA AddElementStep ==
  ASSUME WInv, NEW w \in DOMAIN wrapper, NEW type \in Types, AddElement(w, type)
  PROVE  WInv'
<1> DEFINE p == SettingOf(w)
           asked == Asked(w)
           above == Ancestors(p)
<1>1. p \in Live /\ heap[p].type \in {"ARRAY", "LIST"}
  BY ObjectsLive DEF AddElement
<1>2. asked \in SUBSET Live
  <2>1. heap[p].elems # << >> => 1 \in DOMAIN heap[p].elems
    BY <1>1 DEF WInv, Shaped, Typed, Record, Live
  <2> QED
    BY <2>1, ObjectsLive DEF Asked
<1>3. above \in SUBSET Live
  BY DEF Ancestors
<1>4. \/ \E n \in Nodes \ Live : WrapIn(Created(p, n, Nil, type), {n} \cup asked)
      \/ WrapIn(heap, asked \cup above)
  BY DEF AddElement
<1> HIDE DEF p, asked, above
<1>5. CASE WrapIn(heap, asked \cup above)
  <2>1. asked \cup above \in SUBSET DOMAIN heap
    BY <1>2, <1>3 DEF Live
  <2>2. Shaped(heap') /\ Matching(heap', wrapper')
    BY <1>5, <2>1, WrapKeeps DEF WInv
  <2> QED
    BY <2>2 DEF WInv, AddElement
<1>6. ASSUME NEW n \in Nodes \ Live, WrapIn(Created(p, n, Nil, type), {n} \cup asked) PROVE WInv'
  <2>1. Shaped(Created(p, n, Nil, type))
    <3>1. heap[p].type \in Aggregates /\ heap[p].type # "GROUP"
      BY <1>1 DEF Aggregates
    <3> QED
      BY <1>1, <3>1, CreatedKeeps DEF WInv
  <2>2. Matching(Created(p, n, Nil, type), wrapper)
    BY <1>1, CreatedMatch DEF WInv
  <2>3. {n} \cup asked \in SUBSET DOMAIN Created(p, n, Nil, type)
    BY <1>2 DEF Created
  <2>4. Shaped(heap') /\ Matching(heap', wrapper')
    BY <1>6, <2>1, <2>2, <2>3, WrapKeeps
  <2> QED
    BY <2>4 DEF WInv, AddElement
<1> QED
  BY <1>4, <1>5, <1>6

LEMMA RemoveChildStep ==
  ASSUME WInv, NEW w \in DOMAIN wrapper, NEW i \in DOMAIN heap[SettingOf(w)].elems,
         RemoveChild(w, i)
  PROVE  WInv'
<1> DEFINE p == SettingOf(w)
           dead == Subtree(heap[p].elems[i])
<1>1. p \in Live /\ dead \in SUBSET Live
  BY ObjectsLive DEF Subtree
<1>2. /\ heap' = [m \in Live \ dead |-> ListRemove(p, i)[m]]
      /\ wrapper' = Deleted(dead)
      /\ UNCHANGED <<destructor, reading, crashed>>
  BY DEF RemoveChild, RemoveElem, Destroy
<1>3. disposed' \subseteq disposed \cup ({heap[m].hook : m \in dead} \ {Nil})
  BY DEF RemoveChild, RemoveElem, Destroy
<1>4. disposed' \subseteq Hooks
  BY <1>1, <1>3 DEF WInv, Shaped, Typed, Record, Live
<1>5. Shaped(heap')
  BY <1>1, <1>2, RemovedKeeps DEF WInv
<1>6. /\ DOMAIN heap' = Live \ dead
      /\ \A n \in DOMAIN heap' : heap'[n].hook = heap[n].hook /\ heap'[n].type = heap[n].type
  <2>1. heap[p] \in Record
    BY <1>1 DEF WInv, Shaped, Typed, Live
  <2> QED
    BY <1>2, <2>1 DEF ListRemove, Live, Record
<1>7. Matching(heap', Deleted(dead))
  BY <1>1, <1>6, DeletedMatch DEF WInv
<1> QED
  BY <1>2, <1>4, <1>5, <1>7 DEF WInv

LEMMA StartReadStep == ASSUME WInv, StartRead PROVE WInv'
<1>1. heap' = [n \in {Root} |-> Setting(Nil, "GROUP", Nil)] /\ wrapper' = Deleted(Live)
  BY DEF StartRead, Reinitialise
<1>2. Shaped(heap')
  BY <1>1, RootAlone
<1>3. DOMAIN wrapper' = {}
  BY <1>1 DEF Deleted, WInv, Matching, Live
<1>4. wrapper' \in [DOMAIN wrapper' -> Object]
  BY <1>1, <1>3 DEF Deleted
<1>5. Matching(heap', wrapper')
  BY <1>1, <1>3, <1>4 DEF Matching, Setting
<1>6. disposed' \subseteq Hooks
  BY DEF StartRead, Reinitialise, WInv, Shaped, Typed, Record, Live
<1> QED
  BY <1>2, <1>5, <1>6 DEF StartRead, Reinitialise, WInv

LEMMA ParseStep ==
  ASSUME WInv, NEW p \in Live, NEW name \in Names, NEW type \in Types, Parse(p, name, type)
  PROVE  WInv'
<1> DEFINE own == IF heap[p].type = "GROUP" THEN name ELSE Nil
<1>1. heap[p].type \in Aggregates /\ Create(p, own, type) /\ UNCHANGED <<destructor, disposed>>
  BY DEF Parse, Add, Aggregates
<1>2. own \in Names \cup {Nil} /\ (own # Nil <=> heap[p].type = "GROUP")
  BY NodesAssumption
<1>3. \A i \in DOMAIN heap[p].elems : own # Nil => heap[heap[p].elems[i]].name # own
  BY NodesAssumption DEF Parse, Add, MemberOf
<1> HIDE DEF own
<1>4. PICK n \in Nodes \ Live : heap' = Created(p, n, own, type)
  BY <1>1 DEF Create
<1>5. Shaped(heap')
  BY <1>1, <1>2, <1>3, <1>4, CreatedKeeps DEF WInv
<1>6. Matching(heap', wrapper)
  BY <1>4, CreatedMatch DEF WInv
<1> QED
  BY <1>1, <1>5, <1>6 DEF WInv, Parse

LEMMA WStep == WInv /\ [WNext]_wvars => WInv'
<1> SUFFICES ASSUME WInv, [WNext]_wvars PROVE WInv'
  OBVIOUS
<1>1. CASE Stopped \/ UNCHANGED wvars
  BY <1>1 DEF Stopped, wvars, vars, WInv, Live
<1>2. CASE StartRead
  BY <1>2, StartReadStep
<1>3. CASE EndRead
  BY <1>3 DEF EndRead, vars, WInv
<1>4. ASSUME NEW n \in Live, Find(n) PROVE WInv'
  <2>1. {n} \in SUBSET Live
    OBVIOUS
  <2> QED
    BY <1>4, <2>1, WrapStep DEF Find
<1>5. ASSUME NEW w \in DOMAIN wrapper, GetParent(w) PROVE WInv'
  <2>1. CASE Crash
    BY <2>1 DEF Crash, vars, WInv
  <2>2. CASE SettingOf(w) # Root
    <3>1. {heap[SettingOf(w)].parent} \in SUBSET Live
      BY <2>2, ObjectsLive
    <3> QED
      BY <1>5, <2>2, <3>1, WrapStep DEF GetParent
  <2> QED
    BY <1>5, <2>1, <2>2 DEF GetParent
<1>6. ASSUME NEW w \in DOMAIN wrapper, TellPath(w) PROVE WInv'
  <2>1. Ancestors(SettingOf(w)) \in SUBSET Live
    BY DEF Ancestors
  <2> QED
    BY <1>6, <2>1, WrapStep DEF TellPath
<1>7. ASSUME NEW w \in DOMAIN wrapper, NEW i \in DOMAIN heap[SettingOf(w)].elems, Subscript(w, i)
      PROVE  WInv'
  <2>1. {heap[SettingOf(w)].elems[i]} \in SUBSET Live
    BY ObjectsLive
  <2> QED
    BY <1>7, <2>1, WrapStep DEF Subscript
<1>8. ASSUME NEW w \in DOMAIN wrapper, NEW i \in DOMAIN heap[SettingOf(w)].elems,
             RemoveChild(w, i)
      PROVE  WInv'
  BY <1>8, RemoveChildStep
<1>9. ASSUME NEW w \in DOMAIN wrapper, NEW name \in Names, NEW type \in Types,
             AddMember(w, name, type)
      PROVE  WInv'
  BY <1>9, AddMemberStep
<1>10. ASSUME NEW w \in DOMAIN wrapper, NEW type \in Types, AddElement(w, type) PROVE WInv'
  BY <1>10, AddElementStep
<1>11. ASSUME NEW p \in Live, NEW name \in Names, NEW type \in Types,
              Parse(p, name, type)
       PROVE  WInv'
  BY <1>11, ParseStep
<1> QED
  BY <1>1, <1>2, <1>3, <1>4, <1>5, <1>6, <1>7, <1>8, <1>9, <1>10, <1>11 DEF WNext

LEMMA WInvariant == WSpec => []WInv
  BY WInitial, WStep, PTL DEF WSpec

\* Every C++ object stands for one setting that exists and has the type the object
\* kept, and every hook is an object that exists: no object leaks or is used after
\* it was deleted, however settings are found, added, removed and read.
THEOREM ObjectsMatchSettings == WSpec => []WrappersMatch
<1>1. WInv => WrappersMatch
  BY DEF WInv, Matching, WrappersMatch, SettingOf, TypeOf, Live
<1> QED
  BY <1>1, WInvariant, PTL

\* The heap below the objects is well formed, and so are they.
THEOREM ObjectTypes == WSpec => []WTypeOK
<1>1. WInv => TypeOK
  BY ShapedTyped DEF WInv
<1>2. WInv => WTypeOK
  BY <1>1 DEF WInv, WTypeOK, Matching, Object, SettingOf, TypeOf
<1> QED
  BY <1>2, WInvariant, PTL

-----------------------------------------------------------------------------
(* Arrays.                                                                 *)

Alike(h) ==
  \A a \in DOMAIN h : h[a].type = "ARRAY" =>
    \A i, j \in DOMAIN h[a].elems :
      /\ h[h[a].elems[i]].type \in Scalars
      /\ h[h[a].elems[i]].type = h[h[a].elems[j]].type

\* Objects change nothing of the elements.
LEMMA WrapAlike ==
  ASSUME NEW h, Shaped(h), Alike(h), NEW some \in SUBSET DOMAIN h, WrapIn(h, some)
  PROVE  Alike(heap')
<1>1. /\ DOMAIN heap' = DOMAIN h
      /\ \A n \in DOMAIN h : heap'[n].type = h[n].type /\ heap'[n].elems = h[n].elems
  <2>1. \A n \in DOMAIN h : h[n] \in Record
    BY DEF Shaped, Typed
  <2>2. ASSUME NEW r \in Record, NEW k
        PROVE  [r EXCEPT !.hook = k].type = r.type /\ [r EXCEPT !.hook = k].elems = r.elems
    BY DEF Record
  <2> DEFINE bare == {n \in some : h[n].hook = Nil}
  <2>3. PICK made : heap' = [n \in DOMAIN h |->
                               IF n \in bare THEN [h[n] EXCEPT !.hook = made[n]] ELSE h[n]]
    BY DEF WrapIn
  <2> HIDE DEF bare
  <2> QED
    BY <2>1, <2>2, <2>3
<1>2. \A n \in DOMAIN h : \A i \in DOMAIN h[n].elems : h[n].elems[i] \in DOMAIN h
  BY DEF Shaped, Down
<1> QED
  BY <1>1, <1>2 DEF Alike

\* A new element is of the type of those before it.
LEMMA CreatedAlike ==
  ASSUME Shaped(heap), Alike(heap), NEW p \in Live, NEW n \in Nodes \ Live, NEW name, NEW type,
         heap[p].type = "ARRAY" =>
           type \in Scalars /\ \A i \in DOMAIN heap[p].elems : heap[heap[p].elems[i]].type = type
  PROVE  Alike(Created(p, n, name, type))
<1> DEFINE h == Created(p, n, name, type)
           e == heap[p].elems
<1> USE DEF Live
<1>1. heap[p] \in Record /\ e \in Seq(Nodes)
  BY DEF Shaped, Typed, Record
<1>2. ListAdd(heap[p], n).elems = Append(e, n) /\ ListAdd(heap[p], n).type = heap[p].type
  BY <1>1 DEF ListAdd, Record
<1>3. /\ DOMAIN h = Live \cup {n} /\ h[n].elems = << >> /\ h[n].type = type
      /\ \A m \in Live : /\ h[m].type = heap[m].type
                          /\ h[m].elems = IF m = p THEN Append(e, n) ELSE heap[m].elems
  BY <1>2 DEF Created, Setting
<1>4. \A m \in Live : \A i \in DOMAIN heap[m].elems : heap[m].elems[i] \in Live
  BY DEF Shaped, Down
<1> HIDE DEF h
<1>5. ASSUME NEW a \in DOMAIN h, h[a].type = "ARRAY", NEW i \in DOMAIN h[a].elems,
             NEW j \in DOMAIN h[a].elems
      PROVE  h[h[a].elems[i]].type \in Scalars /\ h[h[a].elems[i]].type = h[h[a].elems[j]].type
  <2>1. CASE a = n
    BY <1>3, <2>1
  <2>2. CASE a \in Live \ {p}
    <3>1. h[a].elems = heap[a].elems /\ heap[a].type = "ARRAY"
      BY <1>3, <1>5, <2>2
    <3>2. h[h[a].elems[i]].type = heap[heap[a].elems[i]].type
            /\ h[h[a].elems[j]].type = heap[heap[a].elems[j]].type
      BY <1>3, <1>4, <2>2, <3>1
    <3> QED
      BY <2>2, <3>1, <3>2 DEF Alike
  <2>3. CASE a = p
    <3>1. heap[p].type = "ARRAY" /\ h[a].elems = Append(e, n)
      BY <1>3, <1>5, <2>3
    <3>2. \A k \in DOMAIN Append(e, n) : h[Append(e, n)[k]].type = type
      <4>1. \A k \in DOMAIN e : h[e[k]].type = type
        BY <1>3, <1>4, <3>1
      <4>2. \A k \in DOMAIN Append(e, n) :
              (k \in DOMAIN e /\ Append(e, n)[k] = e[k]) \/ Append(e, n)[k] = n
        BY <1>1
      <4> QED
        BY <1>3, <4>1, <4>2
    <3> QED
      BY <3>1, <3>2
  <2> QED
    BY <1>3, <2>1, <2>2, <2>3
<1> QED
  BY <1>5 DEF Alike, h

LEMMA RemovedAlike ==
  ASSUME Shaped(heap), Alike(heap), NEW p \in Live, NEW i \in DOMAIN heap[p].elems,
         NEW dead, NEW h, h = [m \in Live \ dead |-> ListRemove(p, i)[m]],
         \A m \in DOMAIN h : \A j \in DOMAIN h[m].elems : h[m].elems[j] \in DOMAIN h
  PROVE  Alike(h)
<1> DEFINE e == heap[p].elems
<1> USE DEF Live
<1>1. heap[p] \in Record /\ e \in Seq(Nodes)
  BY DEF Shaped, Typed, Record
<1>2. \A j \in DOMAIN RemoveAt(e, i) : \E k \in DOMAIN e : RemoveAt(e, i)[j] = e[k]
  <2>1. e \in Seq(Nodes) /\ i \in DOMAIN e
    BY <1>1
  <2> HIDE DEF e, Live
  <2>2. Len(e) \in Nat /\ DOMAIN e = 1..Len(e)
    BY <2>1
  <2>3. /\ RemoveAt(e, i) \in Seq(Nodes) /\ Len(RemoveAt(e, i)) = Len(e) - 1
        /\ \A j \in 1..(Len(e) - 1) : RemoveAt(e, i)[j] = IF j < i THEN e[j] ELSE e[j + 1]
    BY <2>1, RemovedElem
  <2>4. DOMAIN RemoveAt(e, i) = 1..(Len(e) - 1)
    BY <2>3
  <2>5. \A j \in 1..(Len(e) - 1) : j \in DOMAIN e /\ j + 1 \in DOMAIN e
    BY <2>2
  <2> QED
    BY <2>3, <2>4, <2>5
<1>3. \A m \in DOMAIN h :
        /\ m \in Live /\ h[m].type = heap[m].type
        /\ \A j \in DOMAIN h[m].elems : \E k \in DOMAIN heap[m].elems : h[m].elems[j] = heap[m].elems[k]
  BY <1>1, <1>2 DEF ListRemove, Record
<1>4. ASSUME NEW a \in DOMAIN h, h[a].type = "ARRAY", NEW j \in DOMAIN h[a].elems,
             NEW k \in DOMAIN h[a].elems
      PROVE  h[h[a].elems[j]].type \in Scalars /\ h[h[a].elems[j]].type = h[h[a].elems[k]].type
  <2>1. PICK x, y \in DOMAIN heap[a].elems :
          h[a].elems[j] = heap[a].elems[x] /\ h[a].elems[k] = heap[a].elems[y]
    BY <1>3
  <2>2. heap[a].type = "ARRAY" /\ a \in Live
    BY <1>3, <1>4
  <2>3. h[h[a].elems[j]].type = heap[heap[a].elems[x]].type
          /\ h[h[a].elems[k]].type = heap[heap[a].elems[y]].type
    BY <1>3, <2>1
  <2> QED
    BY <2>2, <2>3 DEF Alike
<1> QED
  BY <1>4 DEF Alike

LEMMA AlikeInit == WInit => Alike(heap)
BY DEF WInit, Init, Setting, Alike

LEMMA AlikeStep == WInv /\ Alike(heap) /\ [WNext]_wvars => Alike(heap')
<1> SUFFICES ASSUME WInv, Alike(heap), [WNext]_wvars PROVE Alike(heap')
  OBVIOUS
<1>1. ASSUME NEW some \in SUBSET Live, Wrap(some) PROVE Alike(heap')
  BY <1>1, WrapAlike DEF WInv, Wrap, Live
<1>2. CASE heap' = heap
  BY <1>2
<1>3. CASE StartRead
  BY <1>3 DEF StartRead, Reinitialise, Setting, Alike
<1>4. ASSUME NEW n \in Live, Find(n) PROVE Alike(heap')
  <2>1. {n} \in SUBSET Live
    OBVIOUS
  <2> QED
    BY <1>1, <1>4, <2>1 DEF Find
<1>5. ASSUME NEW w \in DOMAIN wrapper, GetParent(w) PROVE Alike(heap')
  <2>1. CASE Crash
    BY <1>2, <2>1 DEF Crash, vars
  <2>2. CASE SettingOf(w) # Root
    <3>1. {heap[SettingOf(w)].parent} \in SUBSET Live
      BY <2>2, ObjectsLive
    <3> QED
      BY <1>1, <1>5, <2>2, <3>1 DEF GetParent
  <2> QED
    BY <1>5, <2>1, <2>2 DEF GetParent
<1>6. ASSUME NEW w \in DOMAIN wrapper, TellPath(w) PROVE Alike(heap')
  <2>1. Ancestors(SettingOf(w)) \in SUBSET Live
    BY DEF Ancestors
  <2> QED
    BY <1>1, <1>6, <2>1 DEF TellPath
<1>7. ASSUME NEW w \in DOMAIN wrapper, NEW i \in DOMAIN heap[SettingOf(w)].elems, Subscript(w, i)
      PROVE  Alike(heap')
  <2>1. {heap[SettingOf(w)].elems[i]} \in SUBSET Live
    BY ObjectsLive
  <2> QED
    BY <1>1, <1>7, <2>1 DEF Subscript
<1>8. ASSUME NEW w \in DOMAIN wrapper, NEW i \in DOMAIN heap[SettingOf(w)].elems,
             RemoveChild(w, i)
      PROVE  Alike(heap')
  <2> DEFINE p == SettingOf(w)
             dead == Subtree(heap[p].elems[i])
  <2>1. p \in Live
    BY ObjectsLive
  <2>2. heap' = [m \in Live \ dead |-> ListRemove(p, i)[m]]
    BY <1>8 DEF RemoveChild, RemoveElem, Destroy
  <2>3. Shaped(heap')
    BY <2>1, <2>2, RemovedKeeps DEF WInv
  <2>4. \A m \in DOMAIN heap' : \A j \in DOMAIN heap'[m].elems : heap'[m].elems[j] \in DOMAIN heap'
    BY <2>3 DEF Shaped, Down
  <2> HIDE DEF p, dead
  <2> QED
    BY <2>1, <2>2, <2>4, RemovedAlike DEF WInv, p
<1>9. ASSUME NEW w \in DOMAIN wrapper, NEW name \in Names, NEW type \in Types,
             AddMember(w, name, type)
      PROVE  Alike(heap')
  <2> DEFINE p == SettingOf(w)
  <2>1. p \in Live /\ heap[p].type = "GROUP"
    BY <1>9, ObjectsLive DEF AddMember
  <2>2. PICK n \in Nodes \ Live : WrapIn(Created(p, n, name, type), {n})
    BY <1>9 DEF AddMember
  <2>3. \A i \in DOMAIN heap[p].elems : heap[heap[p].elems[i]].name # name
    BY <1>9, <2>1, NodesAssumption DEF AddMember, MemberOf
  <2>4. name # Nil /\ heap[p].type \in Aggregates
    BY <2>1, NodesAssumption DEF Aggregates
  <2> HIDE DEF p
  <2>5. Shaped(Created(p, n, name, type))
    BY <2>1, <2>3, <2>4, CreatedKeeps DEF WInv
  <2>6. Alike(Created(p, n, name, type))
    BY <2>1, CreatedAlike DEF WInv
  <2>7. {n} \in SUBSET DOMAIN Created(p, n, name, type)
    BY DEF Created
  <2> QED
    BY <2>2, <2>5, <2>6, <2>7, WrapAlike
<1>10. ASSUME NEW w \in DOMAIN wrapper, NEW type \in Types, AddElement(w, type) PROVE Alike(heap')
  <2> DEFINE p == SettingOf(w)
             asked == Asked(w)
             above == Ancestors(p)
  <2>1. p \in Live /\ heap[p].type = TypeOf(w) /\ heap[p].type \in {"ARRAY", "LIST"}
    BY <1>10, ObjectsLive DEF AddElement
  <2>2. heap[p].elems # << >> => 1 \in DOMAIN heap[p].elems
    BY <2>1 DEF WInv, Shaped, Typed, Record, Live
  <2>3. asked \in SUBSET Live /\ above \in SUBSET Live
    BY <2>2, ObjectsLive DEF Asked, Ancestors
  <2>4. CASE WrapIn(heap, asked \cup above)
    <3>1. asked \cup above \in SUBSET DOMAIN heap
      BY <2>3 DEF Live
    <3> HIDE DEF asked, above
    <3> QED
      BY <2>4, <3>1, WrapAlike DEF WInv
  <2>5. ASSUME TakesType(w, type), NEW n \in Nodes \ Live,
               WrapIn(Created(p, n, Nil, type), {n} \cup asked)
        PROVE  Alike(heap')
    <3>1. heap[p].type = "ARRAY" =>
            type \in Scalars /\ \A i \in DOMAIN heap[p].elems : heap[heap[p].elems[i]].type = type
      BY <2>1, <2>2, <2>5 DEF TakesType, Alike, Live
    <3>2. heap[p].type \in Aggregates /\ heap[p].type # "GROUP"
      BY <2>1 DEF Aggregates
    <3> HIDE DEF p, asked
    <3>3. Alike(Created(p, n, Nil, type))
      BY <2>1, <3>1, CreatedAlike DEF WInv
    <3>4. Shaped(Created(p, n, Nil, type))
      BY <2>1, <3>2, CreatedKeeps DEF WInv
    <3>5. {n} \cup asked \in SUBSET DOMAIN Created(p, n, Nil, type)
      BY <2>3 DEF Created
    <3> QED
      BY <2>5, <3>3, <3>4, <3>5, WrapAlike
  <2> QED
    BY <1>10, <2>4, <2>5 DEF AddElement
<1>11. ASSUME NEW p \in Live, NEW name \in Names, NEW type \in Types,
              Parse(p, name, type)
       PROVE  Alike(heap')
  <2> DEFINE own == IF heap[p].type = "GROUP" THEN name ELSE Nil
  <2>1. Create(p, own, type)
    BY <1>11 DEF Parse, Add
  <2>2. PICK n \in Nodes \ Live : heap' = Created(p, n, own, type)
    BY <2>1 DEF Create
  <2>3. heap[p].elems # << >> => 1 \in DOMAIN heap[p].elems
    BY DEF WInv, Shaped, Typed, Record, Live
  <2>4. heap[p].type = "ARRAY" =>
          type \in Scalars /\ \A i \in DOMAIN heap[p].elems : heap[heap[p].elems[i]].type = type
    BY <1>11, <2>3 DEF Parse, Checktype, Alike, Live
  <2> HIDE DEF own
  <2> QED
    BY <2>2, <2>4, CreatedAlike DEF WInv
<1>12. CASE Stopped \/ EndRead \/ UNCHANGED wvars
  BY <1>2, <1>12 DEF Stopped, EndRead, wvars, vars
<1> QED
  BY <1>3, <1>4, <1>5, <1>6, <1>7, <1>8, <1>9, <1>10, <1>11, <1>12 DEF WNext

\* The elements of an array that the parser and the C++ program filled are scalars of
\* one type.
THEOREM ArraysStayHomogeneous == WSpec => []Homogeneous
<1>1. Alike(heap) => Homogeneous
  BY DEF Alike, Homogeneous, Live
<1> DEFINE Inv == Alike(heap)
<1>2. WInit => Inv
  BY AlikeInit
<1>3. WInv /\ Inv /\ [WNext]_wvars => Inv'
  BY AlikeStep
<1>4. Inv => Homogeneous
  BY <1>1
<1> HIDE DEF Inv
<1> QED
  BY <1>2, <1>3, <1>4, WInvariant, PTL DEF WSpec

-----------------------------------------------------------------------------
(* Trails, and so paths.                                                  *)

\* Objects hang on settings and change no trail.
LEMMA WrapReaches ==
  ASSUME NEW h, Shaped(h), Matching(h, wrapper), Reached(h),
         NEW some \in SUBSET DOMAIN h, WrapIn(h, some)
  PROVE  Reached(heap')
<1>1. Shaped(heap')
  BY WrapKeeps
<1>2. /\ DOMAIN heap' = DOMAIN h
      /\ \A n \in DOMAIN h : heap'[n].parent = h[n].parent /\ heap'[n].elems = h[n].elems
  <2> DEFINE bare == {n \in some : h[n].hook = Nil}
  <2>1. PICK made : heap' = [n \in DOMAIN h |->
                               IF n \in bare THEN [h[n] EXCEPT !.hook = made[n]] ELSE h[n]]
    BY DEF WrapIn
  <2>2. h \in [DOMAIN h -> Record]
    BY DEF Shaped, Typed
  <2> HIDE DEF bare
  <2> QED
    BY <2>1, <2>2 DEF Record
<1> HIDE DEF WrapIn
<1> DEFINE g == heap'
<1>3. Shaped(g) /\ DOMAIN g = DOMAIN h
      /\ \A n \in DOMAIN h : g[n].parent = h[n].parent /\ g[n].elems = h[n].elems
  BY <1>1, <1>2
<1> HIDE DEF g
<1>4. Reached(g)
  BY <1>3, SameTrails
<1> QED
  BY <1>4 DEF g

\* A setting that is created can be reached.
LEMMA CreatedReaches ==
  ASSUME Shaped(heap), Reached(heap), NEW p \in Live, NEW n \in Nodes \ Live,
         NEW name \in Names \cup {Nil}, NEW type \in Types, Shaped(Created(p, n, name, type))
  PROVE  Reached(Created(p, n, name, type))
<1>1. PICK t : Trail(heap, t) /\ Ends(t) = p
  BY DEF Reached, Live
<1> QED
  BY <1>1, CreatedTree

\* So every setting can be reached, whatever the program does.
RInv == WInv /\ Reached(heap)

LEMMA Reaching == RInv /\ [WNext]_wvars => Reached(heap)'
<1> SUFFICES ASSUME WInv, Reached(heap), [WNext]_wvars PROVE Reached(heap')
  BY DEF RInv
<1> USE DEF WInv
<1>1. CASE UNCHANGED heap
  BY <1>1
<1>2. ASSUME NEW some \in SUBSET Live, Wrap(some) PROVE Reached(heap')
  BY <1>2, WrapReaches DEF Wrap, Live
<1>3. CASE StartRead
  <2>1. heap' = [n \in {Root} |-> Setting(Nil, "GROUP", Nil)]
    BY <1>3 DEF StartRead, Reinitialise
  <2> QED
    BY <2>1, TopTree
<1>4. ASSUME NEW w \in DOMAIN wrapper, GetParent(w) PROVE Reached(heap')
  <2>1. CASE Crash
    BY <1>1, <2>1 DEF Crash, vars
  <2>2. CASE SettingOf(w) # Root
    <3>1. {heap[SettingOf(w)].parent} \in SUBSET Live
      BY <2>2, ObjectsLive
    <3> QED
      BY <1>2, <1>4, <2>2, <3>1 DEF GetParent
  <2> QED
    BY <1>4, <2>1, <2>2 DEF GetParent
<1>5. ASSUME NEW w \in DOMAIN wrapper, TellPath(w) PROVE Reached(heap')
  <2>1. Ancestors(SettingOf(w)) \in SUBSET Live
    BY DEF Ancestors
  <2> QED
    BY <1>2, <1>5, <2>1 DEF TellPath
<1>6. ASSUME NEW w \in DOMAIN wrapper, NEW i \in DOMAIN heap[SettingOf(w)].elems, Subscript(w, i)
      PROVE  Reached(heap')
  <2>1. {heap[SettingOf(w)].elems[i]} \in SUBSET Live
    BY ObjectsLive
  <2> QED
    BY <1>2, <1>6, <2>1 DEF Subscript
<1>7. ASSUME NEW w \in DOMAIN wrapper, NEW i \in DOMAIN heap[SettingOf(w)].elems,
             RemoveChild(w, i)
      PROVE  Reached(heap')
  <2> DEFINE p == SettingOf(w)
  <2>1. p \in Live /\ i \in DOMAIN heap[p].elems
    BY ObjectsLive
  <2>2. heap' = [m \in Live \ Subtree(heap[p].elems[i]) |-> ListRemove(p, i)[m]]
    BY <1>7 DEF RemoveChild, RemoveElem, Destroy
  <2> HIDE DEF p
  <2>3. IsRemoved(heap', p, i)
    BY <2>1, <2>2, RemovedIs
  <2> QED
    BY <2>1, <2>3, LeftTrails
<1>8. ASSUME NEW w \in DOMAIN wrapper, NEW name \in Names, NEW type \in Types,
             AddMember(w, name, type)
      PROVE  Reached(heap')
  <2> DEFINE p == SettingOf(w)
  <2>1. p \in Live /\ heap[p].type = "GROUP"
    BY <1>8, ObjectsLive DEF AddMember
  <2>2. PICK n \in Nodes \ Live : WrapIn(Created(p, n, name, type), {n})
    BY <1>8 DEF AddMember
  <2>3. \A i \in DOMAIN heap[p].elems : heap[heap[p].elems[i]].name # name
    BY <1>8, <2>1, NodesAssumption DEF AddMember, MemberOf
  <2>4. name # Nil /\ heap[p].type \in Aggregates
    BY <2>1, NodesAssumption DEF Aggregates
  <2> HIDE DEF p
  <2>5. Shaped(Created(p, n, name, type))
    BY <2>1, <2>3, <2>4, CreatedKeeps
  <2>6. Matching(Created(p, n, name, type), wrapper)
    BY <2>1, CreatedMatch
  <2>7. Reached(Created(p, n, name, type))
    BY <2>1, <2>5, CreatedReaches
  <2>8. {n} \in SUBSET DOMAIN Created(p, n, name, type)
    BY DEF Created
  <2> QED
    BY <2>2, <2>5, <2>6, <2>7, <2>8, WrapReaches
<1>9. ASSUME NEW w \in DOMAIN wrapper, NEW type \in Types, AddElement(w, type)
      PROVE  Reached(heap')
  <2> DEFINE p == SettingOf(w)
             asked == Asked(w)
             above == Ancestors(p)
  <2>1. p \in Live /\ heap[p].type \in {"ARRAY", "LIST"}
    BY <1>9, ObjectsLive DEF AddElement
  <2>2. asked \in SUBSET Live
    <3>1. heap[p].elems # << >> => 1 \in DOMAIN heap[p].elems
      BY <2>1 DEF Shaped, Typed, Record, Live
    <3> QED
      BY <3>1, ObjectsLive DEF Asked
  <2>3. above \in SUBSET Live
    BY DEF Ancestors
  <2>4. \/ \E n \in Nodes \ Live : WrapIn(Created(p, n, Nil, type), {n} \cup asked)
        \/ WrapIn(heap, asked \cup above)
    BY <1>9 DEF AddElement
  <2> HIDE DEF p, asked, above
  <2>5. CASE WrapIn(heap, asked \cup above)
    <3>1. asked \cup above \in SUBSET DOMAIN heap
      BY <2>2, <2>3 DEF Live
    <3> QED
      BY <2>5, <3>1, WrapReaches
  <2>6. ASSUME NEW n \in Nodes \ Live, WrapIn(Created(p, n, Nil, type), {n} \cup asked)
        PROVE  Reached(heap')
    <3>1. heap[p].type \in Aggregates /\ heap[p].type # "GROUP"
      BY <2>1 DEF Aggregates
    <3>2. Shaped(Created(p, n, Nil, type))
      BY <2>1, <3>1, CreatedKeeps
    <3>3. Matching(Created(p, n, Nil, type), wrapper)
      BY <2>1, CreatedMatch
    <3>4. Reached(Created(p, n, Nil, type))
      BY <2>1, <3>2, CreatedReaches
    <3>5. {n} \cup asked \in SUBSET DOMAIN Created(p, n, Nil, type)
      BY <2>2 DEF Created
    <3> QED
      BY <2>6, <3>2, <3>3, <3>4, <3>5, WrapReaches
  <2> QED
    BY <2>4, <2>5, <2>6
<1>10. ASSUME NEW p \in Live, NEW name \in Names, NEW type \in Types, Parse(p, name, type)
       PROVE  Reached(heap')
  <2> DEFINE own == IF heap[p].type = "GROUP" THEN name ELSE Nil
  <2>1. heap[p].type \in Aggregates /\ Create(p, own, type)
    BY <1>10 DEF Parse, Add, Aggregates
  <2>2. own \in Names \cup {Nil} /\ (own # Nil <=> heap[p].type = "GROUP")
    BY NodesAssumption
  <2>3. \A i \in DOMAIN heap[p].elems : own # Nil => heap[heap[p].elems[i]].name # own
    BY <1>10, NodesAssumption DEF Parse, Add, MemberOf
  <2> HIDE DEF own
  <2>4. PICK n \in Nodes \ Live : heap' = Created(p, n, own, type)
    BY <2>1 DEF Create
  <2>5. Shaped(Created(p, n, own, type))
    BY <2>1, <2>2, <2>3, CreatedKeeps
  <2> QED
    BY <2>2, <2>4, <2>5, CreatedReaches
<1>11. ASSUME NEW n \in Live, Find(n) PROVE Reached(heap')
  <2>1. {n} \in SUBSET Live
    OBVIOUS
  <2> QED
    BY <1>2, <1>11, <2>1 DEF Find
<1>12. CASE Stopped \/ EndRead \/ UNCHANGED wvars
  BY <1>1, <1>12 DEF Stopped, EndRead, wvars, vars
<1> QED
  BY <1>3, <1>4, <1>5, <1>6, <1>7, <1>8, <1>9, <1>10, <1>11, <1>12 DEF WNext

\* What a setting tells is the segments of its trail.
Segments(t) == [k \in 1..(Len(t) - 1) |-> Segment(t[k + 1])]

\* A setting tells one segment more than its parent.
LEMMA SegmentsGrow ==
  ASSUME Shaped(heap), NEW u, Trail(heap, u), NEW m \in Live \ {Root}, heap[m].parent = Ends(u)
  PROVE  /\ Trail(heap, Append(u, m)) /\ Ends(Append(u, m)) = m /\ Len(Append(u, m)) = Len(u) + 1
         /\ Segments(Append(u, m)) = Append(Segments(u), Segment(m))
<1> DEFINE t == Append(u, m)
           n == Len(u)
           j == IndexOf(heap, m)
           r == Append(Segments(u), Segment(m))
           X == {Segment(x) : x \in Live}
<1>1. j \in DOMAIN heap[Ends(u)].elems /\ heap[Ends(u)].elems[j] = m
  BY Parents DEF Live
<1>2. Trail(heap, t) /\ Ends(t) = m
  <2> HIDE DEF j
  <2>1. /\ Trail(heap, Append(u, heap[Ends(u)].elems[j]))
        /\ Ends(Append(u, heap[Ends(u)].elems[j])) = heap[Ends(u)].elems[j]
    BY <1>1, Onward
  <2> QED
    BY <1>1, <2>1
<1>3. u \in Seq(Live) /\ n \in Nat \ {0}
  BY OnTrail DEF Trail, Live
<1>4. Len(t) = n + 1 /\ t[n + 1] = m /\ \A k \in 1..n : t[k] = u[k]
  BY <1>3
<1>5. Segments(u) \in Seq(X) /\ Len(Segments(u)) = n - 1
      /\ \A k \in 1..(n - 1) : Segments(u)[k] = Segment(u[k + 1])
  <2>1. \A k \in 1..(n - 1) : u[k + 1] \in Live
    BY <1>3
  <2> HIDE DEF n
  <2> QED
    BY <1>3, <2>1 DEF Segments, n
<1>6. /\ r \in Seq(X \cup {Segment(m)}) /\ Len(r) = n
      /\ \A k \in 1..n : r[k] = IF k = n THEN Segment(m) ELSE Segment(u[k + 1])
  <2> DEFINE s == Segments(u)
             x == Segment(m)
  <2>1. s \in Seq(X \cup {x}) /\ Len(s) = n - 1 /\ \A k \in 1..(n - 1) : s[k] = Segment(u[k + 1])
    BY <1>5
  <2> HIDE DEF s, x, X, n
  <2>2. /\ Append(s, x) \in Seq(X \cup {x}) /\ Len(Append(s, x)) = n
        /\ \A k \in 1..n : Append(s, x)[k] = IF k = n THEN x ELSE s[k]
    BY <1>3, <2>1
  <2>3. \A k \in 1..n : k # n => k \in 1..(n - 1)
    BY <1>3
  <2> QED
    BY <2>1, <2>2, <2>3 DEF s, x
<1> HIDE DEF r, X
<1>7. r = [k \in 1..n |-> r[k]]
  BY <1>3, <1>6
<1> HIDE DEF t
<1>8. \A k \in 1..n : r[k] = Segment(t[k + 1])
  <2> TAKE k \in 1..n
  <2>1. CASE k = n
    BY <1>4, <1>6, <2>1
  <2>2. CASE k # n
    <3>1. k + 1 \in 1..n
      BY <1>3, <2>2
    <3> QED
      BY <1>4, <1>6, <2>2, <3>1
  <2> QED
    BY <2>1, <2>2
<1>9. Segments(t) = [k \in 1..n |-> Segment(t[k + 1])]
  <2>1. Len(t) - 1 = n
    BY <1>3, <1>4
  <2> QED
    BY <2>1 DEF Segments
<1>10. Segments(t) = r
  <2> HIDE DEF n
  <2> QED
    BY <1>7, <1>8, <1>9
<1> QED
  BY <1>2, <1>4, <1>10 DEF t, r

Telling(f) ==
  [m \in Live |-> IF m = Root THEN << >> ELSE Append(f[heap[m].parent], Segment(m))]

\* __constructPath: the path of a setting is the segments of its trail.
LEMMA PathTells ==
  ASSUME Shaped(heap), Reached(heap), NEW t, Trail(heap, t)
  PROVE  PathOf(Ends(t)) = Segments(t)
<1> DEFINE F == CHOOSE f : f = Telling(f)
           G == [m \in Live |-> Segments(TrailTo(heap, m))]
           S == {n \in Nat : \A u : Trail(heap, u) /\ Len(u) = n => F[Ends(u)] = Segments(u)}
<1>1. \A m \in Live : PathOf(m) = F[m]
  BY DEF PathOf, Telling
<1>2. ASSUME NEW u, Trail(heap, u), Ends(u) = Root PROVE Segments(u) = << >>
  <2>1. Len(u) = 1
    BY <1>2, AtRoot
  <2> QED
    BY <2>1 DEF Segments
<1>3. G = Telling(G)
  <2>1. ASSUME NEW m \in Live
        PROVE  G[m] = IF m = Root THEN << >> ELSE Append(G[heap[m].parent], Segment(m))
    <3> DEFINE v == TrailTo(heap, m)
    <3>1. Trail(heap, v) /\ Ends(v) = m /\ G[m] = Segments(v)
      BY TrailsLead DEF Live
    <3>2. CASE m = Root
      BY <1>2, <3>1, <3>2
    <3>3. CASE m # Root
      <4> DEFINE q == heap[m].parent
                 u == TrailTo(heap, q)
      <4>1. q \in Live
        BY <3>3, Parents DEF Live
      <4>2. Trail(heap, u) /\ Ends(u) = q /\ G[q] = Segments(u)
        BY <4>1, TrailsLead DEF Live
      <4>3. Trail(heap, Append(u, m)) /\ Ends(Append(u, m)) = m
            /\ Segments(Append(u, m)) = Append(Segments(u), Segment(m))
        <5> HIDE DEF u
        <5> QED
          BY <3>3, <4>2, SegmentsGrow
      <4>4. Append(u, m) = v
        <5> HIDE DEF u
        <5> QED
          BY <4>3, TrailsLead DEF Live
      <4> HIDE DEF u, v, G
      <4> QED
        BY <3>1, <3>3, <4>2, <4>3, <4>4
    <3> QED
      BY <3>2, <3>3
  <2>2. G = [m \in Live |-> G[m]]
    OBVIOUS
  <2> HIDE DEF G
  <2> QED
    BY <2>1, <2>2 DEF Telling
<1>4. F = Telling(F)
  <2> HIDE DEF G
  <2> QED
    BY <1>3
<1> HIDE DEF F, G
<1>5. 0 \in S
  BY OnTrail
<1>6. ASSUME NEW n \in S PROVE n + 1 \in S
  <2> SUFFICES ASSUME NEW u, Trail(heap, u), Len(u) = n + 1 PROVE F[Ends(u)] = Segments(u)
    OBVIOUS
  <2> DEFINE m == Ends(u)
  <2>1. m \in Live /\ F[m] = IF m = Root THEN << >> ELSE Append(F[heap[m].parent], Segment(m))
    BY <1>4, OnTrail DEF Telling, Live
  <2>2. CASE m = Root
    BY <1>2, <2>1, <2>2
  <2>3. CASE m # Root
    <3>1. PICK w : Trail(heap, w) /\ Ends(w) = heap[m].parent /\ Len(u) = Len(w) + 1
      BY <2>3, Inward
    <3>2. Trail(heap, Append(w, m)) /\ Ends(Append(w, m)) = m
          /\ Segments(Append(w, m)) = Append(Segments(w), Segment(m))
      <4> HIDE DEF m
      <4> QED
        BY <2>1, <2>3, <3>1, SegmentsGrow
    <3>3. Append(w, m) = u
      <4>1. u = TrailTo(heap, m)
        BY <2>1, TrailsLead DEF Live
      <4>2. Append(w, m) = TrailTo(heap, m)
        <5> HIDE DEF m
        <5> QED
          BY <2>1, <3>2, TrailsLead DEF Live
      <4> QED
        BY <4>1, <4>2
    <3>4. F[heap[m].parent] = Segments(w)
      <4>1. Len(w) = n
        BY <3>1, OnTrail
      <4> QED
        BY <3>1, <4>1
    <3> HIDE DEF m
    <3> QED
      BY <2>1, <2>3, <3>2, <3>3, <3>4 DEF m
  <2> QED
    BY <2>2, <2>3
<1>7. S = Nat
  <2>1. S \in SUBSET Nat
    OBVIOUS
  <2> HIDE DEF S
  <2> QED
    BY <1>5, <1>6, <2>1, SetInduction
<1>8. Len(t) \in S
  <2>1. Len(t) \in Nat
    BY OnTrail
  <2> HIDE DEF S
  <2> QED
    BY <1>7, <2>1
<1>9. Ends(t) \in Live
  BY OnTrail DEF Live
<1> QED
  BY <1>1, <1>8, <1>9

-----------------------------------------------------------------------------
\* A segment leads from the parent to the setting that tells it.
LEMMA SegmentLeads ==
  ASSUME Shaped(heap), NEW m \in Live \ {Root}
  PROVE  Step(heap[m].parent, Segment(m)) = m
<1> DEFINE p == heap[m].parent
           e == heap[p].elems
           i == IndexOf(heap, m)
           s == Segment(m)
<1>1. p \in Live /\ i \in DOMAIN e /\ e[i] = m /\ DOMAIN e = 1..Len(e) /\ Len(e) \in Nat
  <2>1. p \in Live /\ i \in DOMAIN e /\ e[i] = m
    BY Parents DEF Live
  <2>2. e \in Seq(Nodes)
    BY <2>1, Parents DEF Live
  <2> QED
    BY <2>1, <2>2
<1>2. p # Nil /\ heap[m].name \in Names \cup {Nil} /\ heap[p].type \in Aggregates
  <2>1. p # Nil /\ heap[m].name \in Names \cup {Nil}
    BY <1>1, NodesAssumption DEF Shaped, Typed, Record, Live
  <2>2. e # << >>
    BY <1>1
  <2> QED
    BY <1>1, <2>1, <2>2 DEF Shaped, Leaves, Live
<1>3. /\ (heap[m].name # Nil) <=> (heap[p].type = "GROUP")
      /\ \A j \in DOMAIN e : heap[m].name # Nil /\ j # i => heap[e[j]].name # heap[m].name
  BY <1>1 DEF Shaped, Named, Live
<1> HIDE DEF p, e, i
<1>4. CASE heap[m].name # Nil
  <2>1. s = [name |-> heap[m].name] /\ heap[m].name \in Names
    BY <1>2, <1>4 DEF Segment
  <2>2. "name" \in DOMAIN s /\ "index" \notin DOMAIN s /\ s.name = heap[m].name
    BY <2>1
  <2> HIDE DEF s
  <2>3. MemberOf(p, s.name) = {i}
    <3>1. Member[s.name] = heap[m].name
      BY <2>1, <2>2, NodesAssumption
    <3>2. MemberOf(p, s.name) = {j \in DOMAIN e : heap[e[j]].name = heap[m].name}
      BY <1>3, <1>4, <3>1 DEF MemberOf, e
    <3> QED
      BY <1>1, <1>3, <1>4, <3>2
  <2>4. Step(p, s) = heap[p].elems[CHOOSE j \in MemberOf(p, s.name) : TRUE]
    <3>1. MemberOf(p, s.name) # {}
      BY <2>3
    <3> QED
      BY <1>2, <2>2, <3>1 DEF Step
  <2>5. (CHOOSE j \in MemberOf(p, s.name) : TRUE) = i
    BY <2>3
  <2> QED
    BY <1>1, <2>4, <2>5 DEF s, p, e
<1>5. CASE heap[m].name = Nil
  <2>1. s = [index |-> i - 1]
    BY <1>5 DEF Segment, i
  <2>2. "index" \in DOMAIN s /\ "name" \notin DOMAIN s /\ s.index + 1 = i
    BY <1>1, <2>1
  <2> HIDE DEF s
  <2>3. Step(p, s) = e[i]
    BY <1>1, <1>2, <2>2 DEF Step, e
  <2> QED
    BY <1>1, <2>3 DEF s, p
<1> QED
  BY <1>4, <1>5

\* config_lookup walks the trail.
LEMMA LookupWalks ==
  ASSUME Shaped(heap), NEW t, Trail(heap, t)
  PROVE  LookedUp(Segments(t)) = Ends(t)
<1> DEFINE s == Segments(t)
           n == Len(t) - 1
           Walk(f) == [k \in 0..Len(s) |-> IF k = 0 THEN Root ELSE Step(f[k - 1], s[k])]
           F == CHOOSE f : f = Walk(f)
           G == [k \in 0..Len(s) |-> t[k + 1]]
           S == {k \in Nat : k <= n => F[k] = t[k + 1]}
<1>1. n \in Nat /\ t[1] = Root /\ Ends(t) = t[n + 1]
  BY OnTrail DEF Trail, Ends
<1>2. Len(s) = n /\ \A k \in 1..n : s[k] = Segment(t[k + 1])
  BY <1>1 DEF Segments
<1>3. ASSUME NEW k \in 1..n PROVE Step(t[k], s[k]) = t[k + 1]
  <2>1. t[k + 1] \in Live \ {Root} /\ heap[t[k + 1]].parent = t[k]
    BY PathTypes DEF Live
  <2> QED
    BY <1>2, <2>1, SegmentLeads
<1>4. LookedUp(s) = F[Len(s)]
  BY DEF LookedUp
<1> HIDE DEF n, s
<1>5. G = Walk(G)
  <2>1. ASSUME NEW k \in 0..Len(s) PROVE G[k] = IF k = 0 THEN Root ELSE Step(G[k - 1], s[k])
    <3>1. CASE k = 0
      BY <1>1, <3>1
    <3>2. CASE k # 0
      <4>1. k - 1 \in 0..Len(s) /\ (k - 1) + 1 = k /\ k \in 1..n
        BY <1>1, <1>2, <3>2
      <4> QED
        BY <1>3, <3>2, <4>1
    <3> QED
      BY <3>1, <3>2
  <2>2. G = [k \in 0..Len(s) |-> G[k]]
    OBVIOUS
  <2> HIDE DEF G
  <2> QED
    BY <2>1, <2>2
<1>6. F = Walk(F)
  <2> HIDE DEF G, Walk
  <2> QED
    BY <1>5
<1> HIDE DEF F, G
<1>7. \A k \in 0..n : F[k] = IF k = 0 THEN Root ELSE Step(F[k - 1], s[k])
  BY <1>2, <1>6
<1> HIDE DEF Walk
<1>8. 0 \in S
  BY <1>1, <1>7
<1>9. ASSUME NEW k \in S PROVE k + 1 \in S
  <2> SUFFICES ASSUME NEW j \in Nat, j = k + 1, j <= n PROVE F[j] = t[j + 1]
    OBVIOUS
  <2>1. j \in 1..n /\ j \in 0..n /\ j # 0 /\ j - 1 = k /\ F[k] = t[k + 1]
    BY <1>1
  <2>2. F[j] = Step(F[k], s[j])
    BY <1>7, <2>1
  <2> QED
    BY <1>3, <2>1, <2>2
<1>10. S = Nat
  <2>1. S \in SUBSET Nat
    OBVIOUS
  <2> HIDE DEF S
  <2> QED
    BY <1>8, <1>9, <2>1, SetInduction
<1>11. F[n] = t[n + 1]
  <2>1. n \in S
    <3> HIDE DEF S
    <3> QED
      BY <1>1, <1>10
  <2> QED
    BY <1>1, <2>1
<1> QED
  BY <1>1, <1>2, <1>4, <1>11 DEF s

\* The path a setting tells, in getPath or in an exception, leads lookup back to it,
\* whatever was added, removed and read before.
THEOREM PathsLeadBackToSettings == WSpec => []PathsLeadBack
<1>1. WInit => RInv
  <2>1. WInit => Reached(heap)
    BY TopTree DEF WInit, Init
  <2> QED
    BY <2>1, WInitial DEF RInv
<1>2. RInv /\ [WNext]_wvars => RInv'
  BY WStep, Reaching DEF RInv
<1>3. RInv => PathsLeadBack
  <2> SUFFICES ASSUME RInv, NEW n \in Live PROVE LookedUp(PathOf(n)) = n
    BY DEF PathsLeadBack
  <2>1. Shaped(heap) /\ Reached(heap)
    BY DEF RInv, WInv
  <2>2. PICK t : Trail(heap, t) /\ Ends(t) = n
    BY <2>1 DEF Reached, Live
  <2>3. PathOf(n) = Segments(t)
    BY <2>1, <2>2, PathTells
  <2> QED
    BY <2>1, <2>2, <2>3, LookupWalks
<1> QED
  BY <1>1, <1>2, <1>3, PTL DEF WSpec
=============================================================================
